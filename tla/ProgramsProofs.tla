-------------------------- MODULE ProgramsProofs --------------------------
(***************************************************************************)
(* The smaller programs for every value of their constants.                *)
(***************************************************************************)
EXTENDS PipelinesProofs, EchoProofs

(* The condition variable of pipe.c, for any number of threads, waits and  *)
(* wakes.  A waiter whose generation has passed has heard of it: that is   *)
(* what the test of cond_wait relies on.                                   *)
GenerationHeard ==
  \A t \in Threads :
    /\ label[t] \in {"unlock", "wait", "check"} /\ wait_generation_count # my_generation[t]
         => heard[t] # "nothing"
    /\ label[t] \in {"unlock", "wait", "check"} => my_generation[t] <= wait_generation_count

WaitLabels == {"idle", "register", "unlock", "wait", "check", "relock", "leave", "reset", "return"}
WakeTyped ==
  /\ waiters_count \in Int /\ release_count \in Int /\ wait_generation_count \in Nat
  /\ my_generation \in [Threads -> Nat] /\ label \in [Threads -> WaitLabels]
  /\ heard \in [Threads -> {"nothing", "signal", "broadcast"}]

EventTyped == event \in BOOLEAN /\ mutex \in Threads \cup {Nobody}

WakeInv == WakeTyped /\ GenerationHeard /\ NoStolenWake /\ NoReleaseKept

LEMMA WakeInit == ASSUME Init PROVE WakeInv
  BY DEF Init, WakeInv, WakeTyped, WaitLabels, GenerationHeard, NoStolenWake, NoReleaseKept, Nobody

(* A wake: every registered thread hears of it before the generation goes  *)
(* up, and the releases stay within the waiters.                           *)
LEMMA WakeSent == ASSUME WakeInv, cond_signal \/ cond_broadcast PROVE WakeInv'
<1> USE DEF WakeInv, WakeTyped, WaitLabels, Tell, Registered, counts
<1>1. CASE cond_signal
  <2>1. WakeTyped'
    BY <1>1 DEF cond_signal
  <2>2. GenerationHeard' /\ NoStolenWake'
    BY <1>1 DEF cond_signal, GenerationHeard, NoStolenWake
  <2>3. NoReleaseKept'
    BY <1>1 DEF cond_signal, NoReleaseKept
  <2> QED BY <2>1, <2>2, <2>3
<1>2. CASE cond_broadcast
  <2>1. WakeTyped'
    BY <1>2 DEF cond_broadcast
  <2>2. GenerationHeard' /\ NoStolenWake'
    BY <1>2 DEF cond_broadcast, GenerationHeard, NoStolenWake
  <2>3. NoReleaseKept'
    BY <1>2 DEF cond_broadcast, NoReleaseKept
  <2> QED BY <2>1, <2>2, <2>3
<1> QED BY <1>1, <1>2

(* A step of a thread in or before cond_wait.                              *)
LEMMA WaitStep ==
  ASSUME WakeInv, NEW t \in Threads, Lock(t) \/ cond_wait(t) PROVE WakeInv'
<1> USE DEF WakeInv, WakeTyped, WaitLabels, Goes, counts, calls, GenerationHeard, NoStolenWake, NoReleaseKept
<1>1. CASE Lock(t) BY <1>1 DEF Lock
<1>2. CASE Register(t) BY <1>2 DEF Register
<1>3. CASE Unlock(t) BY <1>3 DEF Unlock
<1>4. CASE WaitForEvent(t) BY <1>4 DEF WaitForEvent
<1>5. CASE Check(t) BY <1>5 DEF Check, WaitDone
<1>6. CASE Relock(t) BY <1>6 DEF Relock
<1>7. CASE Leave(t) BY <1>7 DEF Leave
<1>8. CASE ResetEvent(t) BY <1>8 DEF ResetEvent
<1>9. CASE Return(t) BY <1>9 DEF Return
<1> QED BY <1>1, <1>2, <1>3, <1>4, <1>5, <1>6, <1>7, <1>8, <1>9 DEF cond_wait

LEMMA WakeStep == ASSUME WakeInv, [Next]_vars PROVE WakeInv'
<1>1. CASE UNCHANGED vars
  BY <1>1 DEF vars, counts, calls, WakeInv, WakeTyped, GenerationHeard, NoStolenWake, NoReleaseKept
<1> QED BY <1>1, WakeSent, WaitStep DEF Next

LEMMA EventStep == ASSUME EventTyped, [Next]_vars PROVE EventTyped'
<1> USE DEF EventTyped, counts
<1>1. CASE UNCHANGED vars BY <1>1 DEF vars
<1>2. CASE cond_signal \/ cond_broadcast
  <2>1. mutex' = mutex BY <1>2 DEF cond_signal, cond_broadcast, Tell
  <2>2. event' = TRUE \/ event' = event BY <1>2 DEF cond_signal, cond_broadcast
  <2> QED BY <2>1, <2>2
<1>3. ASSUME NEW t \in Threads, Lock(t) \/ cond_wait(t) PROVE EventTyped'
  <2>1. mutex' \in {mutex, t, Nobody}
    BY <1>3 DEF Lock, cond_wait, Register, Unlock, WaitForEvent, Check, Relock, Leave, ResetEvent, Return
  <2>2. event' = FALSE \/ event' = event
    BY <1>3 DEF Lock, cond_wait, Register, Unlock, WaitForEvent, Check, Relock, Leave, ResetEvent, Return
  <2> QED BY <2>1, <2>2
<1> QED BY <1>1, <1>2, <1>3 DEF Next

LEMMA EventAlways == AnyFairSpec => []EventTyped
<1>1. AnyInit => EventTyped BY DEF AnyInit, Init, EventTyped
<1>2. EventTyped /\ [AnyNext]_allv => EventTyped' BY EventStep, EachProgram
<1> QED BY <1>1, <1>2, PTL DEF AnyFairSpec

LEMMA WakeAlways == AnyFairSpec => []WakeInv
<1>1. AnyInit => WakeInv BY WakeInit DEF AnyInit
<1>2. WakeInv /\ [AnyNext]_allv => WakeInv' BY WakeStep, EachProgram
<1> QED BY <1>1, <1>2, PTL DEF AnyFairSpec

(* No thread goes on because of a wake sent before its cond_wait: the test *)
(* of the generation suffices for any number of waiters and wakes.         *)
THEOREM WakesAreForWaiters == AnyFairSpec => []NoStolenWake
<1>1. WakeInv => NoStolenWake BY DEF WakeInv
<1> QED BY <1>1, WakeAlways, PTL

(* There are never more releases than waiters.                             *)
THEOREM ReleasesAreForWaiters == AnyFairSpec => []NoReleaseKept
<1>1. WakeInv => NoReleaseKept BY DEF WakeInv
<1> QED BY <1>1, WakeAlways, PTL

-----------------------------------------------------------------------------
(* using-condition-variables.c.  Whoever is in a critical section holds the*)
(* mutex, the count is what the increments and the watcher have made it,   *)
(* and a watcher that was woken once will not sleep again.                 *)
WatchSteps == {"lock", "locked", "unlock", "sleep", "relock", "ended"}
WatchTyped ==
  /\ count \in Nat /\ woken \in 0 .. 1 /\ joined \in 0 .. 3
  /\ step \in [W!ThreadIds -> WatchSteps] /\ i \in [W!Counters -> 0 .. TCOUNT]
  /\ count_mutex \in W!ThreadIds \cup {W!Free}

Holds == \A t \in W!ThreadIds : step[t] \in {"locked", "unlock"} => count_mutex = t
WatchPlaces ==
  /\ step[W!Watcher] # "unlock"
  /\ \A t \in W!Counters :
       /\ step[t] \notin {"sleep", "relock"}
       /\ step[t] \in {"locked", "unlock"} => i[t] < TCOUNT
       /\ step[t] = "ended" => i[t] = TCOUNT
Made(t) == IF step[t] = "unlock" THEN i[t] + 1 ELSE i[t]
Counted == count = Made(1) + Made(2) + (IF woken = 1 THEN Bonus ELSE 0)
WokenOnce == step[W!Watcher] \in {"sleep", "relock", "lock"} => woken = 0
JoinedEnded == \A t \in W!ThreadIds : t < joined => step[t] = "ended"

WatchInv == WatchTyped /\ Holds /\ WatchPlaces /\ Counted /\ WokenOnce /\ JoinedEnded

USE CountWatchAssumption DEF WatchSteps, W!ThreadIds, W!Counters, W!Watcher, W!Free

LEMMA WatchInit == ASSUME W!Init PROVE WatchInv
  BY DEF W!Init, WatchInv, WatchTyped, Holds, WatchPlaces, Made, Counted, WokenOnce, JoinedEnded

LEMMA CounterStep ==
  ASSUME WatchInv, NEW t \in W!Counters, W!Increment(t) \/ W!Unlock(t) PROVE WatchInv'
<1> USE DEF WatchInv, WatchTyped, Holds, WatchPlaces, Made, Counted, WokenOnce, JoinedEnded, W!Moves
<1>1. CASE W!Increment(t)
  <2>1. WatchTyped' BY <1>1 DEF W!Increment
  <2>2. Holds' /\ WatchPlaces' BY <1>1 DEF W!Increment
  <2>3. Counted' BY <1>1 DEF W!Increment
  <2>4. WokenOnce' /\ JoinedEnded' BY <1>1 DEF W!Increment
  <2> QED BY <2>1, <2>2, <2>3, <2>4
<1>2. CASE W!Unlock(t)
  <2>1. WatchTyped' BY <1>2 DEF W!Unlock
  <2>2. Holds' /\ WatchPlaces' BY <1>2 DEF W!Unlock
  <2>3. Counted' BY <1>2 DEF W!Unlock
  <2>4. WokenOnce' /\ JoinedEnded' BY <1>2 DEF W!Unlock
  <2> QED BY <2>1, <2>2, <2>3, <2>4
<1> QED BY <1>1, <1>2

LEMMA LockStep == ASSUME WatchInv, NEW t \in W!ThreadIds, W!Lock(t) PROVE WatchInv'
  BY DEF WatchInv, WatchTyped, Holds, WatchPlaces, Made, Counted, WokenOnce, JoinedEnded, W!Moves, W!Lock

(* The watcher sleeps only with a count below the limit, which a count with*)
(* its bonus in it is not.                                                 *)
LEMMA WatcherStep ==
  ASSUME WatchInv, W!Watch \/ W!Woken \/ W!SpuriousWakeup PROVE WatchInv'
<1> USE DEF WatchInv, WatchTyped, Holds, WatchPlaces, Made, Counted, WokenOnce, JoinedEnded, W!Moves
<1>1. CASE W!Watch BY <1>1 DEF W!Watch
<1>2. CASE W!Woken BY <1>2 DEF W!Woken
<1>3. CASE W!SpuriousWakeup BY <1>3 DEF W!SpuriousWakeup
<1> QED BY <1>1, <1>2, <1>3

LEMMA WatchStep == ASSUME WatchInv, [W!Next]_watchv PROVE WatchInv'
<1>1. CASE W!Join
  BY <1>1 DEF W!Join, WatchInv, WatchTyped, Holds, WatchPlaces, Made, Counted, WokenOnce, JoinedEnded
<1>2. CASE UNCHANGED watchv
  BY <1>2 DEF watchv, WatchInv, WatchTyped, Holds, WatchPlaces, Made, Counted, WokenOnce, JoinedEnded
<1> QED BY <1>1, <1>2, CounterStep, LockStep, WatcherStep DEF W!Next, W!Thread

LEMMA WatchAlways == AnyFairSpec => []WatchInv
<1>1. AnyInit => WatchInv BY WatchInit DEF AnyInit
<1>2. WatchInv /\ [AnyNext]_allv => WatchInv' BY WatchStep, EachProgram
<1> QED BY <1>1, <1>2, PTL DEF AnyFairSpec

(* No increment is lost and the bonus is added at most once, whatever the  *)
(* order of the threads and however often the watcher is woken for nothing.*)
THEOREM CountIsExact == AnyFairSpec => []CountExact
<1>1. WatchInv => CountExact
  BY DEF WatchInv, WatchTyped, WatchPlaces, Made, Counted, JoinedEnded, CountExact, W!CountExact
<1> QED BY <1>1, WatchAlways, PTL

HIDE CountWatchAssumption DEF WatchSteps, W!ThreadIds, W!Counters, W!Watcher, W!Free

-----------------------------------------------------------------------------
(* using-mutexes.c.  The sum has the slices of the threads that have stored*)
(* theirs; the holder of the mutex has read it as it is.                   *)
Slice(t) == t * VECLEN .. (t + 1) * VECLEN - 1
Stored == {t \in D!Offsets : place[t] \in {"unlock", "exited"}}
Slices(T) == {k \in D!Indices : \E t \in T : k \in Slice(t)}

DotTyped ==
  /\ progress \in [created : 0 .. NUMTHRDS, joined : 0 .. NUMTHRDS]
  /\ mutexsum \in D!Offsets \cup {D!Free}
  /\ place \in [D!Offsets ->
       {"none", "multiply", "lock", "load", "store", "unlock", "exited"}]
  /\ DOMAIN mysum = D!Offsets /\ DOMAIN loaded = D!Offsets
DotPlaces ==
  /\ \A t \in D!Offsets :
       /\ place[t] \in {"load", "store", "unlock"} => mutexsum = t
       /\ place[t] \in {"lock", "load", "store"} => mysum[t] = D!SumOf(Slice(t))
       /\ place[t] = "store" => loaded[t] = sum
       /\ t < progress.joined => place[t] = "exited"
  /\ progress.joined > 0 => progress.created = NUMTHRDS
SumIsStored == sum = D!SumOf(Slices(Stored))
OutputIsSum ==
  output # D!Nothing => progress.joined = NUMTHRDS /\ output = sum

DotInv == DotTyped /\ DotPlaces /\ SumIsStored /\ OutputIsSum

(* Every index is in the slice of one thread.                              *)
LEMMA SlicesCover ==
  ASSUME NEW k \in D!Indices
  PROVE  \E t \in D!Offsets : k \in Slice(t)
<1> USE DotAssumption DEF D!Indices
<1>1. VECLEN > 0
  <2>1. VECLEN = 0 => NUMTHRDS * VECLEN = 0 BY Z3
  <2> QED BY <2>1
<1> DEFINE t == k \div VECLEN
<1>2. t \in Int /\ k = VECLEN * t + (k % VECLEN) /\ k % VECLEN \in 0 .. VECLEN - 1 BY <1>1
<1>3. t * VECLEN <= k /\ k < (t + 1) * VECLEN BY <1>2, <1>1
<1>4. t >= 0 BY <1>1
<1>5. t < NUMTHRDS
  <2>1. SUFFICES ASSUME t >= NUMTHRDS PROVE FALSE BY <1>2
  <2>2. t * VECLEN >= NUMTHRDS * VECLEN BY <2>1, <1>2, <1>1
  <2> QED BY <2>2, <1>3
<1> HIDE DEF t
<1> QED BY <1>2, <1>3, <1>4, <1>5 DEF Slice, D!Offsets

LEMMA SlicesApart ==
  ASSUME NEW t \in D!Offsets, NEW u \in D!Offsets, t # u
  PROVE  Slice(t) \cap Slice(u) = {}
<1> USE DotAssumption DEF D!Offsets, Slice
<1>1. \A a, b \in D!Offsets : a < b => (a + 1) * VECLEN <= b * VECLEN OBVIOUS
<1> QED BY <1>1

LEMMA SlicesInRange ==
  ASSUME NEW t \in D!Offsets
  PROVE  Slice(t) \subseteq D!Indices
<1> USE DotAssumption DEF D!Offsets, D!Indices, Slice
<1>1. (t + 1) * VECLEN <= NUMTHRDS * VECLEN OBVIOUS
<1>2. t * VECLEN >= 0 OBVIOUS
<1> QED BY <1>1, <1>2

LEMMA DotInit == ASSUME D!Init PROVE DotInv
<1> USE DotAssumption DEF D!Init, D!Offsets
<1>1. DotTyped BY DEF DotTyped
<1>a. DotPlaces BY DEF DotPlaces
<1>2. Stored = {} BY DEF Stored
<1>3. SumIsStored BY <1>2 DEF SumIsStored, Slices, D!Nothing
<1> QED BY <1>1, <1>a, <1>3 DEF DotInv, OutputIsSum

(* A step that stores nothing leaves the sum and what has been stored.     *)
LEMMA DotQuiet ==
  ASSUME DotInv, DotTyped', DotPlaces', UNCHANGED <<sum, Stored>>,
         \/ UNCHANGED <<output, progress>>
         \/ output = D!Nothing /\ UNCHANGED output
         \/ UNCHANGED progress /\ progress.joined = NUMTHRDS /\ output' = sum
  PROVE  DotInv'
  BY DEF DotInv, SumIsStored, OutputIsSum, Slices, D!SumOf, D!Nothing

LEMMA DotThread ==
  ASSUME DotInv, NEW t \in D!Offsets, D!dotprod(t) PROVE DotInv'
<1> USE DEF D!Steps, D!Offsets
<1>0. DotTyped /\ DotPlaces BY DEF DotInv
<1>1. CASE D!Multiply(t)
  <2>1. DotTyped' BY <1>0, <1>1 DEF DotTyped, D!Multiply
  <2>2. DotPlaces' BY <1>0, <1>1 DEF DotTyped, DotPlaces, D!Multiply, Slice
  <2>3. UNCHANGED Stored BY <1>0, <1>1 DEF Stored, DotTyped, D!Multiply
  <2> QED BY <1>1, <2>1, <2>2, <2>3, DotQuiet DEF D!Multiply
<1>2. CASE D!LockSum(t)
  <2>1. DotTyped' BY <1>0, <1>2 DEF DotTyped, D!LockSum
  <2>2. \A u \in D!Offsets : place[u] \notin {"load", "store", "unlock"}
    BY <1>0, <1>2, DotAssumption DEF DotPlaces, D!LockSum, D!Free
  <2>3. DotPlaces' BY <1>0, <1>2, <2>2 DEF DotTyped, DotPlaces, D!LockSum
  <2>4. UNCHANGED Stored BY <1>0, <1>2 DEF Stored, DotTyped, D!LockSum
  <2> QED BY <1>2, <2>1, <2>3, <2>4, DotQuiet DEF D!LockSum
<1>3. CASE D!LoadSum(t)
  <2>1. DotTyped' BY <1>0, <1>3 DEF DotTyped, D!LoadSum
  <2>2. DotPlaces' BY <1>0, <1>3 DEF DotTyped, DotPlaces, D!LoadSum
  <2>3. UNCHANGED Stored BY <1>0, <1>3 DEF Stored, DotTyped, D!LoadSum
  <2> QED BY <1>3, <2>1, <2>2, <2>3, DotQuiet DEF D!LoadSum
<1>4. CASE D!StoreSum(t)
  <2>1. DotTyped' BY <1>0, <1>4 DEF DotTyped, D!StoreSum
  <2>2. \A u \in D!Offsets \ {t} : place[u] # "store"
    BY <1>0, <1>4 DEF DotTyped, DotPlaces, D!StoreSum
  <2>3. DotPlaces' BY <1>0, <1>4, <2>2 DEF DotTyped, DotPlaces, D!StoreSum
  <2>4. Stored' = Stored \cup {t} /\ t \notin Stored
    BY <1>0, <1>4 DEF Stored, DotTyped, D!StoreSum
  <2>5. loaded[t] = D!SumOf(Slices(Stored)) /\ mysum[t] = D!SumOf(Slice(t))
    BY <1>0, <1>4 DEF DotInv, DotPlaces, SumIsStored, D!StoreSum
  <2>6. \A k \in D!Indices : k \in Slices(Stored') <=> k \in Slices(Stored) \/ k \in Slice(t)
    BY <2>4 DEF Slices
  <2>7. \A k \in D!Indices : ~(k \in Slices(Stored) /\ k \in Slice(t))
    BY <2>4, SlicesApart DEF Slices, Stored
  <2>8. sum' = [k \in D!Indices |-> loaded[t][k] + mysum[t][k]] BY <1>4 DEF D!StoreSum
  <2>9. SumIsStored' BY <2>5, <2>6, <2>7, <2>8 DEF SumIsStored, D!SumOf
  <2>10. OutputIsSum'
    <3>1. place[t] # "exited" /\ UNCHANGED <<output, progress>> BY <1>4 DEF D!StoreSum
    <3>2. progress.joined # NUMTHRDS
      BY <1>0, <3>1, DotAssumption DEF DotTyped, DotPlaces
    <3> QED BY <3>1, <3>2 DEF DotInv, OutputIsSum
  <2> QED BY <2>1, <2>3, <2>9, <2>10 DEF DotInv
<1>5. CASE D!UnlockSum(t)
  <2>1. DotTyped' BY <1>0, <1>5 DEF DotTyped, D!UnlockSum
  <2>2. DotPlaces' BY <1>0, <1>5 DEF DotTyped, DotPlaces, D!UnlockSum, D!Free
  <2>3. UNCHANGED Stored BY <1>0, <1>5 DEF Stored, DotTyped, D!UnlockSum
  <2> QED BY <1>5, <2>1, <2>2, <2>3, DotQuiet DEF D!UnlockSum
<1> QED BY <1>1, <1>2, <1>3, <1>4, <1>5 DEF D!dotprod

LEMMA DotMain ==
  ASSUME DotInv, D!Create \/ D!Join \/ D!PrintSum PROVE DotInv'
<1> USE DotAssumption DEF D!Steps, D!Offsets
<1>0. DotTyped /\ DotPlaces BY DEF DotInv
<1>1. CASE D!Create
  <2>1. DotTyped' BY <1>0, <1>1 DEF DotTyped, D!Create
  <2>2. DotPlaces' BY <1>0, <1>1 DEF DotTyped, DotPlaces, D!Create
  <2>3. UNCHANGED Stored BY <1>0, <1>1 DEF Stored, DotTyped, D!Create
  <2>4. output = D!Nothing BY <1>0, <1>1 DEF DotTyped, DotPlaces, DotInv, OutputIsSum, D!Create
  <2> QED BY <1>1, <2>1, <2>2, <2>3, <2>4, DotQuiet DEF D!Create
<1>2. CASE D!Join
  <2>1. DotTyped' BY <1>0, <1>2 DEF DotTyped, D!Join
  <2>2. DotPlaces' BY <1>0, <1>2 DEF DotTyped, DotPlaces, D!Join
  <2>3. UNCHANGED Stored BY <1>2 DEF Stored, D!Join
  <2>4. output = D!Nothing BY <1>0, <1>2 DEF DotTyped, DotInv, OutputIsSum, D!Join
  <2> QED BY <1>2, <2>1, <2>2, <2>3, <2>4, DotQuiet DEF D!Join
<1>3. CASE D!PrintSum
  <2>1. DotTyped' /\ DotPlaces' /\ UNCHANGED Stored
    BY <1>0, <1>3 DEF DotTyped, DotPlaces, Stored, D!PrintSum
  <2> QED BY <1>3, <2>1, DotQuiet DEF D!PrintSum
<1> QED BY <1>1, <1>2, <1>3

LEMMA DotStep == ASSUME DotInv, [D!Next]_dotv PROVE DotInv'
<1>1. CASE UNCHANGED dotv
  BY <1>1 DEF dotv, DotInv, DotTyped, DotPlaces, SumIsStored, OutputIsSum, Stored
<1> QED BY <1>1, DotThread, DotMain DEF D!Next

LEMMA DotAlways == AnyFairSpec => []DotInv
<1>1. AnyInit => DotInv BY DotInit DEF AnyInit
<1>2. DotInv /\ [AnyNext]_allv => DotInv' BY DotStep, EachProgram
<1> QED BY <1>1, <1>2, PTL DEF AnyFairSpec

(* Whatever number of threads and of indices, the sum that main prints has *)
(* every product once.                                                     *)
THEOREM PrintedSumIsComplete == AnyFairSpec => []PrintedSumComplete
<1>1. ASSUME DotInv, output # D!Nothing PROVE output = D!SumOf(D!Indices)
  <2>1. \A t \in D!Offsets : place[t] = "exited"
    BY <1>1, DotAssumption DEF DotInv, DotPlaces, OutputIsSum, D!Offsets
  <2>2. Stored = D!Offsets BY <2>1 DEF Stored
  <2>3. Slices(D!Offsets) = D!Indices BY SlicesCover DEF Slices
  <2> QED BY <1>1, <2>2, <2>3 DEF DotInv, SumIsStored, OutputIsSum
<1>2. DotInv => PrintedSumComplete BY <1>1 DEF PrintedSumComplete, D!PrintedSumComplete
<1> QED BY <1>2, DotAlways, PTL

-----------------------------------------------------------------------------
(* add_server.c and add_client.c.  A request has a number; the server, when*)
(* it answers, has read one.                                               *)
AskedSteps == {"close_server", "open_reply", "opening", "read"}
ClientSteps == {"input", "open_server", "send", "close", "ended", "killed"} \cup AskedSteps
AddTyped ==
  /\ requests \in Seq(A!Requests) /\ buf \in Seq(A!Requests)
  /\ server \in {"start", "open", "read", "open_reply", "write", "close", "killed"}
  /\ server_writers \subseteq Clients /\ missed \subseteq Clients
  /\ reply \in [Clients -> Seq(SUBSET A!Requests)]
  /\ client \in [Clients -> ClientSteps] /\ line \in [Clients -> 0 .. Lines]
  /\ answers \in [Clients -> Seq(Seq(SUBSET A!Requests))]
Numbered ==
  /\ \A c \in Clients : client[c] \in {"open_server", "send"} \cup AskedSteps => line[c] >= 1
  /\ server \in {"open_reply", "write", "close"} => buf # <<>>
  /\ reply_writer = IF server \in {"write", "close"} THEN A!Asker ELSE "none"
  /\ reply_readers = {c \in Clients : client[c] \in {"opening", "read", "close"}}

LEMMA OnePair ==
  ASSUME NEW n, NEW m, NEW c, NEW d PROVE {<<c, n>>} = {<<d, m>>} => c = d /\ n = m
<1>1. SUFFICES ASSUME {<<c, n>>} = {<<d, m>>} PROVE c = d /\ n = m OBVIOUS
<1>2. <<c, n>> \in {<<d, m>>} BY <1>1
<1> QED BY <1>2

LEMMA BufHead ==
  ASSUME AddTyped, buf # <<>>
  PROVE  /\ Len(buf) \in Nat /\ 1 \in 1 .. Len(buf) /\ buf[1] \in A!Requests /\ A!Asker \in Clients
         /\ buf[1] = <<A!Asker, buf[1][2]>> /\ buf[1][2] \in 1 .. Lines
<1>1. buf \in Seq(A!Requests) BY DEF AddTyped
<1>2. Len(buf) \in Nat /\ Len(buf) # 0 BY <1>1, LenProperties, EmptySeq
<1>3. 1 \in 1 .. Len(buf) BY <1>2
<1>4. buf[1] \in A!Requests BY <1>1, <1>3, ElementOfSeq
<1> QED BY <1>2, <1>3, <1>4 DEF A!Requests, A!Asker

LEMMA AddInit == ASSUME A!Init PROVE AddTyped /\ Numbered
  BY AddAssumption DEF A!Init, AddTyped, Numbered, ClientSteps, AskedSteps

LEMMA AddTypedStep == ASSUME AddTyped, Numbered, [A!Next]_addv PROVE AddTyped'
<1> USE DEF AddTyped, ClientSteps, AskedSteps, A!fifos, A!clients, A!Becomes
<1>1. CASE A!OpenServerFifo BY <1>1 DEF A!OpenServerFifo
<1>2. CASE A!ReadRequests
  <2>1. <<>> \in Seq(A!Requests) OBVIOUS
  <2> QED BY <1>2, <2>1 DEF A!ReadRequests
<1>3. CASE A!ReadNothing
  <2>1. <<>> \in Seq(A!Requests) OBVIOUS
  <2> QED BY <1>3, <2>1 DEF A!ReadNothing
<1>4. CASE A!OpenReply
  <2>1. client' \in [Clients -> ClientSteps] BY <1>4 DEF A!OpenReply
  <2> QED BY <1>4, <2>1 DEF A!OpenReply
<1>5. CASE A!WriteReply
  <2>1. A!Asker \in Clients /\ buf[1] \in A!Requests BY <1>5, BufHead DEF A!WriteReply, Numbered
  <2>2. A!Sum \in SUBSET A!Requests BY <2>1 DEF A!Sum
  <2>3. Append(reply[A!Asker], A!Sum) \in Seq(SUBSET A!Requests) BY <2>1, <2>2, AppendProperties
  <2>4. reply' \in [Clients -> Seq(SUBSET A!Requests)] BY <1>5, <2>3 DEF A!WriteReply
  <2> QED BY <1>5, <2>4 DEF A!WriteReply
<1>6. CASE A!CloseReply
  <2>1. <<>> \in Seq(SUBSET A!Requests) OBVIOUS
  <2>2. reply' \in [Clients -> Seq(SUBSET A!Requests)] BY <1>6, <2>1 DEF A!CloseReply
  <2> QED BY <1>6, <2>2 DEF A!CloseReply
<1>7. ASSUME NEW c \in Clients, A!ReadLine(c) PROVE AddTyped'
  <2>1. client' \in [Clients -> ClientSteps] BY <1>7 DEF A!ReadLine
  <2>2. line' \in [Clients -> 0 .. Lines]
    <3>1. line[c] \in 0 .. Lines BY DEF AddTyped
    <3>2. (IF line[c] < Lines THEN line[c] + 1 ELSE line[c]) \in 0 .. Lines BY <3>1, AddAssumption
    <3>3. line' = [line EXCEPT ![c] = IF line[c] < Lines THEN line[c] + 1 ELSE line[c]]
      BY <1>7 DEF A!ReadLine
    <3> QED BY <3>2, <3>3
  <2> QED BY <1>7, <2>1, <2>2 DEF A!ReadLine
<1>8. ASSUME NEW c \in Clients, A!SendRequest(c) PROVE AddTyped'
  <2>1. client' \in [Clients -> ClientSteps] BY <1>8 DEF A!SendRequest
  <2>2. requests' \in Seq(A!Requests)
    <3>1. CASE server = "killed" BY <1>8, <3>1 DEF A!SendRequest
    <3>2. CASE server # "killed"
      <4>1. line[c] \in 0 .. Lines /\ line[c] >= 1 BY <1>8, <3>2 DEF A!SendRequest, Numbered
      <4>2. <<c, line[c]>> \in A!Requests BY <4>1, AddAssumption DEF A!Requests
      <4>3. PICK r \in A!Requests : r = <<c, line[c]>> BY <4>2
      <4>4. Append(requests, r) \in Seq(A!Requests) BY AppendProperties
      <4> QED BY <1>8, <3>2, <4>3, <4>4 DEF A!SendRequest
    <3> QED BY <3>1, <3>2
  <2> QED BY <1>8, <2>1, <2>2 DEF A!SendRequest
<1>9. ASSUME NEW c \in Clients, A!ReadReply(c) PROVE AddTyped'
  <2>1. client' \in [Clients -> ClientSteps] BY <1>9 DEF A!ReadReply
  <2>2. <<>> \in Seq(SUBSET A!Requests) OBVIOUS
  <2>3. reply' \in [Clients -> Seq(SUBSET A!Requests)] BY <1>9, <2>2 DEF A!ReadReply
  <2>4. Append(answers[c], reply[c]) \in Seq(Seq(SUBSET A!Requests)) BY AppendProperties
  <2>5. answers' \in [Clients -> Seq(Seq(SUBSET A!Requests))] BY <1>9, <2>4 DEF A!ReadReply
  <2> QED BY <1>9, <2>1, <2>3, <2>5 DEF A!ReadReply
<1>10. ASSUME NEW c \in Clients, A!CloseFifo(c) PROVE AddTyped'
  <2>1. client' \in [Clients -> ClientSteps] BY <1>10 DEF A!CloseFifo
  <2>2. <<>> \in Seq(SUBSET A!Requests) OBVIOUS
  <2>3. reply' \in [Clients -> Seq(SUBSET A!Requests)] BY <1>10, <2>2 DEF A!CloseFifo
  <2> QED BY <1>10, <2>1, <2>3 DEF A!CloseFifo
<1>11. ASSUME NEW c \in Clients, A!NoServerFifo(c) \/ A!OpenServer(c) \/ A!CloseServer(c) \/ A!OpenFifo(c)
       PROVE AddTyped'
  <2>1. client' \in [Clients -> ClientSteps]
    BY <1>11 DEF A!NoServerFifo, A!OpenServer, A!CloseServer, A!OpenFifo
  <2>2. server_writers' \subseteq Clients
    BY <1>11 DEF A!NoServerFifo, A!OpenServer, A!CloseServer, A!OpenFifo
  <2>3. server' \in {server, "read"}
    BY <1>11 DEF A!NoServerFifo, A!OpenServer, A!CloseServer, A!OpenFifo
  <2>4. UNCHANGED <<requests, buf, reply, line, answers, missed>>
    BY <1>11 DEF A!NoServerFifo, A!OpenServer, A!CloseServer, A!OpenFifo
  <2> QED BY <2>1, <2>2, <2>3, <2>4
<1>12. CASE UNCHANGED addv BY <1>12 DEF addv
<1> QED
  BY <1>1, <1>2, <1>3, <1>4, <1>5, <1>6, <1>7, <1>8, <1>9, <1>10, <1>11, <1>12
  DEF A!Next, A!Server, A!Client
LEMMA NumberedStep == ASSUME AddTyped, Numbered, [A!Next]_addv PROVE Numbered'
<1> DEFINE Lined == \A c \in Clients : client[c] \in {"open_server", "send"} \cup AskedSteps => line[c] >= 1
           Opened == reply_readers = {c \in Clients : client[c] \in {"opening", "read", "close"}}
           Answering == /\ server \in {"open_reply", "write", "close"} => buf # <<>>
                        /\ reply_writer = IF server \in {"write", "close"} THEN A!Asker ELSE "none"
<1>0. Lined /\ Opened /\ Answering BY DEF Numbered
<1> SUFFICES Lined' /\ Opened' /\ Answering' BY DEF Numbered
<1>1. CASE A!Server
  <2>1. Answering'
    BY <1>0, <1>1 DEF A!Server, A!OpenServerFifo, A!ReadRequests, A!ReadNothing, A!OpenReply, A!WriteReply,
                 A!CloseReply, A!Asker, A!fifos, A!clients
  <2>2. CASE UNCHANGED <<client, line, reply_readers>> BY <1>0, <2>1, <2>2
  <2>3. CASE A!OpenReply
    <3>1. A!Asker \in Clients BY <2>3, BufHead DEF A!OpenReply, Numbered
    <3>2. client[A!Asker] \in {"opening", "read", "close"} BY <1>0, <2>3 DEF A!OpenReply
    <3>3. UNCHANGED <<line, reply_readers>> BY <2>3 DEF A!OpenReply
    <3>4. PICK a \in Clients : a = A!Asker BY <3>1
    <3>5. client' = [client EXCEPT ![a] = IF @ = "opening" THEN "read" ELSE @]
      BY <2>3, <3>4 DEF A!OpenReply
    <3>6. ASSUME NEW c \in Clients
          PROVE  IF c = a /\ client[a] = "opening" THEN client'[c] = "read" ELSE client'[c] = client[c]
      BY <3>5 DEF AddTyped
    <3>7. Lined' BY <1>0, <3>3, <3>6 DEF AskedSteps
    <3>8. Opened' BY <1>0, <3>2, <3>3, <3>4, <3>6
    <3> QED BY <2>1, <3>7, <3>8
  <2> QED
    BY <1>1, <2>2, <2>3 DEF A!Server, A!OpenServerFifo, A!ReadRequests, A!ReadNothing, A!WriteReply,
                 A!CloseReply, A!fifos, A!clients
<1>2. ASSUME NEW c \in Clients, A!Client(c) PROVE Lined' /\ Opened' /\ Answering'
  <2>1. Answering'
    BY <1>0, <1>2 DEF A!Client, A!ReadLine, A!NoServerFifo, A!OpenServer, A!SendRequest, A!CloseServer,
                      A!OpenFifo, A!ReadReply, A!CloseFifo, A!Asker, A!fifos
  <2>2. PICK s \in ClientSteps : client' = [client EXCEPT ![c] = s]
    BY <1>2 DEF A!Client, A!ReadLine, A!NoServerFifo, A!OpenServer, A!SendRequest, A!CloseServer,
                      A!OpenFifo, A!ReadReply, A!CloseFifo, A!Becomes, ClientSteps, AskedSteps
  <2>3. client'[c] = s /\ \A d \in Clients \ {c} : client'[d] = client[d] BY <2>2 DEF AddTyped
  <2>4. Opened'
    <3>1. client[c] \in {"opening", "read", "close"} <=> c \in reply_readers BY <1>0
    <3>2. reply_readers' \ {c} = reply_readers \ {c} /\ reply_readers' \subseteq Clients
      BY <1>0, <1>2 DEF A!Client, A!ReadLine, A!NoServerFifo, A!OpenServer, A!SendRequest, A!CloseServer,
                      A!OpenFifo, A!ReadReply, A!CloseFifo, A!fifos
    <3>3. s \in {"opening", "read", "close"} <=> c \in reply_readers'
      BY <1>2, <2>3, <3>1 DEF AddTyped, A!Client, A!ReadLine, A!NoServerFifo, A!OpenServer, A!SendRequest,
           A!CloseServer, A!OpenFifo, A!ReadReply, A!CloseFifo, A!Becomes, A!fifos
    <3> QED BY <1>0, <2>3, <3>2, <3>3
  <2>5. Lined'
    <3>1. CASE A!ReadLine(c)
      <4>1. line[c] \in Nat /\ line' = [line EXCEPT ![c] = IF line[c] < Lines THEN line[c] + 1 ELSE line[c]]
        BY <3>1 DEF A!ReadLine, AddTyped
      <4>2. client'[c] = IF line[c] < Lines THEN "open_server" ELSE "ended"
        BY <3>1 DEF A!ReadLine, A!Becomes, AddTyped
      <4>3. \A d \in Clients \ {c} : line'[d] = line[d] BY <4>1 DEF AddTyped
      <4>4. line[c] < Lines => line'[c] = line[c] + 1 BY <4>1 DEF AddTyped
      <4> QED BY <1>0, <2>3, <4>1, <4>2, <4>3, <4>4, AddAssumption DEF AskedSteps
    <3>2. CASE ~A!ReadLine(c)
      <4>1. line' = line
        BY <1>2, <3>2 DEF A!Client, A!NoServerFifo, A!OpenServer, A!SendRequest, A!CloseServer,
                      A!OpenFifo, A!ReadReply, A!CloseFifo
      <4>2. s \in {"open_server", "send"} \cup AskedSteps
              => client[c] \in {"open_server", "send"} \cup AskedSteps
        BY <1>2, <2>3, <3>2 DEF AddTyped, A!Client, A!NoServerFifo, A!OpenServer, A!SendRequest, A!CloseServer,
                      A!OpenFifo, A!ReadReply, A!CloseFifo, A!Becomes, AskedSteps
      <4> QED BY <1>0, <2>3, <4>1, <4>2
    <3> QED BY <3>1, <3>2
  <2> QED BY <2>1, <2>4, <2>5
<1>3. CASE UNCHANGED addv BY <1>0, <1>3 DEF addv, A!Asker
<1> QED BY <1>1, <1>2, <1>3 DEF A!Next
-----------------------------------------------------------------------------
(* Where a request can be: in the server's FIFO, with the server that has  *)
(* not answered it, in its client's FIFO, with its client.                 *)
Taken == IF server \in {"open_reply", "write"} THEN buf ELSE <<>>
LastSent(c) == IF client[c] \in {"open_server", "send"} THEN line[c] - 1 ELSE line[c]
InRequests(c, n) == \E k \in 1 .. Len(requests) : requests[k] = <<c, n>>
InTaken(c, n) == \E k \in 1 .. Len(Taken) : Taken[k] = <<c, n>>
InReply(c, n) == \E k \in 1 .. Len(reply[c]) : reply[c][k] = {<<c, n>>}
InAnswers(c, n) ==
  \E j \in 1 .. Len(answers[c]) : \E k \in 1 .. Len(answers[c][j]) : answers[c][j][k] = {<<c, n>>}
OwnSum(c, s, last) == s = {} \/ \E n \in 1 .. last : s = {<<c, n>>} /\ <<c, n>> \notin Wrong
Owned ==
  \A c \in Clients :
    /\ \A k \in 1 .. Len(reply[c]) : OwnSum(c, reply[c][k], LastSent(c))
    /\ \A j \in 1 .. Len(answers[c]) : \A k \in 1 .. Len(answers[c][j]) : OwnSum(c, answers[c][j][k], LastSent(c))
(* On its way every request of a client comes after those sent before it.  *)
OnTheWay(c, m, n) ==
  /\ InRequests(c, n) \/ InTaken(c, n) => n <= LastSent(c)
  /\ InTaken(c, m) /\ InRequests(c, n) => m < n
  /\ InReply(c, m) /\ (InTaken(c, n) \/ InRequests(c, n)) => m < n
  /\ InAnswers(c, m) /\ (InReply(c, n) \/ InTaken(c, n) \/ InRequests(c, n)) => m < n
InReplyOrder(c, m, n) ==
  \A j, k \in 1 .. Len(reply[c]) :
    j < k /\ reply[c][j] = {<<c, m>>} /\ reply[c][k] = {<<c, n>>} => m < n
InAnswerOrder(c, m, n) ==
  \A a, b \in 1 .. Len(answers[c]) : \A j \in 1 .. Len(answers[c][a]), k \in 1 .. Len(answers[c][b]) :
    /\ a < b \/ (a = b /\ j < k)
    /\ answers[c][a][j] = {<<c, m>>} /\ answers[c][b][k] = {<<c, n>>}
    => m < n
Ordered ==
  \A c \in Clients : \A m, n \in 1 .. Lines :
    OnTheWay(c, m, n) /\ InReplyOrder(c, m, n) /\ InAnswerOrder(c, m, n)
AddInv == AddTyped /\ Numbered /\ Owned /\ Ordered

(* A step moves a request one place on, or it loses answers.               *)
LosesAtMost ==
  /\ requests' = requests /\ answers' = answers /\ Taken' \in {Taken, <<>>}
  /\ \A c \in Clients : reply'[c] \in {reply[c], <<>>} /\ LastSent(c)' >= LastSent(c)
TakesRequests ==
  /\ Taken = <<>> /\ Taken' = requests /\ requests' = <<>>
  /\ UNCHANGED <<reply, client, line, answers>>
AnswersOne ==
  /\ Taken = buf /\ Taken' = <<>> /\ buf # <<>>
  /\ reply' = [reply EXCEPT ![A!Asker] = Append(@, A!Sum)]
  /\ UNCHANGED <<requests, client, line, answers>>
SendsOne(c) ==
  /\ client[c] = "send" /\ client' = [client EXCEPT ![c] = "close_server"]
  /\ requests' = Append(requests, <<c, line[c]>>)
  /\ Taken' = Taken /\ UNCHANGED <<reply, line, answers>>
ReadsAll(c) ==
  /\ client[c] = "read" /\ client' = [client EXCEPT ![c] = "close"]
  /\ answers' = [answers EXCEPT ![c] = Append(@, reply[c])]
  /\ reply' = [reply EXCEPT ![c] = <<>>]
  /\ Taken' = Taken /\ UNCHANGED <<requests, line>>

LEMMA AddSteps ==
  ASSUME AddTyped, Numbered, [A!Next]_addv
  PROVE  LosesAtMost \/ TakesRequests \/ AnswersOne \/ \E c \in Clients : SendsOne(c) \/ ReadsAll(c)
<1>0. \A c \in Clients : line[c] \in Int BY DEF AddTyped
<1> USE DEF A!fifos, A!clients
<1>1. ASSUME UNCHANGED <<requests, Taken, answers, client, line>>,
             \A c \in Clients : reply'[c] \in {reply[c], <<>>}
      PROVE  LosesAtMost
  BY <1>0, <1>1 DEF LosesAtMost, LastSent
<1>2. CASE A!OpenServerFifo BY <1>1, <1>2 DEF A!OpenServerFifo, Taken
<1>3. CASE A!ReadRequests BY <1>3 DEF A!ReadRequests, Taken, TakesRequests
<1>4. CASE A!ReadNothing BY <1>1, <1>4 DEF A!ReadNothing, Taken
<1>5. CASE A!OpenReply
  <2>1. UNCHANGED <<requests, Taken, reply, answers, line>> BY <1>5 DEF A!OpenReply, Taken
  <2>2. ASSUME NEW c \in Clients PROVE LastSent(c)' >= LastSent(c)
    <3>1. client'[c] \in {"open_server", "send"} <=> client[c] \in {"open_server", "send"}
      BY <1>5 DEF A!OpenReply, AddTyped
    <3> QED BY <1>0, <2>1, <3>1 DEF LastSent
  <2> QED BY <2>1, <2>2 DEF LosesAtMost
<1>6. CASE A!WriteReply
  <2>1. CASE A!Asker \in reply_readers
    BY <1>6, <2>1 DEF A!WriteReply, Taken, AnswersOne, Numbered
  <2>2. CASE A!Asker \notin reply_readers
    <3>1. Taken' = <<>> /\ UNCHANGED <<requests, answers, reply, client, line>>
      BY <1>6, <2>2 DEF A!WriteReply, Taken
    <3> QED BY <1>0, <3>1 DEF LosesAtMost, LastSent
  <2> QED BY <2>1, <2>2
<1>7. CASE A!CloseReply
  <2>1. \A c \in Clients : reply'[c] \in {reply[c], <<>>} BY <1>7 DEF A!CloseReply, AddTyped
  <2> QED BY <1>1, <1>7, <2>1 DEF A!CloseReply, Taken
<1>8. ASSUME NEW c \in Clients, A!SendRequest(c) PROVE SendsOne(c) \/ LosesAtMost
  <2>1. CASE server # "killed"
    BY <1>8, <2>1 DEF A!SendRequest, A!Becomes, SendsOne, Taken
  <2>2. CASE server = "killed"
    <3>1. Taken' = Taken /\ UNCHANGED <<requests, answers, reply, line>>
      BY <1>8, <2>2 DEF A!SendRequest, Taken
    <3>2. client' = [client EXCEPT ![c] = "killed"] BY <1>8, <2>2 DEF A!SendRequest, A!Becomes
    <3>3. \A d \in Clients : LastSent(d)' >= LastSent(d) BY <1>0, <3>1, <3>2 DEF LastSent, AddTyped
    <3> QED BY <3>1, <3>3 DEF LosesAtMost
  <2> QED BY <2>1, <2>2
<1>9. ASSUME NEW c \in Clients, A!ReadReply(c) PROVE ReadsAll(c)
  BY <1>9 DEF A!ReadReply, A!Becomes, ReadsAll, Taken
<1>10. ASSUME NEW c \in Clients, A!ReadLine(c) PROVE LosesAtMost
  <2>1. Taken' = Taken /\ UNCHANGED <<requests, answers, reply>> BY <1>10 DEF A!ReadLine, Taken
  <2>2. ASSUME NEW d \in Clients PROVE LastSent(d)' >= LastSent(d)
    <3>1. CASE d # c
      <4>1. client'[d] = client[d] /\ line'[d] = line[d]
        BY <1>10, <3>1 DEF A!ReadLine, A!Becomes, AddTyped
      <4> QED BY <1>0, <4>1 DEF LastSent
    <3>2. CASE d = c
      <4>1. client[c] = "input" /\ client'[c] = IF line[c] < Lines THEN "open_server" ELSE "ended"
        BY <1>10 DEF A!ReadLine, A!Becomes, AddTyped
      <4>2. line'[c] = IF line[c] < Lines THEN line[c] + 1 ELSE line[c]
        BY <1>10 DEF A!ReadLine, AddTyped
      <4> QED BY <1>0, <3>2, <4>1, <4>2, AddAssumption DEF LastSent
    <3> QED BY <3>1, <3>2
  <2> QED BY <2>1, <2>2 DEF LosesAtMost
<1>11. ASSUME NEW c \in Clients,
              A!NoServerFifo(c) \/ A!OpenServer(c) \/ A!CloseServer(c) \/ A!OpenFifo(c) \/ A!CloseFifo(c)
       PROVE  LosesAtMost
  <2>1. Taken' = Taken /\ UNCHANGED <<requests, answers, line>>
    BY <1>11 DEF A!NoServerFifo, A!OpenServer, A!CloseServer, A!OpenFifo, A!CloseFifo, Taken
  <2>2. \A d \in Clients : reply'[d] \in {reply[d], <<>>}
    BY <1>11 DEF A!NoServerFifo, A!OpenServer, A!CloseServer, A!OpenFifo, A!CloseFifo, AddTyped
  <2>3. \A d \in Clients : client'[d] \in {"open_server", "send"} => client[d] \in {"open_server", "send"}
    BY <1>11 DEF A!NoServerFifo, A!OpenServer, A!CloseServer, A!OpenFifo, A!CloseFifo, A!Becomes, AddTyped
  <2>4. \A d \in Clients : LastSent(d)' >= LastSent(d) BY <1>0, <2>1, <2>3 DEF LastSent
  <2> QED BY <2>1, <2>2, <2>4 DEF LosesAtMost
<1>12. CASE UNCHANGED addv BY <1>1, <1>12 DEF addv, Taken
<1> QED
  BY <1>2, <1>3, <1>4, <1>5, <1>6, <1>7, <1>8, <1>9, <1>10, <1>11, <1>12
  DEF A!Next, A!Server, A!Client
LEMMA OwnSumKept ==
  ASSUME NEW c, NEW s, NEW last \in Int, NEW more \in Int, more >= last, OwnSum(c, s, last)
  PROVE  OwnSum(c, s, more)
  BY DEF OwnSum

LEMMA SumsAreSent ==
  ASSUME AddTyped, Owned, NEW c \in Clients, NEW n \in 1 .. Lines, InReply(c, n) \/ InAnswers(c, n)
  PROVE  n <= LastSent(c) /\ LastSent(c) \in Int
<1>1. LastSent(c) \in Int BY DEF AddTyped, LastSent
<1>2. OwnSum(c, {<<c, n>>}, LastSent(c)) BY DEF Owned, InReply, InAnswers
<1>3. PICK k \in 1 .. LastSent(c) : {<<c, n>>} = {<<c, k>>} BY <1>2 DEF OwnSum
<1>4. n = k BY <1>3, OnePair
<1> QED BY <1>1, <1>4

LEMMA LosesKeeps ==
  ASSUME AddInv, AddTyped', LosesAtMost PROVE Owned' /\ Ordered'
<1>1. AddTyped /\ Owned /\ Ordered BY DEF AddInv
<1>2. ASSUME NEW c \in Clients
      PROVE  /\ LastSent(c) \in Int /\ LastSent(c)' \in Int /\ LastSent(c)' >= LastSent(c)
             /\ reply'[c] = reply[c] \/ (reply'[c] = <<>> /\ 1 .. Len(reply'[c]) = {})
             /\ answers'[c] = answers[c] /\ requests' = requests
             /\ Taken' = Taken \/ (Taken' = <<>> /\ 1 .. Len(Taken') = {})
  BY <1>1 DEF LosesAtMost, AddTyped, LastSent
<1>3. Owned'
  <2>1. ASSUME NEW c \in Clients, NEW s, OwnSum(c, s, LastSent(c)) PROVE OwnSum(c, s, LastSent(c)')
    BY <1>2, <2>1, OwnSumKept
  <2>2. ASSUME NEW c \in Clients, NEW k \in 1 .. Len(reply'[c])
        PROVE  OwnSum(c, reply'[c][k], LastSent(c)')
    <3>1. OwnSum(c, reply'[c][k], LastSent(c)) BY <1>1, <1>2 DEF Owned
    <3> QED BY <2>1, <3>1
  <2>3. ASSUME NEW c \in Clients, NEW j \in 1 .. Len(answers'[c]), NEW k \in 1 .. Len(answers'[c][j])
        PROVE  OwnSum(c, answers'[c][j][k], LastSent(c)')
    <3>1. OwnSum(c, answers'[c][j][k], LastSent(c)) BY <1>1, <1>2 DEF Owned
    <3> QED BY <2>1, <3>1
  <2> QED BY <2>2, <2>3 DEF Owned
<1>4. ASSUME NEW c \in Clients, NEW m \in 1 .. Lines, NEW n \in 1 .. Lines
      PROVE  OnTheWay(c, m, n)' /\ InReplyOrder(c, m, n)' /\ InAnswerOrder(c, m, n)'
  <2>1. OnTheWay(c, m, n) /\ InReplyOrder(c, m, n) /\ InAnswerOrder(c, m, n) BY <1>1 DEF Ordered
  <2>2. ASSUME NEW k \in 1 .. Lines
        PROVE  /\ InRequests(c, k)' => InRequests(c, k)
               /\ InTaken(c, k)' => InTaken(c, k)
               /\ InReply(c, k)' => InReply(c, k)
               /\ InAnswers(c, k)' => InAnswers(c, k)
    BY <1>2 DEF InRequests, InTaken, InReply, InAnswers
  <2>3. OnTheWay(c, m, n)' BY <1>2, <2>1, <2>2 DEF OnTheWay
  <2>4. InReplyOrder(c, m, n)' BY <1>2, <2>1 DEF InReplyOrder
  <2>5. InAnswerOrder(c, m, n)' BY <1>2, <2>1 DEF InAnswerOrder
  <2> QED BY <2>3, <2>4, <2>5
<1> QED BY <1>3, <1>4 DEF Ordered
LEMMA TakesKeeps ==
  ASSUME AddInv, TakesRequests PROVE Owned' /\ Ordered'
<1>1. AddTyped /\ Owned /\ Ordered BY DEF AddInv
<1>2. /\ Taken' = requests /\ 1 .. Len(requests') = {}
      /\ UNCHANGED <<reply, client, line, answers>>
  BY DEF TakesRequests
<1>3. Owned' BY <1>1, <1>2 DEF Owned, LastSent
<1>4. ASSUME NEW c \in Clients, NEW m \in 1 .. Lines, NEW n \in 1 .. Lines
      PROVE  OnTheWay(c, m, n)' /\ InReplyOrder(c, m, n)' /\ InAnswerOrder(c, m, n)'
  <2>1. OnTheWay(c, m, n) /\ InReplyOrder(c, m, n) /\ InAnswerOrder(c, m, n) BY <1>1, <1>4 DEF Ordered
  <2>2. /\ ~InRequests(c, n)' /\ InTaken(c, n)' = InRequests(c, n)
        /\ InReply(c, m)' = InReply(c, m) /\ InReply(c, n)' = InReply(c, n)
        /\ InAnswers(c, m)' = InAnswers(c, m) /\ LastSent(c)' = LastSent(c)
    BY <1>2 DEF InRequests, InTaken, InReply, InAnswers, LastSent
  <2>3. OnTheWay(c, m, n)' BY <2>1, <2>2 DEF OnTheWay
  <2>4. answers'[c] = answers[c] /\ reply'[c] = reply[c] BY <1>2
  <2>5. InReplyOrder(c, m, n)' BY <2>1, <2>4 DEF InReplyOrder
  <2>6. InAnswerOrder(c, m, n)' BY <2>1, <2>4 DEF InAnswerOrder
  <2> QED BY <2>3, <2>5, <2>6
<1> QED BY <1>3, <1>4 DEF Ordered

LEMMA AnswersKeeps ==
  ASSUME AddInv, AnswersOne PROVE Owned' /\ Ordered'
<1>1. AddTyped /\ Owned /\ Ordered BY DEF AddInv
<1>2. /\ Taken = buf /\ 1 .. Len(Taken') = {} /\ buf # <<>>
      /\ UNCHANGED <<requests, client, line, answers>>
  BY DEF AnswersOne
<1>3. PICK a \in Clients : a = A!Asker BY <1>1, <1>2, BufHead
<1>4. PICK x \in 1 .. Lines : buf[1] = <<a, x>> BY <1>1, <1>2, <1>3, BufHead
<1>5. InTaken(a, x) BY <1>1, <1>2, <1>4, BufHead DEF InTaken
<1>6. A!Sum = {} \/ (A!Sum = {<<a, x>>} /\ <<a, x>> \notin Wrong) BY <1>4 DEF A!Sum
<1>7. /\ reply'[a] = Append(reply[a], A!Sum)
      /\ \A c \in Clients \ {a} : reply'[c] = reply[c]
  BY <1>1, <1>3 DEF AnswersOne, AddTyped
<1>8. PICK l \in Nat : l = Len(reply[a]) BY <1>1, LenProperties DEF AddTyped
<1>9. /\ Len(reply'[a]) = l + 1 /\ reply'[a][l + 1] = A!Sum
      /\ \A k \in 1 .. l : reply'[a][k] = reply[a][k]
  BY <1>1, <1>7, <1>8, AppendProperties DEF AddTyped
<1>10. x <= LastSent(a) /\ LastSent(a) \in Int
  BY <1>1, <1>5 DEF AddTyped, Ordered, OnTheWay, LastSent
<1>11. Owned'
  <2>1. OwnSum(a, A!Sum, LastSent(a)) BY <1>6, <1>10 DEF OwnSum
  <2>2. ASSUME NEW c \in Clients, NEW k \in 1 .. Len(reply'[c]) PROVE OwnSum(c, reply'[c][k], LastSent(c))
    <3>1. CASE c # a BY <1>1, <1>7, <3>1 DEF Owned
    <3>2. CASE c = a
      <4>1. CASE k = l + 1 BY <1>9, <2>1, <3>2, <4>1
      <4>2. CASE k \in 1 .. l BY <1>1, <1>8, <1>9, <3>2, <4>2 DEF Owned
      <4> QED BY <1>8, <1>9, <3>2, <4>1, <4>2
    <3> QED BY <3>1, <3>2
  <2>3. \A c \in Clients : LastSent(c)' = LastSent(c) BY <1>2 DEF LastSent
  <2> QED BY <1>1, <1>2, <2>2, <2>3 DEF Owned
<1>12. ASSUME NEW c \in Clients, NEW m \in 1 .. Lines, NEW n \in 1 .. Lines
      PROVE  OnTheWay(c, m, n)' /\ InReplyOrder(c, m, n)' /\ InAnswerOrder(c, m, n)'
  <2>1. OnTheWay(c, m, n) /\ InReplyOrder(c, m, n) /\ InAnswerOrder(c, m, n) BY <1>1, <1>12 DEF Ordered
  <2>2. /\ ~InTaken(c, n)' /\ ~InTaken(c, m)' /\ InRequests(c, n)' = InRequests(c, n)
        /\ InAnswers(c, m)' = InAnswers(c, m) /\ LastSent(c)' = LastSent(c)
    BY <1>2 DEF InRequests, InTaken, InAnswers, LastSent
  <2>3. ASSUME NEW k \in 1 .. Lines, InReply(c, k)' PROVE InReply(c, k) \/ InTaken(c, k)
    <3>1. PICK j \in 1 .. Len(reply'[c]) : reply'[c][j] = {<<c, k>>} BY <2>3 DEF InReply
    <3>2. CASE c # a BY <1>7, <3>1, <3>2 DEF InReply
    <3>3. CASE c = a /\ j \in 1 .. l BY <1>8, <1>9, <3>1, <3>3 DEF InReply
    <3>4. CASE c = a /\ j = l + 1
      <4>1. {<<a, x>>} = {<<c, k>>} BY <1>6, <1>9, <3>1, <3>4
      <4>2. k = x BY <4>1, OnePair
      <4> QED BY <1>5, <3>4, <4>2
    <3> QED BY <1>8, <1>9, <3>1, <3>2, <3>3, <3>4
  <2>4. OnTheWay(c, m, n)' BY <2>1, <2>2, <2>3 DEF OnTheWay
  <2>5. InReplyOrder(c, m, n)'
    <3>1. CASE c # a BY <1>7, <2>1, <3>1 DEF InReplyOrder
    <3>2. CASE c = a
      <4>1. SUFFICES ASSUME NEW j \in 1 .. l + 1, NEW k \in 1 .. l + 1, j < k,
                            reply'[a][j] = {<<a, m>>}, reply'[a][k] = {<<a, n>>}
                     PROVE  m < n
        BY <1>9, <3>2 DEF InReplyOrder
      <4>2. j \in 1 .. l BY <1>8, <4>1
      <4>3. reply[a][j] = {<<a, m>>} BY <1>9, <4>1, <4>2
      <4>4. CASE k \in 1 .. l BY <1>8, <1>9, <2>1, <3>2, <4>1, <4>2, <4>3, <4>4 DEF InReplyOrder
      <4>5. CASE k = l + 1
        <5>1. {<<a, x>>} = {<<a, n>>} BY <1>6, <1>9, <4>1, <4>5
        <5>2. n = x BY <5>1, OnePair
        <5>3. InReply(a, m) BY <1>8, <4>2, <4>3 DEF InReply
        <5> QED BY <1>5, <2>1, <3>2, <5>2, <5>3 DEF OnTheWay
      <4> QED BY <1>8, <4>1, <4>4, <4>5
    <3> QED BY <3>1, <3>2
  <2>6. answers'[c] = answers[c] BY <1>2
  <2>7. InAnswerOrder(c, m, n)' BY <2>1, <2>6 DEF InAnswerOrder
  <2> QED BY <2>4, <2>5, <2>7
<1> QED BY <1>11, <1>12 DEF Ordered
LEMMA SendsKeeps ==
  ASSUME AddInv, NEW d \in Clients, SendsOne(d) PROVE Owned' /\ Ordered'
<1>1. AddTyped /\ Owned /\ Ordered BY DEF AddInv
<1>2. PICK x \in 1 .. Lines : x = line[d] /\ x \in Nat
  BY <1>1, AddAssumption DEF AddInv, Numbered, AddTyped, SendsOne
<1>3. /\ LastSent(d) = x - 1 /\ LastSent(d)' = x
      /\ \A c \in Clients \ {d} : LastSent(c)' = LastSent(c)
      /\ \A c \in Clients : LastSent(c) \in Int
  BY <1>1, <1>2 DEF SendsOne, LastSent, AddTyped
<1>4. PICK l \in Nat : l = Len(requests) BY <1>1, LenProperties DEF AddTyped
<1>5. /\ Len(requests') = l + 1 /\ requests'[l + 1] = <<d, x>>
      /\ \A k \in 1 .. l : requests'[k] = requests[k]
  BY <1>1, <1>2, <1>4, AppendProperties DEF SendsOne, AddTyped
<1>6. Taken' = Taken /\ UNCHANGED <<reply, line, answers>> BY DEF SendsOne
<1>7. Owned'
  <2>1. ASSUME NEW c \in Clients, NEW s, OwnSum(c, s, LastSent(c)) PROVE OwnSum(c, s, LastSent(c)')
    BY <1>2, <1>3, <2>1, OwnSumKept
  <2>2. ASSUME NEW c \in Clients, NEW k \in 1 .. Len(reply[c])
        PROVE  OwnSum(c, reply[c][k], LastSent(c)')
    BY <1>1, <2>1 DEF Owned
  <2>3. ASSUME NEW c \in Clients, NEW j \in 1 .. Len(answers[c]), NEW k \in 1 .. Len(answers[c][j])
        PROVE  OwnSum(c, answers[c][j][k], LastSent(c)')
    BY <1>1, <2>1 DEF Owned
  <2> QED BY <1>6, <2>2, <2>3 DEF Owned
<1>8. ASSUME NEW c \in Clients, NEW m \in 1 .. Lines, NEW n \in 1 .. Lines
      PROVE  OnTheWay(c, m, n)' /\ InReplyOrder(c, m, n)' /\ InAnswerOrder(c, m, n)'
  <2>1. OnTheWay(c, m, n) /\ InReplyOrder(c, m, n) /\ InAnswerOrder(c, m, n) BY <1>1, <1>8 DEF Ordered
  <2>2. \A k \in 1 .. Lines : /\ InTaken(c, k)' = InTaken(c, k) /\ InReply(c, k)' = InReply(c, k)
                              /\ InAnswers(c, k)' = InAnswers(c, k)
    BY <1>6 DEF InTaken, InReply, InAnswers
  <2>3. InRequests(c, n)' => InRequests(c, n) \/ (c = d /\ n = x)
    <3>1. SUFFICES ASSUME InRequests(c, n)' PROVE InRequests(c, n) \/ (c = d /\ n = x) OBVIOUS
    <3>2. PICK k \in 1 .. l + 1 : requests'[k] = <<c, n>> BY <1>5, <3>1 DEF InRequests
    <3> QED BY <1>4, <1>5, <3>2 DEF InRequests
  <2>4. InTaken(c, m) => m <= LastSent(c) BY <1>1, <1>8 DEF Ordered, OnTheWay
  <2>5. InReply(c, m) \/ InAnswers(c, m) => m <= LastSent(c) BY <1>1, <1>8, SumsAreSent
  <2>6. OnTheWay(c, m, n)' BY <1>2, <1>3, <2>1, <2>2, <2>3, <2>4, <2>5 DEF OnTheWay
  <2>7. answers'[c] = answers[c] /\ reply'[c] = reply[c] BY <1>6
  <2>8. InReplyOrder(c, m, n)' BY <2>1, <2>7 DEF InReplyOrder
  <2>9. InAnswerOrder(c, m, n)' BY <2>1, <2>7 DEF InAnswerOrder
  <2> QED BY <2>6, <2>8, <2>9
<1> QED BY <1>7, <1>8 DEF Ordered

LEMMA ReadsKeeps ==
  ASSUME AddInv, NEW d \in Clients, ReadsAll(d) PROVE Owned' /\ Ordered'
<1>1. AddTyped /\ Owned /\ Ordered BY DEF AddInv
<1>2. Taken' = Taken /\ requests' = requests
      /\ \A c \in Clients : LastSent(c)' = LastSent(c)
  BY <1>1 DEF ReadsAll, LastSent, AddTyped
<1>3. PICK l \in Nat : l = Len(answers[d]) BY <1>1, LenProperties DEF AddTyped
<1>4. /\ Len(answers'[d]) = l + 1 /\ answers'[d][l + 1] = reply[d]
      /\ \A k \in 1 .. l : answers'[d][k] = answers[d][k]
  <2>1. answers'[d] = Append(answers[d], reply[d]) BY <1>1 DEF ReadsAll, AddTyped
  <2> QED BY <1>1, <1>3, <2>1, AppendProperties DEF AddTyped
<1>5. /\ 1 .. Len(reply'[d]) = {}
      /\ \A c \in Clients \ {d} : reply'[c] = reply[c] /\ answers'[c] = answers[c]
  BY <1>1 DEF ReadsAll, AddTyped
<1>6. Owned'
  <2>1. ASSUME NEW c \in Clients, NEW k \in 1 .. Len(reply'[c])
        PROVE  OwnSum(c, reply'[c][k], LastSent(c))
    <3>1. c # d BY <1>5
    <3> QED BY <1>1, <1>5, <3>1 DEF Owned
  <2>2. ASSUME NEW c \in Clients, NEW j \in 1 .. Len(answers'[c]), NEW k \in 1 .. Len(answers'[c][j])
        PROVE  OwnSum(c, answers'[c][j][k], LastSent(c))
    <3>1. CASE c # d BY <1>1, <1>5, <3>1 DEF Owned
    <3>2. CASE c = d /\ j = l + 1 BY <1>1, <1>4, <3>2 DEF Owned
    <3>3. CASE c = d /\ j \in 1 .. l BY <1>1, <1>3, <1>4, <3>3 DEF Owned
    <3> QED BY <1>3, <1>4, <3>1, <3>2, <3>3
  <2> QED BY <1>2, <2>1, <2>2 DEF Owned
<1>7. ASSUME NEW c \in Clients, NEW m \in 1 .. Lines, NEW n \in 1 .. Lines
      PROVE  OnTheWay(c, m, n)' /\ InReplyOrder(c, m, n)' /\ InAnswerOrder(c, m, n)'
  <2>1. OnTheWay(c, m, n) /\ InReplyOrder(c, m, n) /\ InAnswerOrder(c, m, n) BY <1>1, <1>7 DEF Ordered
  <2>2. CASE c # d
    <3>1. answers'[c] = answers[c] /\ reply'[c] = reply[c] BY <1>5, <2>2
    <3>2. InReplyOrder(c, m, n)' BY <2>1, <3>1 DEF InReplyOrder
    <3>3. InAnswerOrder(c, m, n)' BY <2>1, <3>1 DEF InAnswerOrder
    <3>4. OnTheWay(c, m, n)'
      BY <1>2, <2>1, <3>1 DEF OnTheWay, InRequests, InTaken, InReply, InAnswers
    <3> QED BY <3>2, <3>3, <3>4
  <2>3. CASE c = d
    <3>1. ASSUME NEW k \in 1 .. Lines
          PROVE  /\ InTaken(d, k)' = InTaken(d, k) /\ InRequests(d, k)' = InRequests(d, k)
                 /\ ~InReply(d, k)' /\ (InAnswers(d, k)' => InAnswers(d, k) \/ InReply(d, k))
      <4>1. ASSUME InAnswers(d, k)' PROVE InAnswers(d, k) \/ InReply(d, k)
        <5>1. PICK a \in 1 .. l + 1 : \E b \in 1 .. Len(answers'[d][a]) : answers'[d][a][b] = {<<d, k>>}
          BY <1>4, <4>1 DEF InAnswers
        <5>2. CASE a = l + 1 BY <1>4, <5>1, <5>2 DEF InReply
        <5>3. CASE a \in 1 .. l BY <1>3, <1>4, <5>1, <5>3 DEF InAnswers
        <5> QED BY <1>3, <5>2, <5>3
      <4> QED BY <1>2, <1>5, <4>1 DEF InTaken, InRequests, InReply
    <3>2. OnTheWay(d, m, n)' BY <1>2, <2>1, <2>3, <3>1 DEF OnTheWay
    <3>3. InReplyOrder(d, m, n)' BY <1>5 DEF InReplyOrder
    <3>4. InAnswerOrder(d, m, n)'
      <4>1. SUFFICES ASSUME NEW a \in 1 .. l + 1, NEW b \in 1 .. l + 1,
                            NEW j \in 1 .. Len(answers'[d][a]), NEW k \in 1 .. Len(answers'[d][b]),
                            a < b \/ (a = b /\ j < k),
                            answers'[d][a][j] = {<<d, m>>}, answers'[d][b][k] = {<<d, n>>}
                     PROVE  m < n
        BY <1>4 DEF InAnswerOrder
      <4>2. CASE b \in 1 .. l
        <5>1. a \in 1 .. l BY <1>3, <4>1, <4>2
        <5>2. answers'[d][a] = answers[d][a] /\ answers'[d][b] = answers[d][b] BY <1>4, <4>2, <5>1
        <5> QED BY <1>3, <2>1, <2>3, <4>1, <4>2, <5>1, <5>2 DEF InAnswerOrder
      <4>3. CASE b = l + 1
        <5>1. InReply(d, n) BY <1>4, <4>1, <4>3 DEF InReply
        <5>2. CASE a = b BY <1>4, <2>1, <2>3, <4>1, <4>3, <5>2 DEF InReplyOrder
        <5>3. CASE a # b
          <6>1. a \in 1 .. l BY <1>3, <4>3, <5>3
          <6>2. InAnswers(d, m) BY <1>3, <1>4, <4>1, <6>1 DEF InAnswers
          <6> QED BY <2>1, <2>3, <5>1, <6>2 DEF OnTheWay
        <5> QED BY <5>2, <5>3
      <4> QED BY <1>3, <4>2, <4>3
    <3> QED BY <2>3, <3>2, <3>3, <3>4
  <2> QED BY <2>2, <2>3
<1> QED BY <1>6, <1>7 DEF Ordered
LEMMA AddInvStep == ASSUME AddInv, [A!Next]_addv PROVE AddInv'
<1>1. AddTyped' /\ Numbered' BY AddTypedStep, NumberedStep DEF AddInv
<1>2. LosesAtMost \/ TakesRequests \/ AnswersOne \/ \E c \in Clients : SendsOne(c) \/ ReadsAll(c)
  BY AddSteps DEF AddInv
<1> QED BY <1>1, <1>2, LosesKeeps, TakesKeeps, AnswersKeeps, SendsKeeps, ReadsKeeps DEF AddInv

LEMMA AddInvInit == ASSUME A!Init PROVE AddInv
<1>1. AddTyped /\ Numbered BY AddInit
<1>2. \A c \in Clients : 1 .. Len(reply[c]) = {} /\ 1 .. Len(answers[c]) = {} BY DEF A!Init
<1>3. 1 .. Len(requests) = {} /\ 1 .. Len(Taken) = {} BY DEF A!Init, Taken
<1>4. Owned BY <1>2 DEF Owned
<1>5. ASSUME NEW c \in Clients, NEW n \in 1 .. Lines
      PROVE  ~InRequests(c, n) /\ ~InTaken(c, n) /\ ~InReply(c, n) /\ ~InAnswers(c, n)
  BY <1>2, <1>3 DEF InRequests, InTaken, InReply, InAnswers
<1>6. ASSUME NEW c \in Clients, NEW m \in 1 .. Lines, NEW n \in 1 .. Lines
      PROVE  OnTheWay(c, m, n) /\ InReplyOrder(c, m, n) /\ InAnswerOrder(c, m, n)
  BY <1>2, <1>5 DEF OnTheWay, InReplyOrder, InAnswerOrder
<1> QED BY <1>1, <1>4, <1>6 DEF AddInv, Ordered

LEMMA AddAlways == AnyFairSpec => []AddInv
<1>1. AnyInit => AddInv BY AddInvInit DEF AnyInit
<1>2. AddInv /\ [AnyNext]_allv => AddInv'
  <2>1. [AnyNext]_allv => [A!Next]_addv BY EachProgram
  <2> QED BY <2>1, AddInvStep
<1> QED BY <1>1, <1>2, PTL DEF AnyFairSpec

(* What a client prints is the sum of a request of its own, of each once   *)
(* and in order: from the server's FIFO to the client's answers no request *)
(* overtakes one that its client sent before it.                           *)
THEOREM SumsAreTheClients == AnyFairSpec => []SumsOwn
<1>1. ASSUME AddInv PROVE SumsOwn
  <2> USE DEF AddInv
  <2>1. ASSUME NEW c \in Clients PROVE answers[c] \in Seq(Seq(SUBSET A!Requests)) /\ line[c] \in Nat
    BY <1>1 DEF AddTyped
  <2>2. ASSUME NEW c \in Clients, NEW a \in DOMAIN answers[c]
        PROVE  a \in 1 .. Len(answers[c]) /\ DOMAIN answers[c][a] = 1 .. Len(answers[c][a])
    <3>1. a \in 1 .. Len(answers[c]) BY <2>1, LenProperties
    <3>2. answers[c][a] \in Seq(SUBSET A!Requests) BY <2>1, <3>1, ElementOfSeq
    <3> QED BY <3>1, <3>2, LenProperties
  <2>3. ASSUME NEW c \in Clients, NEW a \in DOMAIN answers[c], NEW j \in DOMAIN answers[c][a],
               answers[c][a][j] # {}
        PROVE  \E n \in 1 .. line[c] : answers[c][a][j] = {<<c, n>>} /\ <<c, n>> \notin Wrong
    <3>1. OwnSum(c, answers[c][a][j], LastSent(c)) BY <1>1, <2>2 DEF Owned
    <3>2. LastSent(c) \in Int /\ LastSent(c) <= line[c] BY <2>1 DEF LastSent
    <3>3. PICK n \in 1 .. LastSent(c) : answers[c][a][j] = {<<c, n>>} /\ <<c, n>> \notin Wrong
      BY <2>3, <3>1 DEF OwnSum
    <3>4. n \in 1 .. line[c] BY <2>1, <3>2, <3>3
    <3> QED BY <3>3, <3>4
  <2>4. ASSUME NEW c \in Clients, NEW a \in DOMAIN answers[c], NEW b \in DOMAIN answers[c],
               NEW j \in DOMAIN answers[c][a], NEW k \in DOMAIN answers[c][b],
               NEW m \in 1 .. Lines, NEW n \in 1 .. Lines,
               answers[c][a][j] = {<<c, m>>}, answers[c][b][k] = {<<c, n>>},
               a < b \/ (a = b /\ j < k)
        PROVE  m < n
    <3>1. InAnswerOrder(c, m, n) BY <1>1, <2>4 DEF Ordered
    <3>2. /\ a \in 1 .. Len(answers[c]) /\ b \in 1 .. Len(answers[c])
          /\ j \in 1 .. Len(answers[c][a]) /\ k \in 1 .. Len(answers[c][b])
      BY <2>2, <2>4
    <3> QED BY <2>4, <3>1, <3>2 DEF InAnswerOrder
  <2> QED BY <2>3, <2>4 DEF SumsOwn, A!SumsOwn
<1> QED BY <1>1, AddAlways, PTL
-----------------------------------------------------------------------------
(* As long as no read has missed its answer: a request that is on its way  *)
(* is its client's last, and the client waits for the answer; there is one *)
(* place at most where it has a request, and then no answer is in its FIFO.*)
Owing(c, n) == client[c] \in AskedSteps /\ n = line[c] /\ reply[c] = <<>>
Debts ==
  \A c \in Clients : \A m, n \in 1 .. Lines :
    /\ InRequests(c, n) \/ InTaken(c, n) => Owing(c, n)
    /\ ~(InRequests(c, m) /\ InTaken(c, n))
Answered(c) ==
  /\ client[c] # "killed" /\ reply[c] \in {<<>>, <<{}>>, <<{<<c, line[c]>>}>>}
  /\ reply[c] # <<>> => client[c] = "read"
  /\ client[c] \in {"input", "close"} => Len(answers[c]) = line[c]
  /\ client[c] \in {"open_server", "send"} \cup AskedSteps => Len(answers[c]) = line[c] - 1
  /\ \A k \in 1 .. Len(answers[c]) : answers[c][k] \in {<<{}>>, <<{<<c, k>>}>>}
Synchronous ==
  /\ server # "killed" /\ (server = "write" => client[A!Asker] = "read")
  /\ Debts /\ \A c \in Clients : Answered(c)
SyncInv == missed = {} => Synchronous

(* Nothing is asked or answered, and whoever waits goes on waiting.        *)
LEMMA DebtsKept ==
  ASSUME Debts, UNCHANGED <<requests, line>>, Taken' \in {Taken, <<>>},
         \A c \in Clients : reply'[c] \in {reply[c], <<>>},
         \A c \in Clients : client[c] \in AskedSteps =>
           client'[c] \in AskedSteps \/ \A n \in 1 .. Lines : ~InRequests(c, n)' /\ ~InTaken(c, n)'
  PROVE  Debts'
<1>1. 1 .. Len(<<>>) = {} OBVIOUS
<1>2. ASSUME NEW c \in Clients, NEW n \in 1 .. Lines
      PROVE  /\ InRequests(c, n)' = InRequests(c, n) /\ (InTaken(c, n)' => InTaken(c, n))
             /\ InRequests(c, n)' \/ InTaken(c, n)' => Owing(c, n)'
  <2>1. InRequests(c, n)' = InRequests(c, n) BY DEF InRequests
  <2>2. InTaken(c, n)' => InTaken(c, n) BY <1>1 DEF InTaken
  <2>3. InRequests(c, n) \/ InTaken(c, n) => Owing(c, n) BY DEF Debts
  <2>4. Owing(c, n) /\ (InRequests(c, n)' \/ InTaken(c, n)') => Owing(c, n)' BY DEF Owing
  <2> QED BY <2>1, <2>2, <2>3, <2>4
<1>3. ASSUME NEW c \in Clients, NEW m \in 1 .. Lines, NEW n \in 1 .. Lines
      PROVE  ~(InRequests(c, m)' /\ InTaken(c, n)')
  BY <1>2 DEF Debts
<1> QED BY <1>2, <1>3 DEF Debts

(* The server.                                                             *)
LEMMA SyncServer ==
  ASSUME AddTyped, Numbered, Synchronous, A!Server PROVE Synchronous'
<1> USE DEF A!fifos, A!clients
<1>1. /\ server # "killed" /\ (server = "write" => client[A!Asker] = "read")
      /\ Debts /\ \A c \in Clients : Answered(c)
  BY DEF Synchronous
<1>2. CASE A!OpenServerFifo \/ A!ReadNothing
  <2>1. Debts' BY <1>1, <1>2, DebtsKept DEF A!OpenServerFifo, A!ReadNothing, Taken
  <2>2. \A c \in Clients : Answered(c)' BY <1>1, <1>2 DEF A!OpenServerFifo, A!ReadNothing, Answered
  <2> QED BY <1>2, <2>1, <2>2 DEF A!OpenServerFifo, A!ReadNothing, Synchronous
<1>3. CASE A!ReadRequests
  <2>1. 1 .. Len(requests') = {} /\ Taken' = requests /\ UNCHANGED <<client, line, reply>>
    BY <1>3 DEF A!ReadRequests, Taken
  <2>2. \A c \in Clients, n \in 1 .. Lines :
          ~InRequests(c, n)' /\ InTaken(c, n)' = InRequests(c, n) /\ Owing(c, n)' = Owing(c, n)
    BY <2>1 DEF InRequests, InTaken, Owing
  <2>3. Debts' BY <1>1, <2>2 DEF Debts
  <2>4. \A c \in Clients : Answered(c)' BY <1>1, <1>3 DEF A!ReadRequests, Answered
  <2> QED BY <1>3, <2>3, <2>4 DEF A!ReadRequests, Synchronous
<1>4. CASE A!OpenReply
  <2>1. Taken = buf /\ Taken' = buf /\ buf # <<>> BY <1>4 DEF A!OpenReply, Taken, Numbered
  <2>2. PICK a \in Clients : a = A!Asker BY <2>1, BufHead
  <2>3. InTaken(a, buf[1][2]) /\ buf[1][2] \in 1 .. Lines BY <2>1, <2>2, BufHead DEF InTaken
  <2>4. client[a] \in AskedSteps BY <1>1, <2>2, <2>3 DEF Debts, Owing
  <2>5. client[a] \in {"opening", "read"} BY <1>4, <2>2, <2>4 DEF A!OpenReply, Numbered, AskedSteps
  <2>6. client'[a] = "read" /\ \A c \in Clients \ {a} : client'[c] = client[c]
    BY <1>4, <2>2, <2>5 DEF A!OpenReply, AddTyped
  <2>7. UNCHANGED <<requests, reply, line, answers, buf>> BY <1>4 DEF A!OpenReply
  <2>8. Debts' BY <1>1, <2>1, <2>6, <2>7, DebtsKept DEF AskedSteps
  <2>9. ASSUME NEW c \in Clients PROVE Answered(c)'
    <3>1. Answered(c) BY <1>1
    <3>2. client'[c] = client[c] \/ (client[c] = "opening" /\ client'[c] = "read") BY <2>5, <2>6
    <3>3. answers'[c] = answers[c] /\ reply'[c] = reply[c] /\ line'[c] = line[c] BY <2>7
    <3> QED BY <3>1, <3>2, <3>3 DEF Answered, AskedSteps
  <2>10. A!Asker' = a BY <2>2, <2>7 DEF A!Asker
  <2> QED BY <1>4, <2>6, <2>8, <2>9, <2>10 DEF A!OpenReply, Synchronous
<1>5. CASE A!WriteReply
  <2>1. Taken = buf /\ buf # <<>> BY <1>5 DEF A!WriteReply, Taken, Numbered
  <2>2. PICK a \in Clients : a = A!Asker BY <2>1, BufHead
  <2>3. PICK x \in 1 .. Lines : buf[1] = <<a, x>> BY <2>1, <2>2, BufHead
  <2>4. InTaken(a, x) BY <2>1, <2>3, BufHead DEF InTaken
  <2>5. client[a] = "read" /\ x = line[a] /\ reply[a] = <<>>
    BY <1>1, <1>5, <2>2, <2>3, <2>4 DEF A!WriteReply, Debts, Owing
  <2>6. a \in reply_readers BY <2>5 DEF Numbered
  <2>7. A!Sum \in {{}, {<<a, line[a]>>}} BY <2>3, <2>5 DEF A!Sum
  <2>8. /\ reply'[a] = <<A!Sum>> /\ \A c \in Clients \ {a} : reply'[c] = reply[c]
        /\ server' = "close" /\ 1 .. Len(Taken') = {}
        /\ UNCHANGED <<requests, client, line, answers>>
    BY <1>5, <2>2, <2>5, <2>6 DEF A!WriteReply, Taken, AddTyped
  <2>9. Debts'
    <3>1. ASSUME NEW c \in Clients, NEW n \in 1 .. Lines, InRequests(c, n)' PROVE Owing(c, n)'
      <4>1. InRequests(c, n) BY <2>8, <3>1 DEF InRequests
      <4>2. c # a /\ Owing(c, n) BY <1>1, <2>4, <4>1 DEF Debts
      <4> QED BY <2>8, <4>2 DEF Owing
    <3>2. \A c \in Clients, n \in 1 .. Lines : ~InTaken(c, n)' BY <2>8 DEF InTaken
    <3> QED BY <3>1, <3>2 DEF Debts
  <2>10. ASSUME NEW c \in Clients PROVE Answered(c)'
    <3>1. Answered(c) BY <1>1
    <3>2. client'[c] = client[c] /\ answers'[c] = answers[c] /\ line'[c] = line[c] BY <2>8
    <3>3. CASE c # a BY <2>8, <3>1, <3>2, <3>3 DEF Answered
    <3>4. CASE c = a BY <2>5, <2>7, <2>8, <3>1, <3>2, <3>4 DEF Answered
    <3> QED BY <3>3, <3>4
  <2> QED BY <2>8, <2>9, <2>10 DEF Synchronous
<1>6. CASE A!CloseReply
  <2>1. /\ server' = "read" /\ Taken' = Taken /\ UNCHANGED <<requests, client, line, answers>>
        /\ \A c \in Clients : reply'[c] \in {reply[c], <<>>}
    BY <1>6 DEF A!CloseReply, Taken, AddTyped
  <2>2. Debts' BY <1>1, <2>1, DebtsKept
  <2>3. \A c \in Clients : Answered(c)' BY <1>1, <2>1 DEF Answered
  <2> QED BY <2>1, <2>2, <2>3 DEF Synchronous
<1> QED BY <1>2, <1>3, <1>4, <1>5, <1>6 DEF A!Server
(* A client.                                                               *)
LEMMA SyncClient ==
  ASSUME AddTyped, Numbered, Synchronous, NEW d \in Clients, A!Client(d), missed' = {}
  PROVE  Synchronous'
<1> USE DEF A!fifos, A!clients
<1>1. /\ server # "killed" /\ (server = "write" => client[A!Asker] = "read")
      /\ Debts /\ \A c \in Clients : Answered(c)
  BY DEF Synchronous
<1>2. server = "write" => \E n \in 1 .. Lines : InTaken(A!Asker, n) /\ A!Asker \in Clients
  <2>1. SUFFICES ASSUME server = "write" PROVE \E n \in 1 .. Lines : InTaken(A!Asker, n) /\ A!Asker \in Clients
    OBVIOUS
  <2>2. Taken = buf /\ buf # <<>> BY <2>1 DEF Taken, Numbered
  <2> QED BY <2>2, BufHead DEF InTaken
(* Whoever is asked about does not move while the server answers.          *)
<1>3. ASSUME server' \in {server, "read"}, buf' = buf, client[d] \notin AskedSteps \/ reply[d] # <<>>,
             \A c \in Clients \ {d} : client'[c] = client[c]
      PROVE  server' # "killed" /\ (server' = "write" => client'[A!Asker'] = "read")
  <2>1. A!Asker' = A!Asker BY <1>3 DEF A!Asker
  <2>2. server = "write" => A!Asker \in Clients \ {d} BY <1>1, <1>2, <1>3 DEF Debts, Owing
  <2> QED BY <1>1, <1>3, <2>1, <2>2
<1>4. CASE A!ReadLine(d)
  <2>1. /\ client[d] = "input" /\ server' = server /\ buf' = buf /\ Taken' = Taken
        /\ UNCHANGED <<requests, reply, answers>>
    BY <1>4 DEF A!ReadLine, A!Becomes, Taken
  <2>2. /\ client'[d] = IF line[d] < Lines THEN "open_server" ELSE "ended"
        /\ line'[d] = IF line[d] < Lines THEN line[d] + 1 ELSE line[d]
        /\ \A c \in Clients \ {d} : client'[c] = client[c] /\ line'[c] = line[c]
    BY <1>4 DEF A!ReadLine, A!Becomes, AddTyped
  <2>3. ASSUME NEW c \in Clients, NEW n \in 1 .. Lines
        PROVE  /\ InRequests(c, n)' = InRequests(c, n) /\ InTaken(c, n)' = InTaken(c, n)
               /\ Owing(c, n) => Owing(c, n)'
    BY <2>1, <2>2 DEF InRequests, InTaken, Owing, AskedSteps
  <2>4. Debts' BY <1>1, <2>3 DEF Debts
  <2>5. ASSUME NEW c \in Clients PROVE Answered(c)'
    <3>1. Answered(c) BY <1>1
    <3>2. CASE c # d BY <2>1, <2>2, <3>1, <3>2 DEF Answered
    <3>3. CASE c = d
      <4>1. reply[d] = <<>> BY <2>1, <3>1, <3>3 DEF Answered
      <4>2. line[d] \in Nat /\ Len(answers[d]) = line[d] BY <2>1, <3>1, <3>3 DEF Answered, AddTyped
      <4> QED BY <2>1, <2>2, <3>1, <3>3, <4>1, <4>2, AddAssumption DEF Answered, AskedSteps
    <3> QED BY <3>2, <3>3
  <2> QED BY <1>3, <2>1, <2>2, <2>4, <2>5 DEF Synchronous, AskedSteps
<1>5. CASE A!NoServerFifo(d) \/ A!OpenServer(d)
  <2>1. /\ client[d] = "open_server" /\ client'[d] \in {"ended", "send"}
        /\ \A c \in Clients \ {d} : client'[c] = client[c]
    BY <1>5 DEF A!NoServerFifo, A!OpenServer, A!Becomes, AddTyped
  <2>2. /\ server' \in {server, "read"} /\ buf' = buf /\ Taken' = Taken
        /\ UNCHANGED <<requests, reply, answers, line>>
    BY <1>5 DEF A!NoServerFifo, A!OpenServer, Taken
  <2>3. Debts' BY <1>1, <2>1, <2>2, DebtsKept DEF AskedSteps
  <2>4. ASSUME NEW c \in Clients PROVE Answered(c)'
    <3>1. Answered(c) BY <1>1
    <3> QED BY <2>1, <2>2, <3>1 DEF Answered, AskedSteps
  <2> QED BY <1>3, <2>1, <2>2, <2>3, <2>4 DEF Synchronous, AskedSteps
<1>6. CASE A!SendRequest(d)
  <2>1. PICK x \in 1 .. Lines : x = line[d] /\ x \in Nat
    BY <1>6, AddAssumption DEF A!SendRequest, A!Becomes, Numbered, AddTyped
  <2>2. /\ client[d] = "send" /\ client'[d] = "close_server"
        /\ \A c \in Clients \ {d} : client'[c] = client[c]
    BY <1>1, <1>6 DEF A!SendRequest, A!Becomes, AddTyped
  <2>3. /\ server' = server /\ buf' = buf /\ Taken' = Taken /\ requests' = Append(requests, <<d, x>>)
        /\ UNCHANGED <<reply, answers, line>>
    BY <1>1, <1>6, <2>1 DEF A!SendRequest, Taken
  <2>4. PICK l \in Nat : l = Len(requests) BY LenProperties DEF AddTyped
  <2>5. /\ Len(requests') = l + 1 /\ requests'[l + 1] = <<d, x>>
        /\ \A k \in 1 .. l : requests'[k] = requests[k]
    BY <2>3, <2>4, AppendProperties DEF AddTyped
  <2>6. Answered(d) /\ reply[d] = <<>> BY <1>1, <2>2 DEF Answered
  <2>7. ASSUME NEW c \in Clients, NEW n \in 1 .. Lines
        PROVE  /\ InRequests(c, n)' => InRequests(c, n) \/ (c = d /\ n = x)
               /\ InTaken(c, n)' = InTaken(c, n) /\ (Owing(c, n) => c # d /\ Owing(c, n)')
    <3>1. ASSUME InRequests(c, n)' PROVE InRequests(c, n) \/ (c = d /\ n = x)
      <4>1. PICK k \in 1 .. l + 1 : requests'[k] = <<c, n>> BY <2>5, <3>1 DEF InRequests
      <4> QED BY <2>4, <2>5, <4>1 DEF InRequests
    <3> QED BY <2>2, <2>3, <3>1 DEF InTaken, Owing, AskedSteps
  <2>8. Owing(d, x)' BY <2>1, <2>2, <2>3, <2>6 DEF Owing, AskedSteps
  <2>9. Debts'
    <3>1. ASSUME NEW c \in Clients, NEW n \in 1 .. Lines, InRequests(c, n)' \/ InTaken(c, n)'
          PROVE  Owing(c, n)'
      BY <1>1, <2>7, <2>8, <3>1 DEF Debts
    <3>2. ASSUME NEW c \in Clients, NEW m \in 1 .. Lines, NEW n \in 1 .. Lines
          PROVE  ~(InRequests(c, m)' /\ InTaken(c, n)')
      BY <1>1, <2>7 DEF Debts
    <3> QED BY <3>1, <3>2 DEF Debts
  <2>10. ASSUME NEW c \in Clients PROVE Answered(c)'
    <3>1. Answered(c) BY <1>1
    <3> QED BY <2>2, <2>3, <3>1 DEF Answered, AskedSteps
  <2> QED BY <1>3, <2>2, <2>3, <2>9, <2>10 DEF Synchronous, AskedSteps
<1>7. CASE A!CloseServer(d) \/ A!OpenFifo(d)
  <2>1. /\ client[d] \in {"close_server", "open_reply"} /\ client'[d] \in AskedSteps
        /\ \A c \in Clients \ {d} : client'[c] = client[c]
        /\ client[d] # "read"
    BY <1>7 DEF A!CloseServer, A!OpenFifo, A!Becomes, AddTyped, AskedSteps
  <2>2. server' = server /\ buf' = buf /\ Taken' = Taken /\ UNCHANGED <<requests, reply, answers, line>>
    BY <1>7 DEF A!CloseServer, A!OpenFifo, Taken
  <2>3. Debts' BY <1>1, <2>1, <2>2, DebtsKept
  <2>4. ASSUME NEW c \in Clients PROVE Answered(c)'
    <3>1. Answered(c) BY <1>1
    <3> QED BY <2>1, <2>2, <3>1 DEF Answered, AskedSteps
  <2>5. A!Asker' = A!Asker BY <2>2 DEF A!Asker
  <2>6. server = "write" => A!Asker \in Clients \ {d} BY <1>1, <1>2, <2>1
  <2> QED BY <1>1, <2>1, <2>2, <2>3, <2>4, <2>5, <2>6 DEF Synchronous
<1>8. CASE A!ReadReply(d)
  <2>1. /\ client[d] = "read" /\ client'[d] = "close" /\ reply[d] # <<>>
        /\ \A c \in Clients \ {d} : client'[c] = client[c]
    BY <1>8 DEF A!ReadReply, A!Becomes, AddTyped
  <2>2. server' = server /\ buf' = buf /\ Taken' = Taken /\ UNCHANGED <<requests, line>>
    BY <1>8 DEF A!ReadReply, Taken
  <2>3. /\ answers'[d] = Append(answers[d], reply[d]) /\ reply'[d] = <<>>
        /\ \A c \in Clients \ {d} : answers'[c] = answers[c] /\ reply'[c] = reply[c]
    BY <1>8 DEF A!ReadReply, AddTyped
  <2>4. \A n \in 1 .. Lines : ~InRequests(d, n)' /\ ~InTaken(d, n)'
    BY <1>1, <2>1, <2>2 DEF Debts, Owing, InRequests, InTaken
  <2>5. Debts' BY <1>1, <2>1, <2>2, <2>3, <2>4, DebtsKept
  <2>6. ASSUME NEW c \in Clients PROVE Answered(c)'
    <3>1. Answered(c) BY <1>1
    <3>2. CASE c # d BY <2>1, <2>2, <2>3, <3>1, <3>2 DEF Answered
    <3>3. CASE c = d
      <4>1. PICK x \in Nat : x = line[d] /\ x # 0 BY <2>1 DEF Numbered, AddTyped, AskedSteps
      <4>2. Len(answers[d]) = x - 1 BY <2>1, <3>1, <3>3, <4>1 DEF Answered, AskedSteps
      <4>3. reply[d] \in {<<{}>>, <<{<<d, x>>}>>} BY <2>1, <3>1, <3>3, <4>1 DEF Answered
      <4>4. /\ Len(answers'[d]) = x /\ answers'[d][x] = reply[d]
            /\ \A k \in 1 .. x - 1 : answers'[d][k] = answers[d][k]
        BY <2>3, <4>1, <4>2, AppendProperties DEF AddTyped
      <4>5. ASSUME NEW k \in 1 .. x PROVE answers'[d][k] \in {<<{}>>, <<{<<d, k>>}>>}
        <5>1. CASE k = x BY <4>3, <4>4, <5>1
        <5>2. CASE k # x
          <6>1. k \in 1 .. x - 1 BY <4>1, <5>2
          <6> QED BY <3>1, <3>3, <4>2, <4>4, <6>1 DEF Answered
        <5> QED BY <5>1, <5>2
      <4> QED BY <2>1, <2>2, <2>3, <3>3, <4>1, <4>4, <4>5 DEF Answered, AskedSteps
    <3> QED BY <3>2, <3>3
  <2> QED BY <1>3, <2>1, <2>2, <2>5, <2>6 DEF Synchronous
<1>9. CASE A!CloseFifo(d)
  <2>1. /\ client[d] = "close" /\ client'[d] = "input"
        /\ \A c \in Clients \ {d} : client'[c] = client[c]
    BY <1>9 DEF A!CloseFifo, A!Becomes, AddTyped
  <2>2. /\ server' = server /\ buf' = buf /\ Taken' = Taken /\ UNCHANGED <<requests, line, answers>>
        /\ \A c \in Clients : reply'[c] \in {reply[c], <<>>}
    BY <1>9 DEF A!CloseFifo, Taken, AddTyped
  <2>3. Debts' BY <1>1, <2>1, <2>2, DebtsKept DEF AskedSteps
  <2>4. ASSUME NEW c \in Clients PROVE Answered(c)'
    <3>1. Answered(c) BY <1>1
    <3> QED BY <2>1, <2>2, <3>1 DEF Answered, AskedSteps
  <2> QED BY <1>3, <2>1, <2>2, <2>3, <2>4 DEF Synchronous, AskedSteps
<1> QED BY <1>4, <1>5, <1>6, <1>7, <1>8, <1>9 DEF A!Client
LEMMA SyncStep ==
  ASSUME AddTyped, Numbered, SyncInv, [A!Next]_addv PROVE SyncInv'
<1>1. SUFFICES ASSUME missed' = {} PROVE Synchronous' BY DEF SyncInv
<1>2. missed \subseteq missed'
  BY DEF A!Next, A!Server, A!Client, A!OpenServerFifo, A!ReadRequests, A!ReadNothing, A!OpenReply,
         A!WriteReply, A!CloseReply, A!ReadLine, A!NoServerFifo, A!OpenServer, A!SendRequest,
         A!CloseServer, A!OpenFifo, A!ReadReply, A!CloseFifo, A!clients, A!fifos, addv
<1>3. Synchronous BY <1>1, <1>2 DEF SyncInv
<1>4. CASE UNCHANGED addv
  <2>1. Debts' BY <1>3, <1>4 DEF addv, Synchronous, Debts, Owing, InRequests, InTaken, Taken
  <2>2. \A c \in Clients : Answered(c)' BY <1>3, <1>4 DEF addv, Synchronous, Answered
  <2> QED BY <1>3, <1>4, <2>1, <2>2 DEF addv, Synchronous, A!Asker
<1> QED BY <1>1, <1>3, <1>4, SyncServer, SyncClient DEF A!Next

LEMMA SyncInit == ASSUME A!Init PROVE SyncInv
<1>1. \A c \in Clients : 1 .. Len(answers[c]) = {} /\ Len(answers[c]) = 0 BY DEF A!Init
<1>2. 1 .. Len(requests) = {} /\ 1 .. Len(Taken) = {} BY DEF A!Init, Taken
<1>3. Debts BY <1>2 DEF Debts, InRequests, InTaken
<1>4. \A c \in Clients : Answered(c) BY <1>1 DEF A!Init, Answered, AskedSteps
<1> QED BY <1>3, <1>4 DEF A!Init, SyncInv, Synchronous

(* As long as no read has found its FIFO closed, the server is there and a *)
(* client reads after each request the one answer to it.                   *)
THEOREM AnswersAreInStep == AnyFairSpec => []InStep
<1>1. AnyInit => SyncInv BY SyncInit DEF AnyInit
<1>2. AddInv /\ SyncInv /\ [AnyNext]_allv => SyncInv'
  <2>1. [AnyNext]_allv => [A!Next]_addv BY EachProgram
  <2> QED BY <2>1, SyncStep DEF AddInv
<1>3. ASSUME AddInv, SyncInv PROVE InStep
  <2>1. \A c \in Clients : DOMAIN answers[c] = 1 .. Len(answers[c])
    BY <1>3, LenProperties DEF AddInv, AddTyped
  <2> QED BY <1>3, <2>1 DEF SyncInv, Synchronous, Answered, InStep, A!InStep
<1> QED BY <1>1, <1>2, <1>3, AddAlways, PTL DEF AnyFairSpec

-----------------------------------------------------------------------------
(* apt-cyg.  What a process of the stack may be, whoever else is there.    *)
InstallSteps == {"next", "download", "unpack", "save", "replace", "requires", "scripts"}
RemoveSteps == {"next", "files", "manifest", "entry"}
Processes ==
  [op : {"install", "remove"}, targets : Seq(Packages), nodeps : BOOLEAN, noscripts : BOOLEAN,
   step : InstallSteps \cup RemoveSteps, todo : Seq(Packages), new_db : SUBSET Packages,
   away : BOOLEAN]
Sound(p) ==
  /\ p.step # "next" => p.targets # <<>>
  /\ p.step \in IF p.op = "install" THEN InstallSteps ELSE RemoveSteps
  /\ p.noscripts => p.op = "install" /\ ~p.nodeps /\ p.step # "scripts"
  /\ p.nodeps => p.step \notin {"requires", "scripts"}
Blocked(p) == p.step = "requires" /\ p.todo # <<>>

AptTyped ==
  /\ installed_db \in (SUBSET Packages) \cup {G!Gone}
  /\ manifests \in SUBSET Packages /\ unpacked \in SUBSET Packages
  /\ postinstall \in SUBSET Packages /\ broken \in SUBSET Packages
  /\ stack \in Seq(Processes)
  /\ ended \in [command : Commands \cup {G!NoCommand}, ok : BOOLEAN, closed : BOOLEAN,
                news : BOOLEAN]

(* All processes but the running one wait for what they require; only the  *)
(* first is the user's.                                                    *)
Frames ==
  \A k \in DOMAIN stack :
    /\ Sound(stack[k])
    /\ k < Len(stack) => Blocked(stack[k])
    /\ k = 1 => /\ ~stack[k].noscripts
                /\ stack[k].op = ended.command.op /\ stack[k].nodeps = ended.command.nodeps
    /\ k > 1 => stack[k].noscripts

(* The database as the running process is about to leave it.               *)
Database ==
  IF stack # <<>> /\ stack[Len(stack)].step = "replace" THEN stack[Len(stack)].new_db
  ELSE installed_db

(* A package is in the database from its entry on and not before.          *)
Entered ==
  \A k \in DOMAIN stack : LET p == stack[k] IN
    /\ p.step \in {"requires", "scripts"} => Head(p.targets) \in Database
    /\ p.step \in {"download", "unpack", "save"} => Head(p.targets) \notin installed_db
    /\ p.step = "replace" => installed_db = G!Gone /\ Head(p.targets) \in p.new_db

(* A package is in place before its entry is.                              *)
InPlace ==
  \A k \in DOMAIN stack : LET p == stack[k] IN
    /\ p.step \in {"unpack", "save", "replace"} => Head(p.targets) \in manifests
    /\ p.step \in {"save", "replace"} => Head(p.targets) \in unpacked \cup broken
    /\ p.step = "replace" => p.new_db \ broken \subseteq unpacked \cap manifests

(* With news and without a failure the first process has run the scripts   *)
(* when it turns to its next target.                                       *)
ScriptsDone ==
  stack # <<>> =>
    /\ stack[1].step = "next" /\ ended.ok /\ ended.news /\ ~ended.command.nodeps =>
         postinstall = {}
    /\ stack[1].op = "remove" => ~ended.news

(* An install without a failure owes a closed database only what the       *)
(* processes of the stack still have to do.                                *)
Faultless ==
  ended.ok /\ ended.closed /\ ended.command.op = "install" /\ ~ended.command.nodeps
Owed(p, q) ==
  \E k \in DOMAIN stack :
    stack[k].step = "requires" /\ Head(stack[k].targets) = p /\ q \in G!ToSet(stack[k].todo)
Entering(p) ==
  stack # <<>> /\ stack[Len(stack)].step = "replace" /\ p = Head(stack[Len(stack)].targets)
OwedByStack ==
  Faultless /\ stack # <<>> =>
    /\ Database # G!Gone
    /\ \A p \in Database : \A q \in G!ToSet(Requires[p]) :
         q \in Database \/ Owed(p, q) \/ Entering(p)
    /\ \A q \in G!ToSet(ended.command.targets) :
         q \in Database \/ q \in G!ToSet(stack[1].targets)
    /\ \A k \in 2 .. Len(stack) :
         \/ stack[k].targets = <<Head(stack[k - 1].todo)>>
         \/ stack[k].targets = <<>> /\ Head(stack[k - 1].todo) \in Database

AptInv ==
  /\ AptTyped /\ Frames
  /\ Entered /\ G!NoPackageTwice
  /\ InPlace /\ G!DatabaseTrue
  /\ ScriptsDone /\ G!AllScriptsRun
  /\ OwedByStack /\ G!StaysClosed

(* What the three ways to change the stack do to it: the running process   *)
(* goes on, starts another or ends.                                        *)
Running == stack[Len(stack)]
StackLengths ==
  /\ stack # <<>> /\ stack' # <<>> /\ stack' \in Seq(Processes)
  /\ Len(stack) \in Nat \ {0} /\ Len(stack') \in Nat \ {0}
  /\ DOMAIN stack = 1 .. Len(stack) /\ DOMAIN stack' = 1 .. Len(stack')
GoesOn(c) ==
  /\ StackLengths /\ Len(stack') = Len(stack) /\ c \in Processes
  /\ \A k \in 1 .. Len(stack') : stack'[k] = IF k = Len(stack) THEN c ELSE stack[k]
Starts(c) ==
  /\ StackLengths /\ Len(stack') = Len(stack) + 1 /\ c \in Processes
  /\ \A k \in 1 .. Len(stack') : stack'[k] = IF k = Len(stack') THEN c ELSE stack[k]
Returns ==
  /\ StackLengths /\ Len(stack) = Len(stack') + 1
  /\ \A k \in 1 .. Len(stack') :
       stack'[k] = IF k = Len(stack') THEN [stack[k] EXCEPT !.todo = Tail(@)] ELSE stack[k]

LEMMA RunningIsTop ==
  ASSUME AptTyped, stack # <<>>
  PROVE  /\ Len(stack) \in Nat \ {0} /\ Running \in Processes
         /\ G!Top = Running /\ G!pkg = Head(Running.targets)
         /\ \A k \in 1 .. Len(stack) : stack[k] \in Processes
  BY EmptySeq, LenProperties DEF AptTyped, G!Top, G!Last, G!pkg, Running

LEMMA FirstOnes ==
  ASSUME NEW S, NEW s \in Seq(S), NEW n \in 0 .. Len(s)
  PROVE  /\ SubSeq(s, 1, n) \in Seq(S) /\ Len(SubSeq(s, 1, n)) = n
         /\ \A k \in 1 .. n : SubSeq(s, 1, n)[k] = s[k]
<1>1. n \in Int /\ 1 \in Int /\ n \in Nat BY LenProperties
<1>2. \A k \in 1 .. n : s[k] \in S BY LenProperties
<1>3. /\ SubSeq(s, 1, n) \in Seq(S)
      /\ Len(SubSeq(s, 1, n)) = IF 1 <= n THEN n - 1 + 1 ELSE 0
      /\ \A k \in 1 .. n - 1 + 1 : SubSeq(s, 1, n)[k] = s[1 + k - 1]
  BY ONLY <1>1, <1>2, SubSeqProperties
<1> QED BY ONLY <1>1, <1>3

LEMMA WithGoesOn ==
  ASSUME AptTyped, stack # <<>>, NEW c \in Processes, G!With(c)
  PROVE  GoesOn(c)
<1>1. stack \in Seq(Processes) /\ Len(stack) \in Nat \ {0}
  BY RunningIsTop DEF AptTyped
<1> DEFINE front == SubSeq(stack, 1, Len(stack) - 1)
<1>2. /\ front \in Seq(Processes) /\ Len(front) = Len(stack) - 1
      /\ \A k \in 1 .. Len(stack) - 1 : front[k] = stack[k]
  <2>1. Len(stack) - 1 \in 0 .. Len(stack) BY <1>1
  <2> QED BY ONLY <1>1, <2>1, FirstOnes
<1>3. stack' = Append(front, c) BY DEF G!With, G!Front
<1> HIDE DEF front
<1>4. /\ stack' \in Seq(Processes) /\ Len(stack') = Len(stack) /\ stack'[Len(stack)] = c
      /\ \A k \in 1 .. Len(stack) - 1 : stack'[k] = front[k]
  BY <1>1, <1>2, <1>3, AppendProperties
<1>5. stack' # <<>> BY <1>1, <1>4, EmptySeq
<1>6. DOMAIN stack = 1 .. Len(stack) /\ DOMAIN stack' = 1 .. Len(stack')
  BY <1>1, <1>4, LenProperties
<1> QED BY <1>1, <1>2, <1>4, <1>5, <1>6 DEF GoesOn, StackLengths

LEMMA AppendStarts ==
  ASSUME AptTyped, stack # <<>>, NEW c \in Processes, stack' = Append(stack, c)
  PROVE  Starts(c)
<1>1. stack \in Seq(Processes) /\ Len(stack) \in Nat \ {0}
  BY RunningIsTop DEF AptTyped
<1>2. /\ stack' \in Seq(Processes) /\ stack' # <<>> /\ Len(stack') = Len(stack) + 1
      /\ stack'[Len(stack) + 1] = c /\ \A k \in 1 .. Len(stack) : stack'[k] = stack[k]
  BY ONLY <1>1, c \in Processes, stack' = Append(stack, c), AppendProperties
<1>3. DOMAIN stack = 1 .. Len(stack) /\ DOMAIN stack' = 1 .. Len(stack')
  BY <1>1, <1>2, LenProperties
<1> QED BY <1>1, <1>2, <1>3 DEF Starts, StackLengths

LEMMA EndsReturns ==
  ASSUME AptTyped, Frames, stack # <<>>, G!Ends
  PROVE  IF Len(stack) = 1 THEN stack' = <<>> ELSE Returns
<1>1. stack \in Seq(Processes) /\ Len(stack) \in Nat \ {0}
  BY RunningIsTop DEF AptTyped
<1>2. CASE Len(stack) = 1 BY <1>2 DEF G!Ends
<1>3. CASE Len(stack) # 1
  <2> DEFINE parent == stack[Len(stack) - 1]
             rest == SubSeq(stack, 1, Len(stack) - 2)
             back == [parent EXCEPT !.step = "requires", !.todo = Tail(@)]
  <2>0. Len(stack) - 1 \in 1 .. Len(stack) /\ Len(stack) - 1 < Len(stack) /\ Len(stack) > 1
    <3>1. \A n \in Nat \ {0} : n # 1 => n - 1 \in 1 .. n /\ n - 1 < n /\ n > 1 OBVIOUS
    <3> QED BY ONLY <1>1, <1>3, <3>1
  <2>1. parent \in Processes /\ parent.step = "requires" /\ parent.todo # <<>>
    <3>1. Len(stack) - 1 \in DOMAIN stack BY <1>1, <2>0, LenProperties
    <3>2. Blocked(parent) BY <2>0, <3>1 DEF Frames
    <3>3. parent \in Processes BY <1>1, <2>0
    <3> QED BY <3>2, <3>3 DEF Blocked
  <2>2. Tail(parent.todo) \in Seq(Packages) BY <2>1, HeadTailProperties DEF Processes
  <2>3. back = [parent EXCEPT !.todo = Tail(@)] /\ back \in Processes
    BY <2>1, <2>2 DEF Processes
  <2>4. /\ rest \in Seq(Processes) /\ Len(rest) = Len(stack) - 2
        /\ \A k \in 1 .. Len(stack) - 2 : rest[k] = stack[k]
    <3>0. \A n \in Nat \ {0} : n # 1 => n - 2 \in 0 .. n OBVIOUS
    <3>1. Len(stack) - 2 \in 0 .. Len(stack) BY ONLY <1>1, <1>3, <3>0
    <3> QED BY ONLY <1>1, <3>1, FirstOnes
  <2>5. stack' = rest \o <<back>> BY <1>3 DEF G!Ends
  <2> HIDE DEF rest, back
  <2>6. stack' = Append(rest, back) BY <2>3, <2>4, <2>5, AppendIsConcat
  <2>7. /\ stack' \in Seq(Processes) /\ Len(stack') = Len(stack) - 1
        /\ stack'[Len(stack) - 1] = back
        /\ \A k \in 1 .. Len(stack) - 2 : stack'[k] = rest[k]
    BY <1>1, <1>3, <2>3, <2>4, <2>6, AppendProperties
  <2>8. stack' # <<>> BY <1>1, <1>3, <2>7, EmptySeq
  <2>9. DOMAIN stack = 1 .. Len(stack) /\ DOMAIN stack' = 1 .. Len(stack')
    BY <1>1, <2>7, LenProperties
  <2>10. StackLengths /\ Len(stack) = Len(stack') + 1 BY <1>1, <2>0, <2>7, <2>8, <2>9 DEF StackLengths
  <2>11. ASSUME NEW k \in 1 .. Len(stack')
         PROVE  stack'[k] = IF k = Len(stack') THEN [stack[k] EXCEPT !.todo = Tail(@)] ELSE stack[k]
    <3>1. CASE k = Len(stack') BY <3>1, <2>3, <2>7
    <3>2. CASE k # Len(stack')
      <4>1. k \in 1 .. Len(stack) - 2 BY <1>1, <3>2, <2>7
      <4> QED BY <3>2, <4>1, <2>4, <2>7
    <3> QED BY <3>1, <3>2
  <2> QED BY <1>3, <2>10, <2>11 DEF Returns
<1> QED BY <1>2, <1>3

(* What has to be shown of the process on top when a step is made.         *)
FrameAt(k) ==
  /\ Sound(stack[k])
  /\ k < Len(stack) => Blocked(stack[k])
  /\ k = 1 => /\ ~stack[k].noscripts
              /\ stack[k].op = ended.command.op /\ stack[k].nodeps = ended.command.nodeps
  /\ k > 1 => stack[k].noscripts

LEMMA GoesOnAt ==
  ASSUME NEW c, GoesOn(c)
  PROVE  /\ Len(stack') = Len(stack) /\ Len(stack) \in Nat \ {0} /\ stack # <<>> /\ stack' # <<>>
         /\ DOMAIN stack = 1 .. Len(stack) /\ DOMAIN stack' = 1 .. Len(stack)
         /\ stack'[Len(stack)] = c
         /\ \A k \in 1 .. Len(stack) : k # Len(stack) =>
              stack'[k] = stack[k] /\ k < Len(stack) /\ Len(stack) # 1
<1>1. /\ Len(stack') = Len(stack) /\ Len(stack) \in Nat \ {0} /\ stack # <<>> /\ stack' # <<>>
      /\ DOMAIN stack = 1 .. Len(stack) /\ DOMAIN stack' = 1 .. Len(stack)
  BY DEF GoesOn, StackLengths
<1>2. \A k \in 1 .. Len(stack) : stack'[k] = IF k = Len(stack) THEN c ELSE stack[k]
  BY <1>1 DEF GoesOn
<1>3. \A n \in Nat \ {0} : n \in 1 .. n /\ \A k \in 1 .. n : k # n => k < n /\ n # 1 OBVIOUS
<1> QED BY ONLY <1>1, <1>2, <1>3

LEMMA FramesGoOn ==
  ASSUME Frames, NEW c, GoesOn(c), Sound(c), ended'.command = ended.command,
         c.op = Running.op, c.nodeps = Running.nodeps, c.noscripts = Running.noscripts
  PROVE  Frames'
<1>1. ASSUME NEW k \in 1 .. Len(stack) PROVE FrameAt(k)'
  <2>1. FrameAt(k) BY GoesOnAt DEF Frames, FrameAt
  <2>2. CASE k = Len(stack)
    <3>1. stack'[k] = c /\ Len(stack') = Len(stack) /\ Running = stack[k] /\ ~(k < Len(stack))
      BY <2>2, GoesOnAt DEF Running
    <3> QED BY <2>1, <3>1 DEF FrameAt
  <2>3. CASE k # Len(stack)
    <3>1. stack'[k] = stack[k] /\ Len(stack') = Len(stack) BY <2>3, GoesOnAt
    <3> QED BY <2>1, <3>1 DEF FrameAt
  <2> QED BY <2>2, <2>3
<1> QED BY <1>1, GoesOnAt DEF Frames, FrameAt

LEMMA FramesStart ==
  ASSUME Frames, NEW c, Starts(c), Sound(c), Blocked(Running), c.noscripts, UNCHANGED ended
  PROVE  Frames'
<1>1. Frames <=> \A k \in DOMAIN stack : FrameAt(k) BY DEF Frames, FrameAt
<1>2. ASSUME NEW k \in 1 .. Len(stack') PROVE FrameAt(k)'
  <2>1. CASE k = Len(stack')
    BY <2>1 DEF Starts, StackLengths, FrameAt, Running
  <2>2. CASE k # Len(stack')
    <3>1. k \in DOMAIN stack /\ stack'[k] = stack[k] BY <2>2 DEF Starts, StackLengths
    <3>2. FrameAt(k) /\ (k = Len(stack) => Blocked(stack[k])) BY <1>1, <3>1 DEF Running
    <3> QED BY <2>2, <3>1, <3>2 DEF Starts, StackLengths, FrameAt
  <2> QED BY <2>1, <2>2
<1> QED BY <1>2 DEF Frames, FrameAt, Starts, StackLengths

LEMMA ReturnedFrame ==
  ASSUME AptTyped, Frames, Returns, NEW k \in 1 .. Len(stack')
  PROVE  /\ k \in DOMAIN stack /\ k < Len(stack) /\ stack[k] \in Processes /\ Blocked(stack[k])
         /\ stack'[k].op = stack[k].op /\ stack'[k].nodeps = stack[k].nodeps
         /\ stack'[k].noscripts = stack[k].noscripts /\ stack'[k].step = "requires"
         /\ stack'[k].targets = stack[k].targets
         /\ stack'[k].todo = IF k = Len(stack') THEN Tail(stack[k].todo) ELSE stack[k].todo
<1>1. k \in DOMAIN stack /\ k < Len(stack) BY DEF Returns, StackLengths
<1>2. stack[k] \in Processes BY <1>1 DEF AptTyped
<1>3. Blocked(stack[k]) BY <1>1 DEF Frames
<1>4. stack'[k] = IF k = Len(stack') THEN [stack[k] EXCEPT !.todo = Tail(@)] ELSE stack[k]
  BY DEF Returns
<1> QED BY <1>1, <1>2, <1>3, <1>4 DEF Processes, Blocked

LEMMA FramesReturn ==
  ASSUME AptTyped, Frames, Returns, ended'.command = ended.command
  PROVE  Frames'
<1>1. ASSUME NEW k \in 1 .. Len(stack') PROVE FrameAt(k)'
  <2>1. FrameAt(k) BY ReturnedFrame DEF Frames, FrameAt
  <2>2. k < Len(stack') => Blocked(stack'[k])
    BY ReturnedFrame DEF Returns, StackLengths, Blocked
  <2>3. Sound(stack'[k])
    <3>1. stack'[k].step = stack[k].step BY ReturnedFrame DEF Blocked
    <3> QED BY <2>1, <3>1, ReturnedFrame DEF FrameAt, Sound
  <2> QED BY <2>1, <2>2, <2>3, ReturnedFrame DEF FrameAt
<1> QED BY <1>1 DEF Frames, FrameAt, Returns, StackLengths

-----------------------------------------------------------------------------
EnteredIn(p, db) ==
  /\ p.step \in {"requires", "scripts"} => Head(p.targets) \in db
  /\ p.step \in {"download", "unpack", "save"} => Head(p.targets) \notin db
  /\ p.step = "replace" => db = G!Gone /\ Head(p.targets) \in p.new_db

LEMMA EnteredGoOn ==
  ASSUME Frames, Entered, NEW c, GoesOn(c), Len(stack) = 1 \/ Database \subseteq Database',
         EnteredIn(c, installed_db')
  PROVE  Entered'
<1>1. Database' = IF c.step = "replace" THEN c.new_db ELSE installed_db'
  BY GoesOnAt DEF Database
<1>2. ASSUME NEW k \in 1 .. Len(stack)
      PROVE  LET p == stack'[k] IN
             /\ p.step \in {"requires", "scripts"} => Head(p.targets) \in Database'
             /\ p.step \in {"download", "unpack", "save"} => Head(p.targets) \notin installed_db'
             /\ p.step = "replace" => installed_db' = G!Gone /\ Head(p.targets) \in p.new_db
  <2>1. CASE k = Len(stack)
    <3>1. stack'[k] = c BY <2>1, GoesOnAt
    <3> QED BY <1>1, <3>1 DEF EnteredIn
  <2>2. CASE k # Len(stack)
    <3>1. stack'[k] = stack[k] /\ k \in DOMAIN stack /\ k < Len(stack) /\ Len(stack) # 1
      BY <2>2, GoesOnAt
    <3>2. stack[k].step = "requires" /\ Head(stack[k].targets) \in Database
      BY <3>1 DEF Frames, Blocked, Entered
    <3> QED BY <3>1, <3>2
  <2> QED BY <2>1, <2>2
<1> QED BY <1>2, GoesOnAt DEF Entered

LEMMA EnteredStart ==
  ASSUME Frames, Entered, NEW c, Starts(c), c.step = "next", Blocked(Running),
         UNCHANGED installed_db
  PROVE  Entered'
<1>1. Database' = installed_db /\ Database = installed_db
  BY DEF Starts, StackLengths, Database, Running, Blocked
<1>2. ASSUME NEW k \in 1 .. Len(stack'), k # Len(stack')
      PROVE  k \in DOMAIN stack /\ stack'[k] = stack[k]
  BY <1>2 DEF Starts, StackLengths
<1>3. stack'[Len(stack')] = c BY DEF Starts, StackLengths
<1> QED BY <1>1, <1>2, <1>3 DEF Entered, Starts, StackLengths

LEMMA EnteredReturn ==
  ASSUME AptTyped, Frames, Entered, Returns, Running.step # "replace", UNCHANGED installed_db
  PROVE  Entered'
<1>1. Database = installed_db BY DEF Database, Running
<1>2. stack'[Len(stack')].step = "requires" BY ReturnedFrame DEF Returns, StackLengths
<1>3. Database' = installed_db BY <1>2 DEF Database
<1>4. \A k \in 1 .. Len(stack') :
        stack'[k].step = "requires" /\ Head(stack'[k].targets) \in installed_db
  BY <1>1, ReturnedFrame DEF Entered, Blocked
<1> QED BY <1>3, <1>4 DEF Entered, Returns, StackLengths
-----------------------------------------------------------------------------
LEMMA TwiceGoOn ==
  ASSUME Frames, Entered, G!NoPackageTwice, NEW c, GoesOn(c),
         Len(stack) = 1 \/ c.step = "next" \/
           /\ Head(c.targets) = Head(Running.targets)
           /\ Running.step # "next" \/ Head(Running.targets) \notin installed_db
  PROVE  G!NoPackageTwice'
<1>1. ASSUME NEW k \in 1 .. Len(stack), k # Len(stack), c.step # "next"
      PROVE  Head(stack[k].targets) # Head(c.targets)
  <2>1. k \in DOMAIN stack /\ Len(stack) \in DOMAIN stack /\ k < Len(stack) /\ Len(stack) # 1
    BY <1>1, GoesOnAt
  <2>2. stack[k].step = "requires" /\ Head(stack[k].targets) \in Database
    BY <2>1 DEF Frames, Blocked, Entered
  <2>3. CASE Running.step = "next"
    <3>1. Database = installed_db BY <2>3 DEF Database, Running
    <3> QED BY <1>1, <2>1, <2>2, <2>3, <3>1
  <2>4. CASE Running.step # "next"
    BY <1>1, <2>1, <2>2, <2>4 DEF G!NoPackageTwice, Running
  <2> QED BY <2>3, <2>4
<1>2. ASSUME NEW j \in 1 .. Len(stack), NEW k \in 1 .. Len(stack), j # k,
             stack'[j].step # "next", stack'[k].step # "next"
      PROVE  Head(stack'[j].targets) # Head(stack'[k].targets)
  <2>1. CASE j = Len(stack) BY <1>1, <1>2, <2>1, GoesOnAt
  <2>2. CASE k = Len(stack) BY <1>1, <1>2, <2>2, GoesOnAt
  <2>3. CASE j # Len(stack) /\ k # Len(stack)
    BY <1>2, <2>3, GoesOnAt DEF G!NoPackageTwice
  <2> QED BY <2>1, <2>2, <2>3
<1> QED BY <1>2, GoesOnAt DEF G!NoPackageTwice

LEMMA TwiceStart ==
  ASSUME G!NoPackageTwice, NEW c, Starts(c), c.step = "next"
  PROVE  G!NoPackageTwice'
<1>1. ASSUME NEW k \in 1 .. Len(stack'), stack'[k].step # "next"
      PROVE  k \in DOMAIN stack /\ stack'[k] = stack[k]
  BY <1>1 DEF Starts, StackLengths
<1> QED BY <1>1 DEF G!NoPackageTwice, Starts, StackLengths

LEMMA TwiceReturn ==
  ASSUME AptTyped, Frames, G!NoPackageTwice, Returns
  PROVE  G!NoPackageTwice'
<1>1. \A k \in 1 .. Len(stack') : /\ k \in DOMAIN stack /\ stack[k].step # "next"
                                  /\ stack'[k].targets = stack[k].targets
  BY ReturnedFrame DEF Blocked
<1> QED BY <1>1 DEF G!NoPackageTwice, Returns, StackLengths

-----------------------------------------------------------------------------
PlacedIn(p, lsts, placed, bad) ==
  /\ p.step \in {"unpack", "save", "replace"} => Head(p.targets) \in lsts
  /\ p.step \in {"save", "replace"} => Head(p.targets) \in placed \cup bad
  /\ p.step = "replace" => p.new_db \ bad \subseteq placed \cap lsts

LEMMA InPlaceGoOn ==
  ASSUME Frames, NEW c, GoesOn(c), PlacedIn(c, manifests', unpacked', broken')
  PROVE  InPlace'
<1>1. \A k \in 1 .. Len(stack) : k # Len(stack) => stack'[k].step = "requires"
  BY GoesOnAt DEF Frames, Blocked
<1> QED BY <1>1, GoesOnAt DEF InPlace, PlacedIn

LEMMA InPlaceStart ==
  ASSUME Frames, NEW c, Starts(c), c.step = "next", Blocked(Running)
  PROVE  InPlace'
<1>1. ASSUME NEW k \in 1 .. Len(stack') PROVE stack'[k].step \in {"next", "requires"}
  <2>1. CASE k = Len(stack') BY <2>1 DEF Starts
  <2>2. CASE k # Len(stack')
    <3>1. k \in DOMAIN stack /\ stack'[k] = stack[k] BY <2>2 DEF Starts, StackLengths
    <3> QED BY <3>1 DEF Frames, Blocked, Running, Starts, StackLengths
  <2> QED BY <2>1, <2>2
<1> QED BY <1>1 DEF InPlace, Starts, StackLengths

LEMMA InPlaceReturn ==
  ASSUME AptTyped, Frames, Returns PROVE InPlace'
<1>1. \A k \in 1 .. Len(stack') : stack'[k].step = "requires" BY ReturnedFrame
<1> QED BY <1>1 DEF InPlace, Returns, StackLengths

(* The database stays true as long as nothing in it is taken away.         *)
LEMMA TrueKept ==
  ASSUME AptTyped, G!DatabaseTrue, UNCHANGED installed_db, unpacked \subseteq unpacked',
         manifests \subseteq manifests', broken \subseteq broken',
         stack = <<>> \/ Running.op = "install" \/ Running.step = "next"
  PROVE  G!DatabaseTrue'
<1>1. ~(stack # <<>> /\ G!Top.op = "remove" /\ G!Top.step # "next")
  BY RunningIsTop
<1> QED BY <1>1 DEF G!DatabaseTrue

-----------------------------------------------------------------------------
LEMMA ScriptsGoOn ==
  ASSUME Frames, ScriptsDone, NEW c, GoesOn(c), c.op = Running.op,
         ended'.command = ended.command,
         ended'.ok => ended.ok, Running.op = "remove" => ended'.news = ended.news,
         c.step = "next" /\ Len(stack) = 1 /\ ~ended.command.nodeps =>
           \/ postinstall' = {} \/ Running.op = "remove"
           \/ Running.step = "next" /\ ended'.news = ended.news /\ postinstall' = postinstall
  PROVE  ScriptsDone' /\ G!AllScriptsRun'
<1>1. 1 \in DOMAIN stack /\ stack[1].op = ended.command.op BY GoesOnAt DEF Frames
<1>2. CASE Len(stack) = 1
  <2>1. stack'[1] = c /\ Running = stack[1] BY <1>2, GoesOnAt DEF Running
  <2> QED BY <1>1, <1>2, <2>1, GoesOnAt DEF ScriptsDone, G!AllScriptsRun
<1>3. CASE Len(stack) # 1
  <2>1. 1 # Len(stack) /\ 1 \in 1 .. Len(stack) BY <1>3, GoesOnAt
  <2>2. stack'[1] = stack[1] /\ Blocked(stack[1]) /\ Sound(stack[1])
    BY <2>1, GoesOnAt DEF Frames
  <2>3. stack[1].step = "requires" /\ stack[1].op = "install"
    BY <1>1, <2>2 DEF Blocked, Sound, RemoveSteps
  <2> QED BY <1>1, <2>2, <2>3, GoesOnAt DEF ScriptsDone, G!AllScriptsRun
<1> QED BY <1>2, <1>3
-----------------------------------------------------------------------------
OwedBy(p, q, r) ==
  p.step = "requires" /\ Head(p.targets) = q /\ r \in G!ToSet(p.todo)

(* What is done by the process that goes on is as much as it owed.         *)
Pays(c) ==
  /\ Database # G!Gone => Database' # G!Gone
  /\ Database \subseteq Database'
  /\ \A p \in Database' : p \in Database \/ (c.step = "replace" /\ p = Head(c.targets))
  /\ Running.step = "replace" =>
       \A q \in G!ToSet(Requires[Head(Running.targets)]) :
         q \in Database' \/ OwedBy(c, Head(Running.targets), q)
  /\ \A p, q : OwedBy(Running, p, q) => q \in Database' \/ OwedBy(c, p, q)
  /\ \/ c.targets = Running.targets
     \/ /\ Running.targets # <<>> /\ c.targets = Tail(Running.targets)
        /\ Head(Running.targets) \in Database'

LEMMA HeadOrTail ==
  ASSUME NEW S, NEW s \in Seq(S), s # <<>>, NEW q \in G!ToSet(s)
  PROVE  q = Head(s) \/ q \in G!ToSet(Tail(s))
<1>1. PICK k \in DOMAIN s : q = s[k] BY DEF G!ToSet
<1>2. Len(s) \in Nat \ {0} /\ DOMAIN s = 1 .. Len(s) BY LenProperties, EmptySeq
<1>3. CASE k = 1 BY <1>1, <1>3, HeadTailProperties
<1>4. CASE k # 1
  <2>1. Tail(s) \in Seq(S) /\ Len(Tail(s)) = Len(s) - 1
        /\ \A n \in 1 .. Len(s) - 1 : Tail(s)[n] = s[n + 1]
    BY HeadTailProperties
  <2>2. DOMAIN Tail(s) = 1 .. Len(s) - 1 BY <2>1, LenProperties
  <2>3. k - 1 \in 1 .. Len(s) - 1 /\ k - 1 + 1 = k BY <1>2, <1>4
  <2>4. Tail(s)[k - 1] = q BY <1>1, <2>1, <2>3
  <2> QED BY <2>2, <2>3, <2>4 DEF G!ToSet
<1> QED BY <1>3, <1>4

LEMMA OwedGoOn ==
  ASSUME AptTyped, Frames, OwedByStack, NEW c, GoesOn(c), ended'.command = ended.command,
         Faultless' => Faultless /\ Pays(c)
  PROVE  OwedByStack' /\ G!StaysClosed'
<1>1. G!StaysClosed' BY GoesOnAt DEF G!StaysClosed
<1>2. SUFFICES ASSUME Faultless' PROVE OwedByStack' BY <1>1 DEF OwedByStack
<1>3. Faultless /\ Pays(c) BY <1>2
<1>4. /\ Database # G!Gone
      /\ \A p \in Database : \A q \in G!ToSet(Requires[p]) :
           q \in Database \/ Owed(p, q) \/ Entering(p)
      /\ \A q \in G!ToSet(ended.command.targets) :
           q \in Database \/ q \in G!ToSet(stack[1].targets)
      /\ \A k \in 2 .. Len(stack) :
           \/ stack[k].targets = <<Head(stack[k - 1].todo)>>
           \/ stack[k].targets = <<>> /\ Head(stack[k - 1].todo) \in Database
  BY <1>3, GoesOnAt DEF OwedByStack
<1>5. Running \in Processes /\ Running = stack[Len(stack)] /\ Running.targets \in Seq(Packages)
  BY RunningIsTop, GoesOnAt DEF Running, Processes
<1>6. ASSUME NEW p \in Database', NEW q \in G!ToSet(Requires[p])
      PROVE  q \in Database' \/ Owed(p, q)' \/ Entering(p)'
  <2>1. ASSUME OwedBy(c, p, q) PROVE Owed(p, q)'
    BY <2>1, GoesOnAt DEF OwedBy, Owed
  <2>2. CASE c.step = "replace" /\ p = Head(c.targets) BY <2>2, GoesOnAt DEF Entering
  <2>3. CASE p \in Database /\ q \in Database BY <1>3, <2>3 DEF Pays
  <2>4. CASE p \in Database /\ Entering(p) BY <1>3, <2>1, <2>4 DEF Pays, Entering, Running
  <2>5. CASE p \in Database /\ Owed(p, q)
    <3>1. PICK k \in 1 .. Len(stack) : OwedBy(stack[k], p, q)
      BY <2>5, GoesOnAt DEF Owed, OwedBy
    <3>2. CASE k = Len(stack) BY <1>3, <2>1, <3>1, <3>2 DEF Pays, Running
    <3>3. CASE k # Len(stack)
      <4>1. stack'[k] = stack[k] /\ k \in DOMAIN stack' BY <3>3, GoesOnAt
      <4> QED BY <3>1, <4>1 DEF Owed, OwedBy
    <3> QED BY <3>2, <3>3
  <2>6. p \in Database \/ (c.step = "replace" /\ p = Head(c.targets)) BY <1>3 DEF Pays
  <2> QED BY <1>4, <2>2, <2>3, <2>4, <2>5, <2>6
<1>7. ASSUME NEW q \in G!ToSet(ended.command.targets)
      PROVE  q \in Database' \/ q \in G!ToSet(stack'[1].targets)
  <2>1. CASE q \in Database BY <1>3, <2>1 DEF Pays
  <2>2. CASE q \in G!ToSet(stack[1].targets)
    <3>1. CASE Len(stack) = 1
      <4>1. stack'[1] = c /\ stack[1] = Running BY <1>5, <3>1, GoesOnAt
      <4>2. CASE c.targets = Running.targets BY <2>2, <4>1, <4>2
      <4>3. CASE c.targets # Running.targets
        <5>1. Running.targets # <<>> /\ c.targets = Tail(Running.targets)
              /\ Head(Running.targets) \in Database'
          BY <1>3, <4>3 DEF Pays
        <5> QED BY <1>5, <2>2, <4>1, <5>1, HeadOrTail
      <4> QED BY <4>2, <4>3
    <3>2. CASE Len(stack) # 1
      <4>1. 1 \in 1 .. Len(stack) /\ 1 # Len(stack) BY <3>2, GoesOnAt
      <4>2. stack'[1] = stack[1] BY <4>1, GoesOnAt
      <4> QED BY <2>2, <4>2
    <3> QED BY <3>1, <3>2
  <2> QED BY <1>4, <2>1, <2>2
<1>8. ASSUME NEW k \in 2 .. Len(stack)
      PROVE  \/ stack'[k].targets = <<Head(stack'[k - 1].todo)>>
             \/ stack'[k].targets = <<>> /\ Head(stack'[k - 1].todo) \in Database'
  <2>1. k \in 1 .. Len(stack) /\ k - 1 \in 1 .. Len(stack) /\ k - 1 # Len(stack)
    <3>1. Len(stack) \in Nat \ {0} BY GoesOnAt
    <3>2. \A n \in Nat \ {0} : \A m \in 2 .. n : m \in 1 .. n /\ m - 1 \in 1 .. n /\ m - 1 # n
      OBVIOUS
    <3> QED BY ONLY <3>1, <3>2, k \in 2 .. Len(stack)
  <2>2. stack'[k - 1] = stack[k - 1] BY <2>1, GoesOnAt
  <2>3. \/ stack[k].targets = <<Head(stack[k - 1].todo)>>
        \/ stack[k].targets = <<>> /\ Head(stack[k - 1].todo) \in Database
    BY <1>4
  <2>4. Database \subseteq Database' BY <1>3 DEF Pays
  <2>5. CASE stack'[k].targets = stack[k].targets BY <2>2, <2>3, <2>4, <2>5
  <2>6. CASE stack'[k].targets # stack[k].targets
    <3>1. k = Len(stack) BY <2>1, <2>6, GoesOnAt
    <3>2. stack'[k] = c /\ stack[k] = Running BY <1>5, <3>1, GoesOnAt
    <3>3. Running.targets # <<>> /\ c.targets = Tail(Running.targets)
          /\ Head(Running.targets) \in Database'
      BY <1>3, <2>6, <3>2 DEF Pays
    <3>4. Running.targets = <<Head(stack[k - 1].todo)>> BY <2>3, <3>2, <3>3
    <3>5. \A x : Tail(<<x>>) = <<>> /\ Head(<<x>>) = x OBVIOUS
    <3> QED BY <2>2, <3>2, <3>3, <3>4, <3>5
  <2> QED BY <2>5, <2>6
<1>9. Database' # G!Gone BY <1>3, <1>4 DEF Pays
<1> QED BY <1>6, <1>7, <1>8, <1>9, GoesOnAt DEF OwedByStack

LEMMA OwedStart ==
  ASSUME AptTyped, Frames, OwedByStack, NEW c, Starts(c), c.step = "next", Blocked(Running),
         c.targets = <<Head(Running.todo)>>, UNCHANGED <<installed_db, ended>>
  PROVE  OwedByStack' /\ G!StaysClosed'
<1>1. G!StaysClosed' BY DEF G!StaysClosed, Starts, StackLengths
<1>2. SUFFICES ASSUME Faultless PROVE OwedByStack' BY <1>1 DEF OwedByStack, Faultless
<1>3. Database' = installed_db /\ Database = installed_db
  BY DEF Starts, StackLengths, Database, Running, Blocked
<1>4. /\ installed_db # G!Gone
      /\ \A p \in installed_db : \A q \in G!ToSet(Requires[p]) : q \in installed_db \/ Owed(p, q)
      /\ \A q \in G!ToSet(ended.command.targets) :
           q \in installed_db \/ q \in G!ToSet(stack[1].targets)
      /\ \A k \in 2 .. Len(stack) :
           \/ stack[k].targets = <<Head(stack[k - 1].todo)>>
           \/ stack[k].targets = <<>> /\ Head(stack[k - 1].todo) \in installed_db
  BY <1>2, <1>3 DEF OwedByStack, Entering, Starts, StackLengths, Running, Blocked
<1>5. /\ Len(stack) \in Nat \ {0} /\ Len(stack') = Len(stack) + 1 /\ stack'[Len(stack) + 1] = c
      /\ \A k \in 1 .. Len(stack) : stack'[k] = stack[k] /\ k \in DOMAIN stack'
      /\ DOMAIN stack = 1 .. Len(stack)
  BY DEF Starts, StackLengths
<1>6. ASSUME NEW p, NEW q, Owed(p, q) PROVE Owed(p, q)' BY <1>5, <1>6 DEF Owed
<1>7. stack'[1] = stack[1] BY <1>5
<1>8. ASSUME NEW k \in 2 .. Len(stack')
      PROVE  \/ stack'[k].targets = <<Head(stack'[k - 1].todo)>>
             \/ stack'[k].targets = <<>> /\ Head(stack'[k - 1].todo) \in installed_db
  <2>1. k - 1 \in 1 .. Len(stack) /\ (k = Len(stack) + 1 => k - 1 = Len(stack))
        /\ (k # Len(stack) + 1 => k \in 2 .. Len(stack) /\ k \in 1 .. Len(stack))
    <3>1. \A n \in Nat \ {0} : \A m \in 2 .. n + 1 :
            /\ m - 1 \in 1 .. n /\ (m = n + 1 => m - 1 = n)
            /\ m # n + 1 => m \in 2 .. n /\ m \in 1 .. n
      OBVIOUS
    <3>2. k \in 2 .. Len(stack) + 1 BY <1>5
    <3> QED BY ONLY <1>5, <3>1, <3>2
  <2>2. CASE k = Len(stack) + 1 BY <1>5, <2>1, <2>2 DEF Running
  <2>3. CASE k # Len(stack) + 1
    <3>1. stack'[k] = stack[k] /\ stack'[k - 1] = stack[k - 1] BY <1>5, <2>1, <2>3
    <3> QED BY <1>4, <2>1, <2>3, <3>1
  <2> QED BY <2>2, <2>3
<1> QED BY <1>3, <1>4, <1>6, <1>7, <1>8 DEF OwedByStack

LEMMA OwedReturn ==
  ASSUME AptTyped, Frames, OwedByStack, Returns, Running.step = "next",
         Running.targets = <<>>, UNCHANGED <<installed_db, ended>>
  PROVE  OwedByStack' /\ G!StaysClosed'
<1>1. G!StaysClosed' BY DEF G!StaysClosed, Returns, StackLengths
<1>2. SUFFICES ASSUME Faultless PROVE OwedByStack' BY <1>1 DEF OwedByStack, Faultless
<1>3. Database' = installed_db /\ Database = installed_db
  BY ReturnedFrame DEF Returns, StackLengths, Database, Running
<1>4. /\ installed_db # G!Gone
      /\ \A p \in installed_db : \A q \in G!ToSet(Requires[p]) : q \in installed_db \/ Owed(p, q)
      /\ \A q \in G!ToSet(ended.command.targets) :
           q \in installed_db \/ q \in G!ToSet(stack[1].targets)
      /\ \A k \in 2 .. Len(stack) :
           \/ stack[k].targets = <<Head(stack[k - 1].todo)>>
           \/ stack[k].targets = <<>> /\ Head(stack[k - 1].todo) \in installed_db
  BY <1>2, <1>3 DEF OwedByStack, Entering, Returns, StackLengths, Running
<1>5. Len(stack') \in Nat \ {0} /\ Len(stack) = Len(stack') + 1
      /\ DOMAIN stack' = 1 .. Len(stack') /\ DOMAIN stack = 1 .. Len(stack)
  BY DEF Returns, StackLengths
<1>6. Head(stack[Len(stack')].todo) \in installed_db
  <2>1. Len(stack) \in 2 .. Len(stack) /\ Len(stack) - 1 = Len(stack') BY <1>5
  <2>2. \A x : <<x>> # <<>> OBVIOUS
  <2> QED BY <1>4, <2>1, <2>2 DEF Running
<1>7. ASSUME NEW p, NEW q, Owed(p, q), q \notin installed_db PROVE Owed(p, q)'
  <2>1. PICK k \in 1 .. Len(stack) : stack[k].step = "requires"
           /\ Head(stack[k].targets) = p /\ q \in G!ToSet(stack[k].todo)
    BY <1>5, <1>7 DEF Owed
  <2>2. k \in 1 .. Len(stack')
    <3>1. \A n \in Nat \ {0} : \A m \in 1 .. n + 1 : m # n + 1 => m \in 1 .. n OBVIOUS
    <3>2. k # Len(stack) BY <2>1 DEF Running
    <3> QED BY ONLY <1>5, <3>1, <3>2, k \in 1 .. Len(stack)
  <2>3. CASE k # Len(stack') BY <1>5, <2>1, <2>2, <2>3, ReturnedFrame DEF Owed
  <2>4. CASE k = Len(stack')
    <3>1. stack[k].todo \in Seq(Packages) /\ stack[k].todo # <<>>
      BY <2>2, ReturnedFrame DEF Processes, Blocked
    <3>2. q \in G!ToSet(Tail(stack[k].todo)) BY <1>6, <1>7, <2>1, <2>4, <3>1, HeadOrTail
    <3> QED BY <1>5, <2>1, <2>2, <2>4, <3>2, ReturnedFrame DEF Owed
  <2> QED BY <2>3, <2>4
<1>8. stack'[1].targets = stack[1].targets
  <2>1. 1 \in 1 .. Len(stack') BY <1>5
  <2> QED BY <2>1, ReturnedFrame
<1>9. ASSUME NEW k \in 2 .. Len(stack')
      PROVE  \/ stack'[k].targets = <<Head(stack'[k - 1].todo)>>
             \/ stack'[k].targets = <<>> /\ Head(stack'[k - 1].todo) \in installed_db
  <2>1. /\ k \in 2 .. Len(stack) /\ k \in 1 .. Len(stack')
        /\ k - 1 \in 1 .. Len(stack') /\ k - 1 # Len(stack')
    <3>1. \A n \in Nat \ {0} : \A m \in 2 .. n :
            m \in 2 .. n + 1 /\ m \in 1 .. n /\ m - 1 \in 1 .. n /\ m - 1 # n
      OBVIOUS
    <3> QED BY ONLY <1>5, <3>1, k \in 2 .. Len(stack')
  <2>2. stack'[k].targets = stack[k].targets /\ stack'[k - 1].todo = stack[k - 1].todo
    BY <2>1, ReturnedFrame
  <2> QED BY <1>4, <2>1, <2>2
<1> QED BY <1>3, <1>4, <1>7, <1>8, <1>9 DEF OwedByStack

(* The user's own process leaves nothing owed.                             *)
LEMMA NothingOwed ==
  ASSUME AptTyped, Frames, ScriptsDone, OwedByStack, stack # <<>>, Len(stack) = 1, stack' = <<>>,
         ended'.command = ended.command, UNCHANGED <<installed_db, postinstall>>,
         \/ UNCHANGED ended /\ Running.step = "next" /\ Running.targets = <<>>
         \/ ~ended'.ok
  PROVE  OwedByStack' /\ G!StaysClosed' /\ G!AllScriptsRun' /\ ScriptsDone'
<1>1. OwedByStack' /\ ScriptsDone' BY DEF OwedByStack, ScriptsDone
<1>2. CASE ~ended'.ok BY <1>1, <1>2 DEF G!StaysClosed, G!AllScriptsRun
<1>3. CASE UNCHANGED ended /\ Running.step = "next" /\ Running.targets = <<>>
  <2>1. Running = stack[1] /\ Database = installed_db /\ DOMAIN stack = 1 .. 1
    BY <1>3, RunningIsTop, LenProperties DEF Running, Database, AptTyped
  <2>2. G!AllScriptsRun' BY <1>3, <2>1 DEF G!AllScriptsRun, ScriptsDone
  <2>3. ASSUME Faultless
        PROVE  G!Closed /\ G!ToSet(ended.command.targets) \subseteq installed_db
    <3>1. \A p, q : ~Owed(p, q) /\ ~Entering(p) BY <1>3, <2>1 DEF Owed, Entering, Running
    <3>2. G!ToSet(stack[1].targets) = {} BY <1>3, <2>1 DEF G!ToSet
    <3> QED BY <2>1, <2>3, <3>1, <3>2 DEF OwedByStack, G!Closed
  <2>4. G!Closed' <=> G!Closed BY DEF G!Closed
  <2> QED BY <1>1, <1>3, <2>2, <2>3, <2>4 DEF G!StaysClosed, Faultless
<1> QED BY <1>2, <1>3

LEMMA ScriptsStart ==
  ASSUME ScriptsDone, NEW c, Starts(c), UNCHANGED <<ended, postinstall>>
  PROVE  ScriptsDone' /\ G!AllScriptsRun'
<1>1. stack # <<>> /\ stack' # <<>> /\ stack'[1] = stack[1] BY DEF Starts, StackLengths
<1> QED BY <1>1 DEF ScriptsDone, G!AllScriptsRun

LEMMA ScriptsReturn ==
  ASSUME AptTyped, Frames, ScriptsDone, Returns, ended'.news = ended.news
  PROVE  ScriptsDone' /\ G!AllScriptsRun'
<1>1. stack # <<>> /\ stack' # <<>> /\ 1 \in 1 .. Len(stack') BY DEF Returns, StackLengths
<1>2. stack'[1].step = "requires" /\ stack'[1].op = stack[1].op BY <1>1, ReturnedFrame
<1> QED BY <1>1, <1>2 DEF ScriptsDone, G!AllScriptsRun

-----------------------------------------------------------------------------
(* What the invariant says of the running process, and what has to be shown*)
(* of it for the invariant to hold after it has made a step.               *)
FilesTyped ==
  /\ installed_db \in (SUBSET Packages) \cup {G!Gone}
  /\ manifests \in SUBSET Packages /\ unpacked \in SUBSET Packages
  /\ postinstall \in SUBSET Packages /\ broken \in SUBSET Packages
  /\ ended \in [command : Commands \cup {G!NoCommand}, ok : BOOLEAN, closed : BOOLEAN,
                news : BOOLEAN]
TrueFor(p, db, lsts, placed, bad) ==
  db # G!Gone => \A q \in db \ bad :
    \/ q \in placed /\ q \in lsts
    \/ p.op = "remove" /\ p.step # "next" /\ q = Head(p.targets)

LEMMA RunningKnows ==
  ASSUME AptInv, stack # <<>>
  PROVE  /\ Running \in Processes /\ Sound(Running) /\ Len(stack) \in Nat \ {0} /\ FilesTyped
         /\ G!Top = Running /\ G!pkg = Head(Running.targets)
         /\ Running.step # "next" => Head(Running.targets) \in Packages
         /\ EnteredIn(Running, installed_db) /\ PlacedIn(Running, manifests, unpacked, broken)
         /\ TrueFor(Running, installed_db, manifests, unpacked, broken)
         /\ Database = IF Running.step = "replace" THEN Running.new_db ELSE installed_db
         /\ Len(stack) = 1 <=> ~Running.noscripts
         /\ Running.op = "remove" \/ Running.nodeps => Len(stack) = 1 /\ ~Faultless
         /\ Len(stack) = 1 => Running.nodeps = ended.command.nodeps
         /\ installed_db = G!Gone /\ Running.step # "replace" => Len(stack) = 1
         /\ "gone" \notin Packages
<1> USE DEF AptInv
<1>1. Running \in Processes /\ Len(stack) \in Nat \ {0}
      /\ G!Top = Running /\ G!pkg = Head(Running.targets)
  BY RunningIsTop
<1>2. FilesTyped BY DEF AptTyped, FilesTyped
<1>3. DOMAIN stack = 1 .. Len(stack) /\ Len(stack) \in DOMAIN stack /\ Running = stack[Len(stack)]
  BY <1>1, LenProperties DEF AptTyped, Running
<1>4. Sound(Running) BY <1>3 DEF Frames
<1>5. Database = IF Running.step = "replace" THEN Running.new_db ELSE installed_db
  BY DEF Database, Running
<1>6. EnteredIn(Running, installed_db) BY <1>3, <1>5 DEF Entered, EnteredIn
<1>7. PlacedIn(Running, manifests, unpacked, broken) BY <1>3 DEF InPlace, PlacedIn
<1>8. TrueFor(Running, installed_db, manifests, unpacked, broken)
  <2>1. SUFFICES ASSUME installed_db # G!Gone, NEW q \in installed_db \ broken
                 PROVE  \/ q \in unpacked /\ q \in manifests
                        \/ Running.op = "remove" /\ Running.step # "next" /\ q = Head(Running.targets)
    BY DEF TrueFor
  <2> QED BY <1>1, <2>1 DEF G!DatabaseTrue
<1>9. Running.step # "next" => Head(Running.targets) \in Packages
  BY <1>1, <1>4, HeadTailProperties DEF Sound, Processes
<1>10. /\ Len(stack) = 1 => ~Running.noscripts /\ Running.op = ended.command.op
                            /\ Running.nodeps = ended.command.nodeps
       /\ Len(stack) # 1 => Running.noscripts
  BY <1>1, <1>3 DEF Frames
<1>11. Running.op = "remove" \/ Running.nodeps => Len(stack) = 1 /\ ~Faultless
  BY <1>1, <1>4, <1>10 DEF Sound, Faultless, Processes
<1>12. "gone" \notin Packages BY AptAssumption DEF G!Gone
<1>13. ASSUME installed_db = G!Gone, Running.step # "replace" PROVE Len(stack) = 1
  <2>1. SUFFICES ASSUME Len(stack) # 1 PROVE FALSE OBVIOUS
  <2>2. 1 \in DOMAIN stack /\ 1 < Len(stack) BY <1>1, <1>3, <2>1
  <2>3. stack[1] \in Processes /\ Blocked(stack[1]) /\ Sound(stack[1])
    BY <2>2 DEF Frames, AptTyped
  <2>4. Head(stack[1].targets) \in Database BY <2>2, <2>3 DEF Entered, Blocked
  <2>5. Head(stack[1].targets) \in Packages
    BY <2>3, HeadTailProperties DEF Processes, Blocked, Sound
  <2> QED BY <1>5, <1>12, <1>13, <2>4, <2>5 DEF G!Gone
<1> QED BY <1>1, <1>2, <1>4, <1>5, <1>6, <1>7, <1>8, <1>9, <1>10, <1>11, <1>12, <1>13

LEMMA GoingOn ==
  ASSUME AptInv, stack # <<>>, NEW c \in Processes, G!With(c), Sound(c),
         c.op = Running.op, c.nodeps = Running.nodeps, c.noscripts = Running.noscripts,
         FilesTyped', ended'.command = ended.command, ended'.ok => ended.ok,
         Running.op = "remove" => ended'.news = ended.news,
         EnteredIn(c, installed_db'), PlacedIn(c, manifests', unpacked', broken'),
         TrueFor(c, installed_db', manifests', unpacked', broken'),
         Len(stack) = 1 \/ Database \subseteq Database',
         Len(stack) = 1 \/ c.step = "next" \/
           /\ Head(c.targets) = Head(Running.targets)
           /\ Running.step # "next" \/ Head(Running.targets) \notin installed_db,
         c.step = "next" /\ Len(stack) = 1 /\ ~ended.command.nodeps =>
           \/ postinstall' = {} \/ Running.op = "remove"
           \/ Running.step = "next" /\ ended'.news = ended.news /\ postinstall' = postinstall,
         Faultless' => Faultless /\ Pays(c)
  PROVE  AptInv'
<1> USE DEF AptInv
<1>1. GoesOn(c) BY WithGoesOn
<1>2. AptTyped' BY <1>1 DEF FilesTyped, AptTyped, GoesOn, StackLengths
<1>3. Frames' BY <1>1, FramesGoOn
<1>4. Entered' BY <1>1, EnteredGoOn
<1>5. G!NoPackageTwice' BY <1>1, TwiceGoOn
<1>6. InPlace' BY <1>1, InPlaceGoOn
<1>7. G!DatabaseTrue'
  <2>1. G!Top' = c
    BY <1>1, GoesOnAt DEF G!Top, G!Last
  <2>2. G!pkg' = Head(c.targets) BY <2>1 DEF G!pkg
  <2>3. ASSUME installed_db' # G!Gone, NEW q \in installed_db' \ broken'
        PROVE  \/ q \in unpacked' /\ q \in manifests'
               \/ c.op = "remove" /\ c.step # "next" /\ q = Head(c.targets)
    BY <2>3 DEF TrueFor
  <2> QED BY <1>1, <2>1, <2>2, <2>3, GoesOnAt DEF G!DatabaseTrue
<1>8. ScriptsDone' /\ G!AllScriptsRun' BY <1>1, ScriptsGoOn
<1>9. OwedByStack' /\ G!StaysClosed' BY <1>1, OwedGoOn
<1> QED BY <1>2, <1>3, <1>4, <1>5, <1>6, <1>7, <1>8, <1>9

(* Most steps of an install leave the database alone and add files.        *)
LEMMA DatabaseAfter ==
  ASSUME AptInv, stack # <<>>, NEW c \in Processes, G!With(c)
  PROVE  Database' = IF c.step = "replace" THEN c.new_db ELSE installed_db'
<1>1. GoesOn(c) BY WithGoesOn DEF AptInv
<1> QED BY <1>1, GoesOnAt DEF Database

LEMMA AddingFiles ==
  ASSUME AptInv, stack # <<>>, Running.op = "install", Running.step # "replace",
         UNCHANGED <<installed_db, ended>>, FilesTyped', manifests \subseteq manifests',
         unpacked \subseteq unpacked', broken \subseteq broken',
         NEW c \in Processes, G!With(c), Sound(c), c.step # "replace",
         c.op = Running.op, c.nodeps = Running.nodeps, c.noscripts = Running.noscripts,
         EnteredIn(c, installed_db), PlacedIn(c, manifests', unpacked', broken'),
         c.step = "next" \/ /\ Head(c.targets) = Head(Running.targets)
                            /\ \/ Running.step # "next"
                               \/ Head(Running.targets) \notin installed_db,
         c.step = "next" /\ Len(stack) = 1 /\ ~Running.nodeps =>
           \/ postinstall' = {}
           \/ Running.step = "next" /\ postinstall' = postinstall,
         Faultless => \A p, q : OwedBy(Running, p, q) => q \in installed_db \/ OwedBy(c, p, q),
         \/ c.targets = Running.targets
         \/ /\ Running.targets # <<>> /\ c.targets = Tail(Running.targets)
            /\ Head(Running.targets) \in installed_db
  PROVE  AptInv'
<1>1. Database = installed_db /\ Database' = installed_db
  BY RunningKnows, DatabaseAfter
<1>2. TrueFor(c, installed_db', manifests', unpacked', broken')
  BY RunningKnows DEF TrueFor
<1>3. EnteredIn(c, installed_db') BY DEF EnteredIn
<1>4. Faultless' => Faultless /\ Pays(c) BY <1>1 DEF Faultless, Pays
<1>5. c.step = "next" /\ Len(stack) = 1 /\ ~ended.command.nodeps =>
        \/ postinstall' = {} \/ Running.op = "remove"
        \/ Running.step = "next" /\ ended'.news = ended.news /\ postinstall' = postinstall
  BY RunningKnows
<1> QED BY <1>1, <1>2, <1>3, <1>4, <1>5, GoingOn

LEMMA AptInstallNext ==
  ASSUME AptInv, G!InstallNext PROVE AptInv'
<1>1. /\ stack # <<>> /\ Running.op = "install" /\ Running.step = "next"
      /\ Running.targets # <<>>
      /\ UNCHANGED <<installed_db, manifests, unpacked, postinstall, broken, ended>>
  BY RunningIsTop DEF AptInv, G!InstallNext, G!Running, G!files, G!history
<1>2. FilesTyped' BY <1>1, RunningKnows DEF FilesTyped
<1>3. CASE Head(Running.targets) \in installed_db
  <2>1. Tail(Running.targets) \in Seq(Packages)
    BY <1>1, RunningKnows, HeadTailProperties DEF Processes
  <2>2. PICK c \in Processes : /\ G!With(c)
                               /\ c = [Running EXCEPT !.step = "next", !.targets = Tail(@)]
    BY <1>1, <1>3, <2>1, RunningKnows DEF G!InstallNext, G!NextTarget, Processes, InstallSteps
  <2>3. /\ c.step = "next" /\ c.op = Running.op /\ c.nodeps = Running.nodeps
        /\ c.noscripts = Running.noscripts /\ c.targets = Tail(Running.targets) /\ Sound(c)
    BY <1>1, <2>2, RunningKnows DEF Processes, Sound, InstallSteps
  <2>4. /\ EnteredIn(c, installed_db) /\ PlacedIn(c, manifests', unpacked', broken')
        /\ \A p, q : ~OwedBy(Running, p, q)
    BY <1>1, <2>3 DEF EnteredIn, PlacedIn, OwedBy
  <2> QED BY <1>1, <1>2, <1>3, <2>2, <2>3, <2>4, AddingFiles
<1>4. CASE Head(Running.targets) \notin installed_db
  <2>1. PICK c \in Processes : G!With(c) /\ c = [Running EXCEPT !.step = "download"]
    BY <1>1, <1>4, RunningKnows DEF G!InstallNext, G!Goes, Processes, InstallSteps
  <2>2. /\ c.step = "download" /\ c.op = Running.op /\ c.nodeps = Running.nodeps
        /\ c.noscripts = Running.noscripts /\ c.targets = Running.targets /\ Sound(c)
    BY <1>1, <2>1, RunningKnows DEF Processes, Sound, InstallSteps
  <2>3. /\ EnteredIn(c, installed_db) /\ PlacedIn(c, manifests', unpacked', broken')
        /\ \A p, q : ~OwedBy(Running, p, q)
    BY <1>1, <1>4, <2>2 DEF EnteredIn, PlacedIn, OwedBy
  <2> QED BY <1>1, <1>2, <1>4, <2>1, <2>2, <2>3, AddingFiles
<1> QED BY <1>3, <1>4

LEMMA AptDownload ==
  ASSUME AptInv, G!Download PROVE AptInv'
<1>1. /\ stack # <<>> /\ Running.op = "install" /\ Running.step = "download"
      /\ manifests' = manifests \cup {Head(Running.targets)}
      /\ UNCHANGED <<installed_db, unpacked, postinstall, broken, ended>>
  BY RunningIsTop DEF AptInv, G!Download, G!Running, G!pkg, G!history
<1>2. FilesTyped' BY <1>1, RunningKnows DEF FilesTyped
<1>3. PICK c \in Processes : G!With(c) /\ c = [Running EXCEPT !.step = "unpack"]
  BY <1>1, RunningKnows DEF G!Download, G!AfterDownload, G!Goes, Processes, InstallSteps
<1>4. /\ c.step = "unpack" /\ c.op = Running.op /\ c.nodeps = Running.nodeps
      /\ c.noscripts = Running.noscripts /\ c.targets = Running.targets /\ Sound(c)
  BY <1>1, <1>3, RunningKnows DEF Processes, Sound, InstallSteps
<1>5. /\ EnteredIn(c, installed_db) /\ PlacedIn(c, manifests', unpacked', broken')
      /\ \A p, q : ~OwedBy(Running, p, q)
  BY <1>1, <1>4, RunningKnows DEF EnteredIn, PlacedIn, OwedBy
<1> QED BY <1>1, <1>2, <1>3, <1>4, <1>5, AddingFiles

LEMMA AptUnpack ==
  ASSUME AptInv, G!Unpack \/ G!UnpackFails PROVE AptInv'
<1>1. /\ stack # <<>> /\ Running.op = "install" /\ Running.step = "unpack"
      /\ UNCHANGED <<installed_db, manifests, ended>>
      /\ \/ /\ unpacked' = unpacked \cup {Head(Running.targets)} /\ broken' = broken
            /\ postinstall' = postinstall \cup {Head(Running.targets)}
         \/ /\ broken' = broken \cup {Head(Running.targets)}
            /\ UNCHANGED <<unpacked, postinstall>>
  BY RunningIsTop
  DEF AptInv, G!Unpack, G!UnpackFails, G!Running, G!pkg, G!files, G!history
<1>2. FilesTyped' BY <1>1, RunningKnows DEF FilesTyped
<1>3. PICK c \in Processes : G!With(c) /\ c = [Running EXCEPT !.step = "save"]
  BY <1>1, RunningKnows DEF G!Unpack, G!UnpackFails, G!Goes, Processes, InstallSteps
<1>4. /\ c.step = "save" /\ c.op = Running.op /\ c.nodeps = Running.nodeps
      /\ c.noscripts = Running.noscripts /\ c.targets = Running.targets /\ Sound(c)
  BY <1>1, <1>3, RunningKnows DEF Processes, Sound, InstallSteps
<1>5. /\ EnteredIn(c, installed_db) /\ PlacedIn(c, manifests', unpacked', broken')
      /\ \A p, q : ~OwedBy(Running, p, q)
  BY <1>1, <1>4, RunningKnows DEF EnteredIn, PlacedIn, OwedBy
<1> QED BY <1>1, <1>2, <1>3, <1>4, <1>5, AddingFiles

LEMMA AptScriptsRun ==
  ASSUME AptInv, G!ScriptsRun PROVE AptInv'
<1>1. /\ stack # <<>> /\ Running.op = "install" /\ Running.step = "scripts"
      /\ postinstall = {}
      /\ UNCHANGED <<installed_db, manifests, unpacked, postinstall, broken, ended>>
  BY RunningIsTop DEF AptInv, G!ScriptsRun, G!Running, G!files, G!history
<1>2. FilesTyped' BY <1>1, RunningKnows DEF FilesTyped
<1>3. Running.targets # <<>> /\ Head(Running.targets) \in installed_db
  BY <1>1, RunningKnows DEF Sound, EnteredIn
<1>4. Tail(Running.targets) \in Seq(Packages)
  BY <1>1, <1>3, RunningKnows, HeadTailProperties DEF Processes
<1>5. PICK c \in Processes : /\ G!With(c)
                             /\ c = [Running EXCEPT !.step = "next", !.targets = Tail(@)]
  BY <1>1, <1>4, RunningKnows DEF G!ScriptsRun, G!NextTarget, Processes, InstallSteps
<1>6. /\ c.step = "next" /\ c.op = Running.op /\ c.nodeps = Running.nodeps
      /\ c.noscripts = Running.noscripts /\ c.targets = Tail(Running.targets) /\ Sound(c)
  BY <1>1, <1>5, RunningKnows DEF Processes, Sound, InstallSteps
<1>7. /\ EnteredIn(c, installed_db) /\ PlacedIn(c, manifests', unpacked', broken')
      /\ \A p, q : ~OwedBy(Running, p, q)
  BY <1>1, <1>6 DEF EnteredIn, PlacedIn, OwedBy
<1> QED BY <1>1, <1>2, <1>3, <1>5, <1>6, <1>7, AddingFiles

(* What is required is required no more when it is in the database.        *)
LEMMA AptRequireSkips ==
  ASSUME AptInv, G!Require, Head(Running.todo) \in installed_db
  PROVE  AptInv'
<1>1. /\ stack # <<>> /\ Running.op = "install" /\ Running.step = "requires"
      /\ Running.todo # <<>>
      /\ UNCHANGED <<installed_db, manifests, unpacked, postinstall, broken, ended>>
  BY RunningIsTop DEF AptInv, G!Require, G!Running, G!files, G!history
<1>2. FilesTyped' BY <1>1, RunningKnows DEF FilesTyped
<1>3. Running.todo \in Seq(Packages) /\ Tail(Running.todo) \in Seq(Packages)
  BY <1>1, RunningKnows, HeadTailProperties DEF Processes
<1>4. PICK c \in Processes : G!With(c) /\ c = [Running EXCEPT !.todo = Tail(@)]
  BY <1>1, <1>3, RunningKnows DEF G!Require, Processes
<1>5. /\ c.step = "requires" /\ c.op = Running.op /\ c.nodeps = Running.nodeps
      /\ c.noscripts = Running.noscripts /\ c.targets = Running.targets
      /\ c.todo = Tail(Running.todo)
  BY <1>1, <1>4, RunningKnows DEF Processes
<1>6. Sound(c) /\ EnteredIn(c, installed_db) /\ PlacedIn(c, manifests', unpacked', broken')
  BY <1>1, <1>5, RunningKnows DEF Sound, EnteredIn, PlacedIn
<1>7. ASSUME NEW p, NEW q, OwedBy(Running, p, q)
      PROVE  q \in installed_db \/ OwedBy(c, p, q)
  <2>1. q = Head(Running.todo) \/ q \in G!ToSet(Tail(Running.todo))
    BY <1>1, <1>3, <1>7, HeadOrTail DEF OwedBy
  <2> QED BY <1>5, <1>7, <2>1 DEF OwedBy
<1> QED BY <1>1, <1>2, <1>4, <1>5, <1>6, <1>7, AddingFiles

(* A process begins.                                                       *)
LEMMA AptRequireStarts ==
  ASSUME AptInv, G!Require, Head(Running.todo) \notin installed_db
  PROVE  AptInv'
<1> USE DEF AptInv
<1>1. /\ stack # <<>> /\ Running.op = "install" /\ Running.step = "requires"
      /\ Running.todo # <<>>
      /\ UNCHANGED <<installed_db, manifests, unpacked, postinstall, broken, ended>>
  BY RunningIsTop DEF G!Require, G!Running, G!files, G!history
<1>2. Blocked(Running) BY <1>1 DEF Blocked
<1>3. Head(Running.todo) \in Packages
  BY <1>1, RunningKnows, HeadTailProperties DEF Processes
<1>4. <<Head(Running.todo)>> \in Seq(Packages) BY <1>3
<1> DEFINE new == [op |-> "install", targets |-> <<Head(Running.todo)>>, nodeps |-> FALSE,
                   noscripts |-> TRUE, step |-> "next", todo |-> <<>>, new_db |-> {},
                   away |-> FALSE]
<1>a. <<>> \in Seq(Packages) OBVIOUS
<1>b. new \in Processes BY <1>4, <1>a DEF Processes, InstallSteps
<1>c. stack' = Append(stack, new)
  BY <1>1, RunningKnows DEF G!Require, G!Process
<1>5. PICK c \in Processes : stack' = Append(stack, c) /\ c = new BY <1>b, <1>c
<1>6. /\ c.step = "next" /\ c.op = "install" /\ ~c.nodeps /\ c.noscripts
      /\ c.targets = <<Head(Running.todo)>>
  BY <1>5
<1>7. Starts(c) /\ Sound(c) BY <1>1, <1>5, <1>6, AppendStarts DEF Sound, InstallSteps
<1>8. AptTyped' BY <1>1, <1>7 DEF AptTyped, Starts, StackLengths
<1>9. Frames' /\ Entered' /\ G!NoPackageTwice' /\ InPlace'
  BY <1>1, <1>2, <1>6, <1>7, FramesStart, EnteredStart, TwiceStart, InPlaceStart
<1>10. G!DatabaseTrue' BY <1>1, TrueKept
<1>11. ScriptsDone' /\ G!AllScriptsRun' BY <1>1, <1>7, ScriptsStart
<1>12. OwedByStack' /\ G!StaysClosed' BY <1>1, <1>2, <1>6, <1>7, OwedStart
<1> QED BY <1>8, <1>9, <1>10, <1>11, <1>12

LEMMA AptRequire ==
  ASSUME AptInv, G!Require PROVE AptInv'
BY AptRequireSkips, AptRequireStarts

LEMMA AptRequiredAll ==
  ASSUME AptInv, G!RequiredAll PROVE AptInv'
<1>1. /\ stack # <<>> /\ Running.op = "install" /\ Running.step = "requires"
      /\ Running.todo = <<>>
      /\ UNCHANGED <<installed_db, manifests, unpacked, postinstall, broken, ended>>
  BY RunningIsTop DEF AptInv, G!RequiredAll, G!Running, G!files, G!history
<1>2. FilesTyped' BY <1>1, RunningKnows DEF FilesTyped
<1>3. Running.targets # <<>> /\ Head(Running.targets) \in installed_db
  BY <1>1, RunningKnows DEF Sound, EnteredIn
<1>4. \A p, q : ~OwedBy(Running, p, q) BY <1>1 DEF OwedBy, G!ToSet
<1>5. CASE Running.noscripts
  <2>1. Tail(Running.targets) \in Seq(Packages)
    BY <1>1, <1>3, RunningKnows, HeadTailProperties DEF Processes
  <2>2. PICK c \in Processes : /\ G!With(c)
                               /\ c = [Running EXCEPT !.step = "next", !.targets = Tail(@)]
    BY <1>1, <1>5, <2>1, RunningKnows DEF G!RequiredAll, G!NextTarget, Processes, InstallSteps
  <2>3. /\ c.step = "next" /\ c.op = Running.op /\ c.nodeps = Running.nodeps
        /\ c.noscripts = Running.noscripts /\ c.targets = Tail(Running.targets) /\ Sound(c)
    BY <1>1, <2>2, RunningKnows DEF Processes, Sound, InstallSteps
  <2>4. EnteredIn(c, installed_db) /\ PlacedIn(c, manifests', unpacked', broken')
    BY <1>1, <2>3 DEF EnteredIn, PlacedIn
  <2>5. Len(stack) # 1 BY <1>1, <1>5, RunningKnows
  <2> QED BY <1>1, <1>2, <1>3, <1>4, <2>2, <2>3, <2>4, <2>5, AddingFiles
<1>6. CASE ~Running.noscripts
  <2>1. PICK c \in Processes : G!With(c) /\ c = [Running EXCEPT !.step = "scripts"]
    BY <1>1, <1>6, RunningKnows DEF G!RequiredAll, Processes, InstallSteps
  <2>2. /\ c.step = "scripts" /\ c.op = Running.op /\ c.nodeps = Running.nodeps
        /\ c.noscripts = Running.noscripts /\ c.targets = Running.targets /\ Sound(c)
    BY <1>1, <1>6, <2>1, RunningKnows DEF Processes, Sound, InstallSteps
  <2>3. EnteredIn(c, installed_db) /\ PlacedIn(c, manifests', unpacked', broken')
    BY <1>1, <1>3, <2>2 DEF EnteredIn, PlacedIn
  <2> QED BY <1>1, <1>2, <1>4, <2>1, <2>2, <2>3, AddingFiles
<1> QED BY <1>5, <1>6

(* The new database has all of the old one, if there is one, and the       *)
(* package; nobody but the user's own process may find it gone.            *)
LEMMA AptSaveDb ==
  ASSUME AptInv, G!SaveDb PROVE AptInv'
<1> DEFINE new_db == (installed_db \ G!Gone) \cup {Head(Running.targets)}
<1>1. /\ stack # <<>> /\ Running.op = "install" /\ Running.step = "save"
      /\ installed_db' = G!Gone
      /\ UNCHANGED <<manifests, unpacked, postinstall, broken, ended>>
  BY RunningIsTop DEF AptInv, G!SaveDb, G!Running, G!history
<1>2. FilesTyped' BY <1>1, RunningKnows DEF FilesTyped
<1>3. new_db \in SUBSET Packages
  BY <1>1, RunningKnows DEF FilesTyped
<1>4. PICK c \in Processes : /\ G!With(c)
                             /\ c = [Running EXCEPT !.step = "replace", !.new_db = new_db]
  BY <1>1, <1>3, RunningKnows DEF G!SaveDb, Processes, InstallSteps
<1>5. /\ c.step = "replace" /\ c.op = Running.op /\ c.nodeps = Running.nodeps
      /\ c.noscripts = Running.noscripts /\ c.targets = Running.targets /\ Sound(c)
      /\ c.new_db = new_db
  BY <1>1, <1>4, RunningKnows DEF Processes, Sound, InstallSteps
<1>6. EnteredIn(c, installed_db') BY <1>1, <1>5 DEF EnteredIn
<1>7. PlacedIn(c, manifests', unpacked', broken')
  <2>1. \A q \in installed_db \ G!Gone : q \notin broken => q \in unpacked /\ q \in manifests
    BY <1>1, RunningKnows DEF TrueFor
  <2>2. /\ Head(Running.targets) \in manifests /\ Head(Running.targets) \in unpacked \cup broken
    BY <1>1, RunningKnows DEF PlacedIn
  <2> QED BY <1>1, <1>5, <2>1, <2>2 DEF PlacedIn
<1>8. TrueFor(c, installed_db', manifests', unpacked', broken') BY <1>1 DEF TrueFor
<1>9. Database = installed_db /\ Database' = new_db
  BY <1>1, <1>4, <1>5, RunningKnows, DatabaseAfter
<1>10. installed_db # G!Gone => Database \subseteq Database' /\ Database' # G!Gone
  <2>1. SUFFICES ASSUME installed_db # G!Gone
                 PROVE  Database \subseteq Database' /\ Database' # G!Gone
    OBVIOUS
  <2>2. installed_db \in SUBSET Packages BY <1>1, <2>1, RunningKnows DEF FilesTyped
  <2>3. "gone" \notin Packages BY <1>1, RunningKnows
  <2> HIDE DEF new_db
  <2>4. Database' # G!Gone BY <1>3, <1>9, <2>3 DEF G!Gone
  <2> USE DEF new_db
  <2>5. Database \subseteq Database' BY <1>9, <2>2, <2>3 DEF G!Gone
  <2> QED BY <2>4, <2>5
<1>11. Faultless' => Faultless /\ installed_db # G!Gone
  BY <1>1, <1>9 DEF AptInv, OwedByStack, Faultless
<1>12. Faultless' => Faultless /\ Pays(c)
  BY <1>1, <1>5, <1>9, <1>10, <1>11 DEF Pays, OwedBy
<1>13. Len(stack) = 1 \/ Database \subseteq Database'
  BY <1>1, <1>10, RunningKnows
<1> HIDE DEF new_db
<1> QED BY <1>1, <1>2, <1>4, <1>5, <1>6, <1>7, <1>8, <1>12, <1>13, GoingOn

LEMMA AptReplaceDb ==
  ASSUME AptInv, G!ReplaceDb PROVE AptInv'
<1>1. /\ stack # <<>> /\ Running.op = "install" /\ Running.step = "replace"
      /\ installed_db' = Running.new_db
      /\ ended' = [ended EXCEPT !.news = @ \/ Len(stack) = 1]
      /\ UNCHANGED <<manifests, unpacked, postinstall, broken>>
  BY RunningIsTop DEF AptInv, G!ReplaceDb, G!Running
<1>2. /\ Running.targets # <<>> /\ Head(Running.targets) \in Running.new_db
      /\ Head(Running.targets) \in Packages
      /\ Running.new_db \in SUBSET Packages /\ Database = installed_db'
      /\ Running.new_db \ broken \subseteq unpacked \cap manifests
  BY <1>1, RunningKnows DEF Sound, EnteredIn, Processes, PlacedIn
<1>3. /\ ended'.command = ended.command /\ ended'.ok = ended.ok
      /\ ended'.closed = ended.closed /\ (Faultless' <=> Faultless)
    BY <1>1, RunningKnows DEF FilesTyped, Faultless
<1>4. FilesTyped'
  <2>1. ended' \in [command : Commands \cup {G!NoCommand}, ok : BOOLEAN, closed : BOOLEAN,
                    news : BOOLEAN]
    BY <1>1, RunningKnows DEF FilesTyped
  <2> QED BY <1>1, <1>2, <2>1, RunningKnows DEF FilesTyped
<1>5. ASSUME NEW c \in Processes, c.step # "replace", c.op = "install"
      PROVE  TrueFor(c, installed_db', manifests', unpacked', broken')
  BY <1>1, <1>2 DEF TrueFor
<1>6. CASE Running.nodeps
  <2>1. Tail(Running.targets) \in Seq(Packages)
    BY <1>1, <1>2, RunningKnows, HeadTailProperties DEF Processes
  <2>2. PICK c \in Processes : /\ G!With(c)
                               /\ c = [[Running EXCEPT !.step = "next", !.targets = Tail(@)]
                                       EXCEPT !.away = TRUE]
    BY <1>1, <1>6, <2>1, RunningKnows DEF G!ReplaceDb, G!NextTarget, Processes, InstallSteps
  <2>3. /\ c.step = "next" /\ c.op = Running.op /\ c.nodeps = Running.nodeps
        /\ c.noscripts = Running.noscripts /\ c.targets = Tail(Running.targets) /\ Sound(c)
    BY <1>1, <2>2, RunningKnows DEF Processes, Sound, InstallSteps
  <2>4. EnteredIn(c, installed_db') /\ PlacedIn(c, manifests', unpacked', broken')
    BY <2>3 DEF EnteredIn, PlacedIn
  <2>5. /\ Len(stack) = 1 /\ ~Faultless /\ ended.command.nodeps
    BY <1>1, <1>6, RunningKnows
  <2> QED BY <1>1, <1>3, <1>4, <1>5, <2>2, <2>3, <2>4, <2>5, GoingOn
<1>7. CASE ~Running.nodeps
  <2>1. Requires[Head(Running.targets)] \in Seq(Packages) BY <1>2, AptAssumption
  <2>2. PICK c \in Processes :
          /\ G!With(c)
          /\ c = [Running EXCEPT !.step = "requires", !.todo = Requires[Head(Running.targets)]]
    BY <1>1, <1>7, <2>1, RunningKnows DEF G!ReplaceDb, Processes, InstallSteps
  <2>3. /\ c.step = "requires" /\ c.op = Running.op /\ c.nodeps = Running.nodeps
        /\ c.noscripts = Running.noscripts /\ c.targets = Running.targets
        /\ c.todo = Requires[Head(Running.targets)] /\ Sound(c)
    BY <1>1, <1>7, <2>2, RunningKnows DEF Processes, Sound, InstallSteps
  <2>4. EnteredIn(c, installed_db') /\ PlacedIn(c, manifests', unpacked', broken')
    BY <1>1, <1>2, <2>3 DEF EnteredIn, PlacedIn
  <2>5. Database' = installed_db' BY <1>1, <2>2, <2>3, DatabaseAfter
  <2>6. Pays(c) BY <1>1, <1>2, <2>3, <2>5 DEF Pays, OwedBy
  <2> QED BY <1>1, <1>2, <1>3, <1>4, <1>5, <2>2, <2>3, <2>4, <2>5, <2>6, GoingOn
<1> QED BY <1>6, <1>7

(* A process ends, by itself or because a download has failed.             *)
LEMMA Ending ==
  ASSUME AptInv, stack # <<>>, G!Ends, ended'.command = ended.command,
         ended' \in [command : Commands \cup {G!NoCommand}, ok : BOOLEAN, closed : BOOLEAN,
                     news : BOOLEAN],
         ended'.news = ended.news, UNCHANGED <<installed_db, manifests, unpacked, postinstall, broken>>,
         Running.step # "replace", Running.op = "install" \/ Running.step = "next",
         \/ UNCHANGED ended /\ Running.step = "next" /\ Running.targets = <<>>
         \/ ~ended'.ok
  PROVE  AptInv'
<1> USE DEF AptInv
<1>1. IF Len(stack) = 1 THEN stack' = <<>> ELSE Returns BY EndsReturns
<1>2. G!DatabaseTrue' BY TrueKept
<1>3. CASE Len(stack) = 1
  <2>1. AptTyped' BY <1>1, <1>3 DEF AptTyped
  <2>2. Frames' /\ Entered' /\ G!NoPackageTwice' /\ InPlace'
    BY <1>1, <1>3 DEF Frames, Entered, G!NoPackageTwice, InPlace
  <2> QED BY <1>1, <1>2, <1>3, <2>1, <2>2, NothingOwed
<1>4. CASE Len(stack) # 1
  <2>1. Returns BY <1>1, <1>4
  <2>2. AptTyped' BY <2>1 DEF AptTyped, Returns, StackLengths
  <2>3. Frames' /\ Entered' /\ G!NoPackageTwice' /\ InPlace'
    BY <2>1, FramesReturn, EnteredReturn, TwiceReturn, InPlaceReturn
  <2>4. ScriptsDone' /\ G!AllScriptsRun' BY <2>1, ScriptsReturn
  <2>5. OwedByStack' /\ G!StaysClosed'
    <3>1. CASE ~ended'.ok BY <3>1 DEF OwedByStack, Faultless, G!StaysClosed
    <3>2. CASE ended'.ok BY <2>1, <3>2, OwedReturn
    <3> QED BY <3>1, <3>2
  <2> QED BY <1>2, <2>2, <2>3, <2>4, <2>5
<1> QED BY <1>3, <1>4

LEMMA AptEnds ==
  ASSUME AptInv, G!EndOfTargets \/ G!DownloadFails PROVE AptInv'
<1>1. /\ stack # <<>> /\ G!Ends
      /\ UNCHANGED <<installed_db, manifests, unpacked, postinstall, broken>>
      /\ \/ Running.step = "next" /\ Running.targets = <<>> /\ UNCHANGED ended
         \/ Running.op = "install" /\ Running.step = "download" /\ G!Fails
  BY RunningIsTop
  DEF AptInv, G!EndOfTargets, G!DownloadFails, G!Running, G!files, G!history
<1>2. CASE G!Fails
  <2>1. /\ ended'.command = ended.command /\ ended'.news = ended.news /\ ~ended'.ok
        /\ ended' \in [command : Commands \cup {G!NoCommand}, ok : BOOLEAN, closed : BOOLEAN,
                       news : BOOLEAN]
    BY <1>1, <1>2, RunningKnows DEF G!Fails, FilesTyped
  <2> QED BY <1>1, <2>1, Ending
<1>3. CASE UNCHANGED ended /\ Running.step = "next" /\ Running.targets = <<>>
  <2>1. /\ ended'.command = ended.command /\ ended'.news = ended.news
        /\ ended' \in [command : Commands \cup {G!NoCommand}, ok : BOOLEAN, closed : BOOLEAN,
                       news : BOOLEAN]
    BY <1>1, <1>3, RunningKnows DEF FilesTyped
  <2> QED BY <1>1, <1>3, <2>1, Ending
<1> QED BY <1>1, <1>2, <1>3

(* The steps of a removal, which only the user's own process makes.        *)
LEMMA Removing ==
  ASSUME AptInv, stack # <<>>, Running.op = "remove", UNCHANGED ended, FilesTyped',
         NEW c \in Processes, G!With(c), Sound(c), c.op = "remove",
         c.nodeps = Running.nodeps, c.noscripts = Running.noscripts,
         TrueFor(c, installed_db', manifests', unpacked', broken')
  PROVE  AptInv'
<1>1. Len(stack) = 1 /\ ~Faultless BY RunningKnows
<1>2. ~Faultless' BY <1>1 DEF Faultless
<1>3. c.step \in RemoveSteps BY DEF Sound
<1>4. EnteredIn(c, installed_db') /\ PlacedIn(c, manifests', unpacked', broken')
  BY <1>3 DEF EnteredIn, PlacedIn, RemoveSteps
<1> QED BY <1>1, <1>2, <1>4, GoingOn

LEMMA AptRemoveNext ==
  ASSUME AptInv, G!RemoveNext PROVE AptInv'
<1>1. /\ stack # <<>> /\ Running.op = "remove" /\ Running.step = "next"
      /\ Running.targets # <<>>
      /\ UNCHANGED <<installed_db, manifests, unpacked, postinstall, broken>>
  BY RunningIsTop DEF AptInv, G!RemoveNext, G!Running, G!files
<1>2. \/ G!With(G!NextTarget(Running)) /\ UNCHANGED ended
      \/ G!Ends /\ G!Fails
      \/ G!With([Running EXCEPT !.step = "files"]) /\ UNCHANGED ended
  BY <1>1, RunningKnows DEF G!RemoveNext, G!Goes
<1>3. CASE G!With(G!NextTarget(Running)) /\ UNCHANGED ended
  <2>1. Tail(Running.targets) \in Seq(Packages)
    BY <1>1, RunningKnows, HeadTailProperties DEF Processes
  <2>2. PICK c \in Processes : /\ G!With(c)
                               /\ c = [Running EXCEPT !.step = "next", !.targets = Tail(@)]
    BY <1>1, <1>3, <2>1, RunningKnows DEF G!NextTarget, Processes, RemoveSteps
  <2>3. /\ c.step = "next" /\ c.op = "remove" /\ c.nodeps = Running.nodeps
        /\ c.noscripts = Running.noscripts /\ Sound(c)
    BY <1>1, <2>2, RunningKnows DEF Processes, Sound, RemoveSteps
  <2>4. FilesTyped' BY <1>1, <1>3, RunningKnows DEF FilesTyped
  <2>5. TrueFor(c, installed_db', manifests', unpacked', broken')
    BY <1>1, RunningKnows DEF TrueFor
  <2> QED BY <1>1, <1>3, <2>2, <2>3, <2>4, <2>5, Removing
<1>4. CASE G!With([Running EXCEPT !.step = "files"]) /\ UNCHANGED ended
  <2>1. PICK c \in Processes : G!With(c) /\ c = [Running EXCEPT !.step = "files"]
    BY <1>1, <1>4, RunningKnows DEF Processes, RemoveSteps
  <2>2. /\ c.step = "files" /\ c.op = "remove" /\ c.nodeps = Running.nodeps
        /\ c.noscripts = Running.noscripts /\ Sound(c)
    BY <1>1, <2>1, RunningKnows DEF Processes, Sound, RemoveSteps
  <2>3. FilesTyped' BY <1>1, <1>4, RunningKnows DEF FilesTyped
  <2>4. TrueFor(c, installed_db', manifests', unpacked', broken')
    BY <1>1, RunningKnows DEF TrueFor
  <2> QED BY <1>1, <1>4, <2>1, <2>2, <2>3, <2>4, Removing
<1>5. CASE G!Ends /\ G!Fails
  <2>1. /\ ended'.command = ended.command /\ ended'.news = ended.news /\ ~ended'.ok
        /\ ended' \in [command : Commands \cup {G!NoCommand}, ok : BOOLEAN, closed : BOOLEAN,
                       news : BOOLEAN]
    BY <1>1, <1>5, RunningKnows DEF G!Fails, FilesTyped
  <2> QED BY <1>1, <1>5, <2>1, Ending
<1> QED BY <1>2, <1>3, <1>4, <1>5

LEMMA AptRemoveFiles ==
  ASSUME AptInv, G!RemoveFiles \/ G!RemoveManifest PROVE AptInv'
<1>1. /\ stack # <<>> /\ Running.op = "remove" /\ Running.step \in {"files", "manifest"}
      /\ unpacked \ {Head(Running.targets)} \subseteq unpacked' /\ unpacked' \subseteq unpacked
      /\ manifests \ {Head(Running.targets)} \subseteq manifests' /\ manifests' \subseteq manifests
      /\ postinstall' \subseteq postinstall /\ UNCHANGED <<installed_db, broken, ended>>
  BY RunningIsTop
  DEF AptInv, G!RemoveFiles, G!RemoveManifest, G!Running, G!pkg, G!history
<1>2. PICK next \in {"manifest", "entry"} : G!With([Running EXCEPT !.step = next])
  BY <1>1, RunningKnows DEF G!RemoveFiles, G!RemoveManifest, G!Goes
<1>3. PICK c \in Processes : G!With(c) /\ c = [Running EXCEPT !.step = next]
  BY <1>1, <1>2, RunningKnows DEF Processes, RemoveSteps
<1>4. /\ c.step = next /\ c.step # "next" /\ c.op = "remove" /\ c.nodeps = Running.nodeps
      /\ c.noscripts = Running.noscripts /\ c.targets = Running.targets /\ Sound(c)
  BY <1>1, <1>3, RunningKnows DEF Processes, Sound, RemoveSteps
<1>5. FilesTyped' BY <1>1, RunningKnows DEF FilesTyped
<1>6. TrueFor(c, installed_db', manifests', unpacked', broken')
  BY <1>1, <1>4, RunningKnows DEF TrueFor
<1> QED BY <1>1, <1>3, <1>4, <1>5, <1>6, Removing

LEMMA AptRemoveEntry ==
  ASSUME AptInv, G!RemoveEntry PROVE AptInv'
<1>1. /\ stack # <<>> /\ Running.op = "remove" /\ Running.step = "entry"
      /\ installed_db' = installed_db \ {Head(Running.targets)}
      /\ UNCHANGED <<manifests, unpacked, postinstall, broken, ended>>
  BY RunningIsTop DEF AptInv, G!RemoveEntry, G!Running, G!pkg, G!history
<1>2. Running.targets # <<>> /\ Head(Running.targets) \in Packages /\ "gone" \notin Packages
  BY <1>1, RunningKnows DEF Sound
<1>3. installed_db = G!Gone => installed_db' = G!Gone BY <1>1, <1>2 DEF G!Gone
<1>4. FilesTyped' BY <1>1, <1>3, RunningKnows DEF FilesTyped
<1>5. Tail(Running.targets) \in Seq(Packages)
  BY <1>1, <1>2, RunningKnows, HeadTailProperties DEF Processes
<1>6. PICK c \in Processes : /\ G!With(c)
                             /\ c = [Running EXCEPT !.step = "next", !.targets = Tail(@)]
  BY <1>1, <1>5, RunningKnows DEF G!RemoveEntry, G!NextTarget, Processes, RemoveSteps
<1>7. /\ c.step = "next" /\ c.op = "remove" /\ c.nodeps = Running.nodeps
      /\ c.noscripts = Running.noscripts /\ Sound(c)
  BY <1>1, <1>6, RunningKnows DEF Processes, Sound, RemoveSteps
<1>8. TrueFor(c, installed_db', manifests', unpacked', broken')
  BY <1>1, <1>3, RunningKnows DEF TrueFor
<1> QED BY <1>1, <1>4, <1>6, <1>7, <1>8, Removing

-----------------------------------------------------------------------------
(* A command begins, or is interrupted.                                    *)
LEMMA AptRunCommand ==
  ASSUME AptInv, G!RunCommand PROVE AptInv'
<1> USE DEF AptInv
<1>1. PICK a \in Commands :
        /\ stack' = <<G!Process(a.op, a.targets, a.nodeps, FALSE)>>
        /\ ended' = [command |-> a, ok |-> TRUE, news |-> FALSE,
                     closed |-> installed_db # G!Gone /\ G!Closed]
        /\ stack = <<>>
        /\ UNCHANGED <<installed_db, manifests, unpacked, postinstall, broken>>
  BY DEF G!RunCommand, G!files
<1>2. a.op \in {"install", "remove"} /\ a.targets \in Seq(Packages) /\ a.nodeps \in BOOLEAN
  BY AptAssumption
<1> DEFINE new == [op |-> a.op, targets |-> a.targets, nodeps |-> a.nodeps,
                   noscripts |-> FALSE, step |-> "next", todo |-> <<>>, new_db |-> {},
                   away |-> FALSE]
<1>3. <<>> \in Seq(Packages) OBVIOUS
<1>4. new \in Processes BY <1>2, <1>3 DEF Processes, InstallSteps
<1>5. PICK c \in Processes : stack' = <<c>> /\ c = new BY <1>1, <1>4 DEF G!Process
<1>6. /\ c.step = "next" /\ c.op = a.op /\ c.nodeps = a.nodeps /\ ~c.noscripts
      /\ c.targets = a.targets /\ Sound(c)
  BY <1>2, <1>5 DEF Sound, InstallSteps, RemoveSteps
<1> HIDE DEF new
<1>7. /\ stack' \in Seq(Processes) /\ Len(stack') = 1 /\ DOMAIN stack' = 1 .. 1
      /\ stack'[1] = c /\ stack' # <<>>
  BY <1>5
<1>8. AptTyped' BY <1>1, <1>7 DEF AptTyped, G!Closed
<1>9. Frames'
  <2>1. ended'.command = a BY <1>1
  <2>2. \A k \in DOMAIN stack' : k = 1 BY <1>7
  <2> QED BY <1>6, <1>7, <2>1, <2>2 DEF Frames
<1>10. Entered' /\ G!NoPackageTwice' /\ InPlace'
  BY <1>6, <1>7 DEF Entered, G!NoPackageTwice, InPlace
<1>11. G!DatabaseTrue' BY <1>1, TrueKept
<1>12. ScriptsDone' /\ G!AllScriptsRun' /\ G!StaysClosed'
  BY <1>1, <1>7 DEF ScriptsDone, G!AllScriptsRun, G!StaysClosed
<1>13. OwedByStack'
  <2>1. Database' = installed_db BY <1>1, <1>6, <1>7 DEF Database
  <2>2. Faultless' => installed_db # G!Gone /\ G!Closed
    BY <1>1 DEF Faultless
  <2>3. 2 .. Len(stack') = {} BY <1>7
  <2> QED BY <1>1, <1>6, <1>7, <2>1, <2>2, <2>3 DEF OwedByStack, G!Closed
<1> QED BY <1>8, <1>9, <1>10, <1>11, <1>12, <1>13

LEMMA AptInterrupt ==
  ASSUME AptInv, G!Interrupt PROVE AptInv'
<1> USE DEF AptInv
<1>1. /\ stack # <<>> /\ stack' = <<>> /\ G!Fails
      /\ broken' = IF Running.op = "remove" /\ Running.step # "next"
                   THEN broken \cup {Head(Running.targets)} ELSE broken
      /\ UNCHANGED <<installed_db, manifests, unpacked, postinstall>>
  BY RunningIsTop DEF G!Interrupt, G!files
<1>2. /\ ~ended'.ok
      /\ ended' \in [command : Commands \cup {G!NoCommand}, ok : BOOLEAN, closed : BOOLEAN,
                     news : BOOLEAN]
  BY <1>1, RunningKnows DEF G!Fails, FilesTyped
<1>3. FilesTyped' BY <1>1, <1>2, RunningKnows DEF FilesTyped
<1>4. AptTyped' BY <1>1, <1>3 DEF AptTyped, FilesTyped
<1>5. Frames' /\ Entered' /\ G!NoPackageTwice' /\ InPlace' /\ ScriptsDone'
  BY <1>1 DEF Frames, Entered, G!NoPackageTwice, InPlace, ScriptsDone
<1>6. OwedByStack' /\ G!StaysClosed' /\ G!AllScriptsRun'
  BY <1>1, <1>2 DEF OwedByStack, G!StaysClosed, G!AllScriptsRun
<1>7. ASSUME installed_db # G!Gone, NEW q \in installed_db \ broken'
      PROVE  q \in unpacked /\ q \in manifests
  BY <1>1, <1>7, RunningKnows DEF TrueFor
<1>8. G!DatabaseTrue' BY <1>1, <1>7 DEF G!DatabaseTrue
<1> QED BY <1>4, <1>5, <1>6, <1>8

LEMMA AptRunScript ==
  ASSUME AptInv, G!RunScript PROVE AptInv'
<1> USE DEF AptInv
<1>1. /\ stack # <<>> /\ postinstall' \subseteq postinstall /\ postinstall # {}
      /\ UNCHANGED <<installed_db, manifests, unpacked, stack, broken, ended>>
  BY DEF G!RunScript, G!Running, G!history
<1>2. AptTyped' /\ Frames' /\ Entered' /\ InPlace' BY <1>1
  DEF AptTyped, Frames, Entered, InPlace, Database
<1>3. G!NoPackageTwice' /\ G!DatabaseTrue'
  BY <1>1 DEF G!NoPackageTwice, G!DatabaseTrue, G!Top, G!pkg
<1>4. ScriptsDone' /\ G!AllScriptsRun' BY <1>1 DEF ScriptsDone, G!AllScriptsRun
<1>5. OwedByStack' /\ G!StaysClosed'
  BY <1>1 DEF OwedByStack, Faultless, Database, Owed, Entering, G!StaysClosed
<1> QED BY <1>2, <1>3, <1>4, <1>5

LEMMA AptInit == ASSUME G!Init PROVE AptInv
<1> USE DEF G!Init
<1>1. AptTyped BY DEF AptTyped, G!Gone
<1>2. Frames /\ Entered /\ G!NoPackageTwice /\ InPlace
  BY DEF Frames, Entered, G!NoPackageTwice, InPlace
<1>3. G!DatabaseTrue BY DEF G!DatabaseTrue
<1>4. ScriptsDone /\ G!AllScriptsRun BY DEF ScriptsDone, G!AllScriptsRun
<1>5. OwedByStack /\ G!StaysClosed
  BY DEF OwedByStack, G!StaysClosed, G!NoCommand
<1> QED BY <1>1, <1>2, <1>3, <1>4, <1>5 DEF AptInv

LEMMA AptStutters == ASSUME AptInv, UNCHANGED aptv PROVE AptInv'
<1> USE DEF AptInv, aptv
<1>1. AptTyped' /\ Frames' /\ Entered' /\ InPlace'
  BY DEF AptTyped, Frames, Entered, InPlace, Database
<1>2. G!NoPackageTwice' /\ G!DatabaseTrue' /\ G!StaysClosed' /\ G!AllScriptsRun'
  BY DEF G!NoPackageTwice, G!DatabaseTrue, G!Top, G!pkg, G!StaysClosed, G!Closed, G!AllScriptsRun
<1>3. ScriptsDone' /\ OwedByStack'
  BY DEF ScriptsDone, OwedByStack, Faultless, Database, Owed, Entering
<1> QED BY <1>1, <1>2, <1>3

LEMMA AptStep == ASSUME AptInv, [G!Next]_aptv PROVE AptInv'
<1>1. CASE G!InstallNext \/ G!Download \/ G!Unpack \/ G!UnpackFails
  BY <1>1, AptInstallNext, AptDownload, AptUnpack
<1>2. CASE G!SaveDb \/ G!ReplaceDb BY <1>2, AptSaveDb, AptReplaceDb
<1>3. CASE G!Require \/ G!RequiredAll \/ G!RunScript \/ G!ScriptsRun
  BY <1>3, AptRequire, AptRequiredAll, AptRunScript, AptScriptsRun
<1>4. CASE G!RemoveNext \/ G!RemoveFiles \/ G!RemoveManifest \/ G!RemoveEntry
  BY <1>4, AptRemoveNext, AptRemoveFiles, AptRemoveEntry
<1>5. CASE G!RunCommand \/ G!Interrupt \/ G!EndOfTargets \/ G!DownloadFails
  BY <1>5, AptRunCommand, AptInterrupt, AptEnds
<1>6. CASE UNCHANGED aptv BY <1>6, AptStutters
<1> QED BY <1>1, <1>2, <1>3, <1>4, <1>5, <1>6 DEF G!Next

LEMMA AptAlways == AnyFairSpec => []AptInv
<1>1. AnyInit => AptInv BY AptInit DEF AnyInit
<1>2. AptInv /\ [AnyNext]_allv => AptInv' BY AptStep, EachProgram
<1> QED BY <1>1, <1>2, PTL DEF AnyFairSpec

(* Whatever the packages require of each other, no two processes are at    *)
(* work on the same one: packages that require each other do not install   *)
(* each other for ever.                                                    *)
THEOREM NoPackageIsTwice == AnyFairSpec => []NoPackageTwice
<1>1. AptInv => NoPackageTwice BY DEF AptInv, NoPackageTwice
<1> QED BY <1>1, AptAlways, PTL

(* Whatever fails, and wherever a command is interrupted, what is in the   *)
(* database is in place and has its manifest, but for what a removal or a  *)
(* tar that failed has left behind.                                        *)
THEOREM DatabaseIsTrue == AnyFairSpec => []DatabaseTrue
<1>1. AptInv => DatabaseTrue BY DEF AptInv, DatabaseTrue
<1> QED BY <1>1, AptAlways, PTL

(* An install without a failure, of packages that may require each other   *)
(* in circles, leaves a closed database with all its targets, if it found  *)
(* a closed one.                                                           *)
THEOREM ClosedStays == AnyFairSpec => []StaysClosed
<1>1. AptInv => StaysClosed BY DEF AptInv, StaysClosed
<1> QED BY <1>1, AptAlways, PTL

(* The first process runs the scripts that those it has started leave.     *)
THEOREM ScriptsAreRun == AnyFairSpec => []AllScriptsRun
<1>1. AptInv => AllScriptsRun BY DEF AptInv, AllScriptsRun
<1> QED BY <1>1, AptAlways, PTL

-----------------------------------------------------------------------------
(* The variables of every program keep their types, for every value of the *)
(* constants.                                                              *)
THEOREM TypesAreKept == AnyFairSpec => []TypesOK
<1>1. Shape => N!TypeOK
  BY DEF Shape, NetTyped, HandlesTyped, PlacesTyped, DataTyped, HolderSets, N!TypeOK
<1>2. WakeInv /\ EventTyped => TypeOK BY DEF WakeInv, WakeTyped, EventTyped, TypeOK
<1>3. WatchInv => W!TypeOK BY DEF WatchInv, WatchTyped, W!TypeOK
<1>4. DotInv => D!TypeOK BY DEF DotInv, DotTyped, SumIsStored, D!SumOf, D!TypeOK
<1>5. ASSUME AddInv PROVE A!TypeOK
  <2>1. ASSUME reply_writer # "none" PROVE reply_writer \in Clients
    <3>1. buf # <<>> /\ buf \in Seq(A!Requests) /\ reply_writer = A!Asker
      BY <1>5, <2>1 DEF AddInv, AddTyped, Numbered
    <3>2. buf[1] \in A!Requests BY <3>1, HeadTailProperties
    <3> QED BY <3>1, <3>2 DEF A!Asker, A!Requests
  <2>2. reply_readers \subseteq Clients BY <1>5 DEF AddInv, Numbered
  <2> QED BY <1>5, <2>1, <2>2 DEF AddInv, AddTyped, A!TypeOK
<1>6. EchoInv /\ TalkInv => E!TypeOK
  BY DEF EchoInv, EchoTyped, Sockets, TalkInv, TalkTyped, E!TypeOK
<1>7. AptInv => G!TypeOK BY DEF AptInv, AptTyped, G!TypeOK
<1>8. Shape /\ WakeInv /\ EventTyped /\ WatchInv /\ DotInv /\ AddInv /\ EchoInv /\ TalkInv /\ AptInv => TypesOK
  BY <1>1, <1>2, <1>3, <1>4, <1>5, <1>6, <1>7 DEF TypesOK
<1> QED
  BY <1>8, AlwaysShape, WakeAlways, EventAlways, WatchAlways, DotAlways, AddAlways, EchoAlways, TalkAlways,
     AptAlways, PTL
=============================================================================
