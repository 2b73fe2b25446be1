---------------------------- MODULE DotProduct ----------------------------
(***************************************************************************)
(* using-mutexes.c: each thread adds up its slice of a dot product and adds*)
(* that to a shared sum under a mutex; main joins them and prints the sum. *)
(* A sum is how often the product of each index is in it.                  *)
(***************************************************************************)
EXTENDS Integers

CONSTANTS NUMTHRDS, VECLEN

Offsets == 0 .. NUMTHRDS - 1
Indices == 0 .. NUMTHRDS * VECLEN - 1
Free == -1     \* mutexsum is not locked
SumOf(S) == [k \in Indices |-> IF k \in S THEN 1 ELSE 0]
Nothing == SumOf({})

VARIABLES
  sum, mutexsum,
  mysum,    \* of each thread
  loaded,   \* the sum a thread has read and not yet written back
  place,    \* where each thread is
  progress,     \* how many threads main has created and joined
  output        \* what main has printed, as a sum

vars == <<sum, mutexsum, mysum, loaded, place, progress, output>>

Init ==
  /\ sum = Nothing /\ mutexsum = Free
  /\ mysum = [t \in Offsets |-> Nothing] /\ loaded = [t \in Offsets |-> Nothing]
  /\ place = [t \in Offsets |-> "none"]
  /\ progress = [created |-> 0, joined |-> 0] /\ output = Nothing

Steps(t, from, to) == place[t] = from /\ place' = [place EXCEPT ![t] = to]

Create ==
  /\ progress.created < NUMTHRDS /\ Steps(progress.created, "none", "multiply")
  /\ progress' = [progress EXCEPT !.created = @ + 1]
  /\ UNCHANGED <<sum, mutexsum, mysum, loaded, output>>

Multiply(t) ==
  /\ Steps(t, "multiply", "lock")
  /\ mysum' = [mysum EXCEPT ![t] = SumOf(t * VECLEN .. (t + 1) * VECLEN - 1)]
  /\ UNCHANGED <<sum, mutexsum, loaded, progress, output>>

LocksNothing(t) ==                \* mutant: the mutex is the thread's own
  /\ Steps(t, "lock", "load")
  /\ UNCHANGED <<sum, mutexsum, mysum, loaded, progress, output>>
LockSum(t) ==
  /\ mutexsum = Free /\ Steps(t, "lock", "load")
  /\ mutexsum' = t
  /\ UNCHANGED <<sum, mysum, loaded, progress, output>>

(* dotstr.sum += mysum reads the sum and then writes it.                   *)
LoadSum(t) ==
  /\ Steps(t, "load", "store")
  /\ loaded' = [loaded EXCEPT ![t] = sum]
  /\ UNCHANGED <<sum, mutexsum, mysum, progress, output>>

StoreSum(t) ==
  /\ Steps(t, "store", "unlock")
  /\ sum' = [k \in Indices |-> loaded[t][k] + mysum[t][k]]
  /\ UNCHANGED <<mutexsum, mysum, loaded, progress, output>>

UnlockSum(t) ==
  /\ Steps(t, "unlock", "exited")
  /\ mutexsum' = Free
  /\ UNCHANGED <<sum, mysum, loaded, progress, output>>

Join ==
  /\ progress.created = NUMTHRDS /\ progress.joined < NUMTHRDS /\ place[progress.joined] = "exited"
  /\ progress' = [progress EXCEPT !.joined = @ + 1]
  /\ UNCHANGED <<sum, mutexsum, mysum, loaded, place, output>>

PrintSum ==
  /\ progress.joined = NUMTHRDS /\ output = Nothing
  /\ output' = sum
  /\ UNCHANGED <<sum, mutexsum, mysum, loaded, place, progress>>

dotprod(t) ==
  \/ Multiply(t) \/ LockSum(t) \/ LoadSum(t) \/ StoreSum(t) \/ UnlockSum(t)
Next == Create \/ Join \/ PrintSum \/ \E t \in Offsets : dotprod(t)
Spec == Init /\ [][Next]_vars

-----------------------------------------------------------------------------
TypeOK ==
  /\ sum \in [Indices -> Nat]
  /\ mutexsum \in Offsets \cup {Free}
  /\ progress \in [created : 0 .. NUMTHRDS, joined : 0 .. NUMTHRDS]

(* Whatever order the threads run in, the sum that is printed has the      *)
(* product of every index once: no slice is missing, none is added twice,  *)
(* and main does not print before the last of them is in.                  *)
PrintedSumComplete == output # Nothing => output = SumOf(Indices)
=============================================================================
