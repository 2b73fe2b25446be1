---------------------------- MODULE CountWatch ----------------------------
(***************************************************************************)
(* using-condition-variables.c: two threads count up, a third one sleeps   *)
(* on a condition variable until the count has reached its limit and adds  *)
(* 125, main joins the three in turn.                                      *)
(***************************************************************************)
EXTENDS Integers

CONSTANTS TCOUNT, COUNT_LIMIT,
  Bonus  \* what watch_count adds

Watcher == 0
Counters == {1, 2}
Free == -1    \* count_mutex is not locked

VARIABLES
  count,
  count_mutex,  \* its holder
  step,         \* where each thread is
  i,            \* the loop index of each inc_count
  woken,        \* how often pthread_cond_wait has returned
  joined        \* how many threads main has joined

vars == <<count, count_mutex, step, i, woken, joined>>
ThreadIds == Counters \cup {Watcher}

Init ==
  /\ count = 0 /\ count_mutex = Free /\ woken = 0 /\ joined = 0
  /\ step = [t \in ThreadIds |-> "lock"]
  /\ i = [t \in Counters |-> 0]

Moves(t, from, to) == step[t] = from /\ step' = [step EXCEPT ![t] = to]

Lock(t) ==
  /\ t \in Counters => i[t] < TCOUNT
  /\ count_mutex = Free /\ Moves(t, "lock", "locked")
  /\ count_mutex' = t
  /\ UNCHANGED <<count, i, woken, joined>>

(* inc_count, in its critical section.  The signal moves the watcher, if   *)
(* it sleeps, to the threads that want the mutex.                          *)
SignalsBeforeCounting(t) ==       \* mutant: count is tested before count++
  /\ step[t] = "locked" /\ count' = count + 1
  /\ step' = [step EXCEPT ![t] = "unlock",
       ![Watcher] = IF count = COUNT_LIMIT /\ @ = "sleep" THEN "relock" ELSE @]
  /\ UNCHANGED <<count_mutex, i, woken, joined>>
Increment(t) ==
  /\ step[t] = "locked" /\ count' = count + 1
  /\ step' = [step EXCEPT ![t] = "unlock",
       ![Watcher] = IF count' = COUNT_LIMIT /\ @ = "sleep" THEN "relock" ELSE @]
  /\ UNCHANGED <<count_mutex, i, woken, joined>>

Unlock(t) ==
  /\ Moves(t, "unlock", IF i[t] + 1 = TCOUNT THEN "ended" ELSE "lock")
  /\ count_mutex' = Free /\ i' = [i EXCEPT ![t] = @ + 1]
  /\ UNCHANGED <<count, woken, joined>>

(* watch_count, from the test of its loop to pthread_cond_wait or the end. *)
WaitsOnce ==                      \* mutant: if for while, and no test at first
  /\ Moves(Watcher, "locked", IF woken = 0 THEN "sleep" ELSE "ended")
  /\ count_mutex' = Free
  /\ UNCHANGED <<count, i, woken, joined>>
Watch ==
  /\ Moves(Watcher, "locked", IF count < COUNT_LIMIT THEN "sleep" ELSE "ended")
  /\ count_mutex' = Free
  /\ UNCHANGED <<count, i, woken, joined>>

SpuriousWakeup ==
  /\ Moves(Watcher, "sleep", "relock")
  /\ UNCHANGED <<count, count_mutex, i, woken, joined>>

WokenStale ==                     \* mutant: adds to the count the test has read
  /\ count_mutex = Free /\ Moves(Watcher, "relock", "locked")
  /\ count_mutex' = Watcher
  /\ count' = COUNT_LIMIT + Bonus /\ woken' = woken + 1
  /\ UNCHANGED <<i, joined>>
Woken ==
  /\ count_mutex = Free /\ Moves(Watcher, "relock", "locked")
  /\ count_mutex' = Watcher
  /\ count' = count + Bonus /\ woken' = woken + 1
  /\ UNCHANGED <<i, joined>>

(* main joins the watcher first, then the two that count.                  *)
Join ==
  /\ joined <= 2 /\ step[joined] = "ended"
  /\ joined' = joined + 1
  /\ UNCHANGED <<count, count_mutex, step, i, woken>>

Thread(t) ==
  \/ Lock(t)
  \/ t \in Counters /\ (Increment(t) \/ Unlock(t))
  \/ t = Watcher /\ (Watch \/ Woken)
Next == Join \/ SpuriousWakeup \/ \E t \in ThreadIds : Thread(t)
Spec == Init /\ [][Next]_vars

-----------------------------------------------------------------------------
TypeOK ==
  /\ count \in Nat /\ woken \in Nat /\ joined \in 0 .. 3
  /\ count_mutex \in ThreadIds \cup {Free}
  /\ i \in [Counters -> 0 .. TCOUNT]

(* No increment is lost, and the watcher, which may begin before, between  *)
(* or after the increments and may be woken for no reason, adds its 125 at *)
(* most once.                                                              *)
CountExact ==
  /\ woken <= 1
  /\ joined = 3 => count = 2 * TCOUNT + woken * Bonus

(* "if COUNT_LIMIT is reached before this routine is run by the waiting    *)
(* thread, the loop will be skipped to prevent pthread_cond_wait from      *)
(* never returning" (line 52): every thread ends and main joins them all.  *)
AllJoined == <>(joined = 3)
=============================================================================
