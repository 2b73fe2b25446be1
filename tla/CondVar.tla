------------------------------ MODULE CondVar ------------------------------
(***************************************************************************)
(* The condition variable pipe.c makes for a Windows older than Vista: a   *)
(* manual-reset event, the count of the waiters, the count of those to be  *)
(* released and a generation.  The critical sections are atomic; what      *)
(* cond_wait does outside of them are steps of their own.                  *)
(***************************************************************************)
EXTENDS Integers

CONSTANTS
  Threads,  \* the threads that wait on the condition variable
  Waits,    \* how often each of them calls cond_wait
  Wakes     \* how often others call cond_signal or cond_broadcast

Nobody == "nobody"

VARIABLES
  waiters_count, release_count, wait_generation_count, event,
  mutex,          \* the holder of m
  my_generation,  \* the local of each cond_wait
  label,          \* where each thread is
  heard,          \* the strongest wake since the thread began to wait
  waits, wakes    \* the calls made so far

counts == <<waiters_count, release_count, wait_generation_count, event>>
calls == <<waits, wakes>>
vars == <<counts, mutex, my_generation, label, heard, calls>>

Init ==
  /\ waiters_count = 0 /\ release_count = 0 /\ wait_generation_count = 0
  /\ event = FALSE /\ mutex = Nobody
  /\ my_generation = [t \in Threads |-> 0]
  /\ label = [t \in Threads |-> "idle"]
  /\ heard = [t \in Threads |-> "nothing"]
  /\ waits = [t \in Threads |-> 0] /\ wakes = 0

Registered == {t \in Threads : label[t] \in {"unlock", "wait", "check", "relock", "leave"}}
Goes(t, from, to) == label[t] = from /\ label' = [label EXCEPT ![t] = to]
Tell(word) ==
  /\ wakes < Wakes /\ wakes' = wakes + 1
  /\ heard' = [t \in Threads |->
       IF t \in Registered /\ heard[t] # "broadcast" THEN word ELSE heard[t]]
  /\ UNCHANGED <<mutex, my_generation, label, waits>>

SignalsAnyway ==                  \* mutant: waiters_count > 0 is all that is asked
  /\ Tell("signal")
  /\ IF waiters_count > 0
     THEN /\ event' = TRUE
          /\ release_count' = release_count + 1
          /\ wait_generation_count' = wait_generation_count + 1
          /\ UNCHANGED waiters_count
     ELSE UNCHANGED counts
cond_signal ==
  /\ Tell("signal")
  /\ IF waiters_count > release_count
     THEN /\ event' = TRUE
          /\ release_count' = release_count + 1
          /\ wait_generation_count' = wait_generation_count + 1
          /\ UNCHANGED waiters_count
     ELSE UNCHANGED counts

cond_broadcast ==
  /\ Tell("broadcast")
  /\ IF waiters_count > 0
     THEN /\ event' = TRUE
          /\ release_count' = waiters_count
          /\ wait_generation_count' = wait_generation_count + 1
          /\ UNCHANGED waiters_count
     ELSE UNCHANGED counts

-----------------------------------------------------------------------------
(* cond_wait, called with m locked; Lock and Return are its caller's.      *)
Lock(t) ==
  /\ waits[t] < Waits /\ mutex = Nobody
  /\ Goes(t, "idle", "register")
  /\ mutex' = t /\ waits' = [waits EXCEPT ![t] = @ + 1]
  /\ UNCHANGED <<counts, my_generation, heard, wakes>>

Register(t) ==
  /\ Goes(t, "register", "unlock")
  /\ waiters_count' = waiters_count + 1
  /\ my_generation' = [my_generation EXCEPT ![t] = wait_generation_count]
  /\ UNCHANGED <<release_count, wait_generation_count, event, mutex, heard, calls>>

Unlock(t) ==
  /\ Goes(t, "unlock", "wait")
  /\ mutex' = Nobody
  /\ UNCHANGED <<counts, my_generation, heard, calls>>

WaitForEvent(t) ==
  /\ event /\ Goes(t, "wait", "check")
  /\ UNCHANGED <<counts, mutex, my_generation, heard, calls>>

WaitDoneOfAnyGeneration(t) ==     \* mutant: the generation is not compared
  release_count > 0
WaitDone(t) ==
  release_count > 0 /\ wait_generation_count # my_generation[t]

Check(t) ==
  /\ Goes(t, "check", IF WaitDone(t) THEN "relock" ELSE "wait")
  /\ UNCHANGED <<counts, mutex, my_generation, heard, calls>>

Relock(t) ==
  /\ mutex = Nobody /\ Goes(t, "relock", "leave")
  /\ mutex' = t
  /\ UNCHANGED <<counts, my_generation, heard, calls>>

Leave(t) ==
  /\ Goes(t, "leave", IF release_count = 1 THEN "reset" ELSE "return")
  /\ waiters_count' = waiters_count - 1
  /\ release_count' = release_count - 1
  /\ heard' = [heard EXCEPT ![t] = "nothing"]
  /\ UNCHANGED <<wait_generation_count, event, mutex, my_generation, calls>>

ResetEvent(t) ==
  /\ Goes(t, "reset", "return")
  /\ event' = FALSE
  /\ UNCHANGED <<waiters_count, release_count, wait_generation_count,
                 mutex, my_generation, heard, calls>>

Return(t) ==
  /\ Goes(t, "return", "idle")
  /\ mutex' = Nobody
  /\ UNCHANGED <<counts, my_generation, heard, calls>>

cond_wait(t) ==
  \/ Register(t) \/ Unlock(t) \/ WaitForEvent(t) \/ Check(t)
  \/ Relock(t) \/ Leave(t) \/ ResetEvent(t) \/ Return(t)
Next == cond_signal \/ cond_broadcast \/ \E t \in Threads : Lock(t) \/ cond_wait(t)
Spec == Init /\ [][Next]_vars

(* Every thread in cond_wait runs, and is given the mutex in the end.      *)
FairSpec == Spec /\ \A t \in Threads : WF_vars(cond_wait(t)) /\ SF_vars(Relock(t))

-----------------------------------------------------------------------------
TypeOK ==
  /\ waiters_count \in Int /\ release_count \in Int /\ wait_generation_count \in Nat
  /\ event \in BOOLEAN /\ mutex \in Threads \cup {Nobody}
  /\ my_generation \in [Threads -> Nat]
  /\ heard \in [Threads -> {"nothing", "signal", "broadcast"}]

(* A wake is for the threads that wait when it is sent: no thread goes on  *)
(* because of one sent before its cond_wait, even when a thread that wake  *)
(* was for has not run yet and the event is still set.                     *)
NoStolenWake ==
  \A t \in Threads : label[t] \in {"relock", "leave"} => heard[t] # "nothing"

(* No release is kept for a thread that comes later: there are never more  *)
(* of them than waiters, however the wakes and the departures mix.         *)
NoReleaseKept == release_count <= waiters_count

(* pipe.c:161, of cond_broadcast: "Release all the threads in this         *)
(* generation."                                                            *)
BroadcastReleasesAll ==
  \A t \in Threads : heard[t] = "broadcast" ~> heard[t] = "nothing"
=============================================================================
