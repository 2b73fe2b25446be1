----------------------------- MODULE PipeFifo -----------------------------
(***************************************************************************)
(* What pipe.h promises of a pipe: one first-in first-out queue shared by  *)
(* the holders of producer and consumer handles.  A push appends whole     *)
(* elements of one producer, the next ones it has not pushed yet; a pop    *)
(* takes whole elements from the front; a consumer is told that no more    *)
(* will come only when the queue is empty and every producer handle, the   *)
(* owner's included, is gone; what is in the queue is lost only when the   *)
(* last consumer handle is.                                                *)
(***************************************************************************)
EXTENDS Integers, Sequences

CONSTANTS Producers, Consumers,
          Main,      \* holds a producer and a consumer handle from the start
          ElemSize,  \* bytes of an element
          Cap        \* bytes the pipe may hold

VARIABLES queue,     \* the bytes in the pipe, each <<producer, position>>
          writers, readers,   \* the holders of producer and consumer handles
          sent, target, eof

vars == <<queue, writers, readers, sent, target, eof>>

Init ==
  /\ queue = <<>>
  /\ writers = {Main} /\ readers = {Main}
  /\ sent = [p \in Producers |-> 0]
  /\ target = [c \in Consumers |-> <<>>]
  /\ eof = {}

Whole(k) == k > 0 /\ k % ElemSize = 0

NextBytes(p, k) == [i \in 1 .. k |-> <<p, sent[p] + i - 1>>]

(* Only the owner, while it holds its own handle, issues another.          *)
IssueWriter(p) ==
  /\ Main \in writers /\ p \notin writers
  /\ writers' = writers \cup {p}
  /\ UNCHANGED <<queue, readers, sent, target, eof>>

IssueReader(c) ==
  /\ Main \in readers /\ c \notin readers
  /\ readers' = readers \cup {c}
  /\ UNCHANGED <<queue, writers, sent, target, eof>>

Push(p) ==
  /\ p \in writers /\ readers # {}
  /\ \E k \in 1 .. Cap - Len(queue) :
       /\ Whole(k)
       /\ sent' = [sent EXCEPT ![p] = @ + k]
       /\ queue' = queue \o NextBytes(p, k)
  /\ UNCHANGED <<writers, readers, target, eof>>

Pop(c) ==
  /\ c \in readers /\ c \notin eof
  /\ \E k \in 1 .. Len(queue) :
       /\ Whole(k)
       /\ target' = [target EXCEPT ![c] = @ \o SubSeq(queue, 1, k)]
       /\ queue' = SubSeq(queue, k + 1, Len(queue))
  /\ UNCHANGED <<writers, readers, sent, eof>>

Eof(c) ==
  /\ c \in readers
  /\ queue = <<>> /\ writers = {}
  /\ eof' = eof \cup {c}
  /\ UNCHANGED <<queue, writers, readers, sent, target>>

CloseWriter(t) ==
  /\ t \in writers
  /\ writers' = writers \ {t}
  /\ UNCHANGED <<queue, readers, sent, target, eof>>

CloseReader(t) ==
  /\ t \in readers
  /\ readers' = readers \ {t}
  /\ queue' = queue \/ (readers' = {} /\ queue' = <<>>)
  /\ UNCHANGED <<writers, sent, target, eof>>

Discard ==
  /\ readers = {}
  /\ queue' = <<>>
  /\ UNCHANGED <<writers, readers, sent, target, eof>>

Next ==
  \/ \E p \in Producers : IssueWriter(p) \/ Push(p)
  \/ \E c \in Consumers : IssueReader(c) \/ Pop(c) \/ Eof(c)
  \/ \E t \in Producers \cup Consumers \cup {Main} : CloseWriter(t) \/ CloseReader(t)
  \/ Discard

Spec == Init /\ [][Next]_vars
===========================================================================
