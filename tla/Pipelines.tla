----------------------------- MODULE Pipelines -----------------------------
(***************************************************************************)
(* Networks of pipes and threads: the pipelines of pipe_util.c (a chain, a *)
(* chain whose last size is 0, parallel instances of one processor) and    *)
(* the ring of thread_ring.c.  A pipe is what PipeFifo says of one without *)
(* a limit: a queue and the holders of its producer and consumer handles.  *)
(***************************************************************************)
EXTENDS Integers, Sequences, SequencesExt

CONSTANTS
  Kinds,     \* subset of {"chain", "sink", "parallel", "ring"}
  Workers,   \* processors of a chain, instances, or THREADS of the ring
  DEFAULT_BUFFER_SIZE,
  Elements,  \* how many elements the caller pushes into a pipeline
  Passes     \* the arguments thread_ring may be given

Workerset == 1 .. Workers
Pipes == 1 .. Workers + 1
Owner == 0       \* holds the pipe_t, which is a producer and a consumer
User == -1       \* holds the handles of the pipeline_t

VARIABLES
  kind,      \* which network this is
  queue, writers, readers,  \* of each pipe
  main, at,  \* where main is, and the stage, instance or pipe it is at
  worker,    \* where each thread is
  got,       \* what a thread has popped into its buffer
  handled,   \* what was passed to each processor
  result,    \* what the caller popped
  printed,   \* the threads of the ring that printed their number
  passes     \* argv[1]

pipev == <<queue, writers, readers>>
vars == <<kind, pipev, main, at, worker, got, handled, result, printed, passes>>

In(i) == IF kind = "parallel" THEN 1 ELSE i
Out(i) == CASE kind = "parallel" -> 2
            [] kind = "ring" -> (i % Workers) + 1
            [] OTHER -> i + 1

Init ==
  /\ kind \in Kinds
  /\ queue = [p \in Pipes |-> <<>>]
  /\ writers = [p \in Pipes |-> {}] /\ readers = [p \in Pipes |-> {}]
  /\ main = "new" /\ at = 1
  /\ worker = [i \in Workerset |-> "none"]
  /\ got = [i \in Workerset |-> <<>>] /\ handled = [i \in Workerset |-> <<>>]
  /\ result = <<>> /\ printed = {}
  /\ passes \in IF kind = "ring" THEN Passes ELSE {0}

NewUncounted == {}                \* mutant: pipe_new counts no handles
New == {Owner}                    \* the holders of the handles of a new pipe

(* The pipe operations: handles issued to writer set ws and reader set rs, *)
(* a push, which is lost when nobody reads, and a pop of at most n.        *)
Issue(p, ws, rs) ==
  /\ writers' = [writers EXCEPT ![p] = @ \cup ws]
  /\ readers' = [readers EXCEPT ![p] = @ \cup rs]
pipe_free(p) ==
  /\ writers' = [writers EXCEPT ![p] = @ \ {Owner}]
  /\ readers' = [readers EXCEPT ![p] = @ \ {Owner}]
Push(p, es) ==
  queue' = IF readers[p] = {} THEN queue ELSE [queue EXCEPT ![p] = @ \o es]
Takes(p, n) == IF n <= Len(queue[p]) THEN n ELSE Len(queue[p])
Pop(p, n) == queue' = [queue EXCEPT ![p] = SubSeq(@, Takes(p, n) + 1, Len(@))]
Ended(p) == queue[p] = <<>> /\ writers[p] = {}

Go(label, i) == main' = label /\ at' = i
Spawn(i) == worker' = [worker EXCEPT ![i] = "pop"]
Rest == <<got, handled, result, printed, passes, kind>>

-----------------------------------------------------------------------------
(* pipe_pipeline: the trivial pipeline of the first pipe, then one stage   *)
(* after the other, then pipe_free of the first.                           *)
pipe_pipeline ==
  /\ kind \in {"chain", "sink"} /\ main = "new"
  /\ Issue(1, New \cup {User}, New \cup {User})
  /\ Go("stage", 1) /\ UNCHANGED <<queue, worker, Rest>>

(* va_pipe_pipeline with a processor and a size: a new pipe; the stage's   *)
(* thread takes over the last consumer handle, then the new pipe's         *)
(* consumer handle is issued and the pipe freed.                           *)
StageConnect ==
  /\ main = "stage" /\ at <= Workers /\ ~(kind = "sink" /\ at = Workers)
  /\ writers' = [writers EXCEPT ![at + 1] = New \cup {at}]
  /\ readers' = [readers EXCEPT ![at] = (@ \ {User}) \cup {at}, ![at + 1] = New]
  /\ Spawn(at) /\ Go("stage_out", at) /\ UNCHANGED <<queue, Rest>>

StageOut ==
  /\ main = "stage_out"
  /\ Issue(at + 1, {}, {User})
  /\ Go("stage_free", at) /\ UNCHANGED <<queue, worker, Rest>>

StageFree ==
  /\ main = "stage_free"
  /\ pipe_free(at + 1)
  /\ Go("stage", at + 1) /\ UNCHANGED <<queue, worker, Rest>>

(* A size of 0 frees the consumer of the last pipe.                        *)
StageSink ==
  /\ main = "stage" /\ kind = "sink" /\ at = Workers
  /\ readers' = [readers EXCEPT ![at] = @ \ {User}]
  /\ Go("stage", Workers + 1) /\ UNCHANGED <<writers, queue, worker, Rest>>

PipelineReturn ==
  /\ main = "stage" /\ at > Workers
  /\ pipe_free(1)
  /\ Go("feed", 1) /\ UNCHANGED <<queue, worker, Rest>>

(* pipe_parallel: both pipes, the instances, the pipeline, both pipe_free. *)
ParallelNew ==
  /\ kind = "parallel" /\ main = "new"
  /\ writers' = [p \in Pipes |-> IF p \in {1, 2} THEN New ELSE {}]
  /\ readers' = writers'
  /\ Go("instance", 1) /\ UNCHANGED <<queue, worker, Rest>>

Instance ==
  /\ main = "instance" /\ at <= Workers
  /\ writers' = [writers EXCEPT ![2] = @ \cup {at}]
  /\ readers' = [readers EXCEPT ![1] = @ \cup {at}]
  /\ Spawn(at) /\ Go("instance", at + 1) /\ UNCHANGED <<queue, Rest>>

ParallelHandles ==
  /\ main = "instance" /\ at > Workers
  /\ writers' = [writers EXCEPT ![1] = @ \cup {User}]
  /\ readers' = [readers EXCEPT ![2] = @ \cup {User}]
  /\ Go("free", 1) /\ UNCHANGED <<queue, worker, Rest>>

ParallelFree ==
  /\ main = "free"
  /\ pipe_free(at)
  /\ IF at = 1 THEN Go("free", 2) ELSE Go("feed", 1)
  /\ UNCHANGED <<queue, worker, Rest>>

(* The caller, as the tests do: pushes, frees the producer handle, pops    *)
(* until 0, frees the consumer handle.                                     *)
Feed ==
  /\ main = "feed" /\ at <= Elements
  /\ Push(1, <<at>>)
  /\ Go("feed", at + 1) /\ UNCHANGED <<writers, readers, worker, Rest>>

FeedEnd ==
  /\ main = "feed" /\ at > Elements
  /\ writers' = [writers EXCEPT ![1] = @ \ {User}]
  /\ Go(IF kind = "sink" THEN "done" ELSE "drain", Out(Workers))
  /\ UNCHANGED <<queue, readers, worker, Rest>>

Drain ==
  /\ main = "drain" /\ queue[at] # <<>>
  /\ result' = result \o queue[at] /\ Pop(at, Len(queue[at]))
  /\ UNCHANGED <<kind, writers, readers, main, at, worker, got, handled, printed, passes>>

DrainEnd ==
  /\ main = "drain" /\ Ended(at)
  /\ readers' = [readers EXCEPT ![at] = @ \ {User}]
  /\ Go("done", at) /\ UNCHANGED <<queue, writers, worker, Rest>>

-----------------------------------------------------------------------------
(* process_pipe: pipe_pop until the buffer is full or the pipe has ended,  *)
(* a call for what it popped, a last call with no elements, and then the   *)
(* consumer handle and the producer handle are freed.                      *)
At(i, label) == worker[i] = label
Becomes(i, label) == worker' = [worker EXCEPT ![i] = label]
MainRest == <<kind, main, at, result, printed, passes>>

PopRound(i) ==
  /\ At(i, "pop") /\ kind # "ring" /\ queue[In(i)] # <<>>
  /\ LET n == Takes(In(i), DEFAULT_BUFFER_SIZE - Len(got[i]))
         buf == got[i] \o SubSeq(queue[In(i)], 1, n)
     IN  /\ got' = [got EXCEPT ![i] = buf]
         /\ Becomes(i, IF Len(buf) = DEFAULT_BUFFER_SIZE THEN "call" ELSE "pop")
         /\ Pop(In(i), n)
  /\ UNCHANGED <<writers, readers, handled, MainRest>>

PopEndedDropsRest(i) ==           \* mutant: a buffer that is not full is dropped
  /\ At(i, "pop") /\ kind # "ring" /\ Ended(In(i))
  /\ Becomes(i, "last")
  /\ UNCHANGED <<pipev, got, handled, MainRest>>
PopEnded(i) ==
  /\ At(i, "pop") /\ kind # "ring" /\ Ended(In(i))
  /\ Becomes(i, IF got[i] = <<>> THEN "last" ELSE "call")
  /\ UNCHANGED <<pipev, got, handled, MainRest>>

(* The processor, the caller's: it pushes one element for each it is given.*)
Call(i) ==
  /\ At(i, "call")
  /\ handled' = [handled EXCEPT ![i] = @ \o got[i]]
  /\ Push(Out(i), got[i])
  /\ got' = [got EXCEPT ![i] = <<>>]
  /\ Becomes(i, "pop")
  /\ UNCHANGED <<writers, readers, MainRest>>

LastCall(i) ==
  /\ At(i, "last")
  /\ Becomes(i, "free_in")
  /\ UNCHANGED <<pipev, got, handled, MainRest>>

FreeInOnly(i) ==                  \* mutant: the producer handle is kept
  /\ At(i, "free_in")
  /\ readers' = [readers EXCEPT ![In(i)] = @ \ {i}]
  /\ Becomes(i, "ended")
  /\ UNCHANGED <<queue, writers, got, handled, MainRest>>
FreeIn(i) ==
  /\ At(i, "free_in")
  /\ readers' = [readers EXCEPT ![In(i)] = @ \ {i}]
  /\ Becomes(i, IF kind = "ring" THEN "ended" ELSE "free_out")
  /\ UNCHANGED <<queue, writers, got, handled, MainRest>>

FreeOut(i) ==
  /\ At(i, "free_out")
  /\ writers' = [writers EXCEPT ![Out(i)] = @ \ {i}]
  /\ Becomes(i, IF kind = "ring" THEN "free_in" ELSE "ended")
  /\ UNCHANGED <<queue, readers, got, handled, MainRest>>

-----------------------------------------------------------------------------
(* thread_ring.  `first` is the producer handle the last thread will own;  *)
(* main pushes the token through it.                                       *)
RingNew ==
  /\ kind = "ring" /\ main = "new"
  /\ Issue(1, New \cup {Workers}, New)
  /\ Go("thread_in", 1) /\ UNCHANGED <<queue, worker, Rest>>

RingIn ==
  /\ main = "thread_in"
  /\ Issue(at, {}, {at})
  /\ Go("thread_free", at) /\ UNCHANGED <<queue, worker, Rest>>

RingFree ==
  /\ main = "thread_free"
  /\ pipe_free(at)
  /\ Go(IF at = Workers THEN "thread" ELSE "thread_out", at)
  /\ UNCHANGED <<queue, worker, Rest>>

RingOut ==
  /\ main = "thread_out"
  /\ Issue(at + 1, New \cup {at}, New)
  /\ Go("thread", at) /\ UNCHANGED <<queue, worker, Rest>>

spawn_thread ==
  /\ main = "thread"
  /\ Spawn(at)
  /\ IF at = Workers THEN Go("token", at) ELSE Go("thread_in", at + 1)
  /\ UNCHANGED <<pipev, Rest>>

Token ==
  /\ main = "token"
  /\ Push(1, <<passes>>)
  /\ Go("join", Workers) /\ UNCHANGED <<writers, readers, worker, Rest>>

(* Only the thread spawned last is joined; the return ends the process.    *)
Join ==
  /\ main = "join" /\ worker[at] = "ended"
  /\ Go("exit", at) /\ UNCHANGED <<pipev, worker, Rest>>

(* thread_func: the token is printed for at 0 and passed on otherwise; the *)
(* handles are freed, the producer's first.                                *)
DecrementsFirst(i, n) ==          \* mutant: --n before the test
  IF n - 1 = 0 THEN Becomes(i, "free_out") /\ printed' = printed \cup {i} /\ Pop(In(i), 1)
  ELSE /\ queue' = [queue EXCEPT ![In(i)] = Tail(@), ![Out(i)] = Append(@, n - 1)]
       /\ UNCHANGED <<worker, printed>>
PassOn(i, n) ==
  IF n = 0 THEN Becomes(i, "free_out") /\ printed' = printed \cup {i} /\ Pop(In(i), 1)
  ELSE /\ queue' = [queue EXCEPT ![In(i)] = Tail(@), ![Out(i)] = Append(@, n - 1)]
       /\ UNCHANGED <<worker, printed>>

RingPop(i) ==
  /\ kind = "ring" /\ At(i, "pop") /\ queue[In(i)] # <<>>
  /\ PassOn(i, Head(queue[In(i)]))
  /\ UNCHANGED <<kind, writers, readers, got, handled, main, at, result, passes>>

RingEnded(i) ==
  /\ kind = "ring" /\ At(i, "pop") /\ Ended(In(i))
  /\ Becomes(i, "free_out")
  /\ UNCHANGED <<pipev, got, handled, MainRest>>

-----------------------------------------------------------------------------
Main ==
  \/ pipe_pipeline \/ StageConnect \/ StageOut \/ StageFree \/ StageSink \/ PipelineReturn
  \/ ParallelNew \/ Instance \/ ParallelHandles \/ ParallelFree
  \/ Feed \/ FeedEnd \/ Drain \/ DrainEnd
  \/ RingNew \/ RingIn \/ RingFree \/ RingOut \/ spawn_thread \/ Token \/ Join
Worker(i) ==
  /\ main # "exit"
  /\ \/ PopRound(i) \/ PopEnded(i) \/ Call(i) \/ LastCall(i)
     \/ FreeIn(i) \/ FreeOut(i) \/ RingPop(i) \/ RingEnded(i)
Next == Main \/ \E i \in Workerset : Worker(i)
Spec == Init /\ [][Next]_vars

(* The scheduler runs every thread that can go on.  Under CallerWaits the  *)
(* caller of a pipeline keeps its producer handle, to push more when it    *)
(* has seen what came of the first elements.                               *)
FairSpec == Spec /\ WF_vars(Main) /\ \A i \in Workerset : WF_vars(Worker(i))
CallerWaits ==
  /\ Init /\ [][Next /\ ~(main = "feed" /\ main' # "feed")]_vars
  /\ \A i \in Workerset : WF_vars(Worker(i))

-----------------------------------------------------------------------------
Labels == {"none", "pop", "call", "last", "free_in", "free_out", "ended"}
TypeOK ==
  /\ queue \in [Pipes -> Seq(Nat)] /\ got \in [Workerset -> Seq(Nat)]
  /\ writers \in [Pipes -> SUBSET (Workerset \cup {Owner, User})]
  /\ readers \in [Pipes -> SUBSET (Workerset \cup {Owner, User})]
  /\ worker \in [Workerset -> Labels]

Pushed == [k \in 1 .. Elements |-> k]

(* A pipeline gives its caller what it was given, a chain in order: nothing*)
(* is lost at the end of a pipe, where a processor may hold part of a      *)
(* buffer, and no processor of a chain has ended with less than everything.*)
ResultComplete ==
  /\ kind = "chain" => IsPrefix(result, Pushed)
  /\ kind \in {"chain", "parallel"} /\ main = "done" =>
       Len(result) = Elements /\ ToSet(result) = ToSet(Pushed)
  /\ kind \in {"chain", "sink"} => \A i \in Workerset :
       At(i, "ended") => handled[i] = Pushed

(* Once a pipe has lost its last handle of one kind it never gets another: *)
(* what main still has to issue is issued while its pipe_t holds both      *)
(* kinds, whatever the threads already running do meanwhile.               *)
EndsAreFinal ==
  [][\A p \in Pipes :
       /\ writers[p] = {} /\ readers[p] # {} => writers'[p] = {}
       /\ readers[p] = {} /\ writers[p] # {} => readers'[p] = {}]_vars

(* A thread that has ended holds nothing, one that has not holds both its  *)
(* handles; when all of a pipeline is over no handle of any pipe is left.  *)
HandlesFreed ==
  /\ \A i \in Workerset :
       /\ At(i, "ended") => \A p \in Pipes : i \notin writers[p] \cup readers[p]
       /\ worker[i] \in {"pop", "call", "last"} =>
            i \in readers[In(i)] /\ i \in writers[Out(i)]
  /\ main = "done" /\ (\A i \in Workerset : worker[i] \in {"none", "ended"}) =>
       \A p \in Pipes : writers[p] \cup readers[p] = {}

(* Thread (N mod THREADS) + 1, and no other, prints its number, and the    *)
(* process does not end before.                                            *)
RingAnswer ==
  kind = "ring" => LET last == (passes % Workers) + 1 IN
    printed \subseteq {last} /\ (main = "exit" => printed = {last})


(* pipe_util.h:92-94: "As data is recieved in one end, it is processed by  *)
(* each of the pipes and pushed into the other end."                       *)
ProcessedAsReceived ==
  \A i \in Workerset, k \in 1 .. Elements :
    (main = "feed" /\ at > k) ~> (k \in ToSet(handled[i]))
=============================================================================
