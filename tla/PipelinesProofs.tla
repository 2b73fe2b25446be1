-------------------------- MODULE PipelinesProofs --------------------------
(***************************************************************************)
(* pipe_util.c and thread_ring.c for any number of threads, any buffer and *)
(* any number of elements: who holds which handle, where the token is, and *)
(* where each element is on its way from the caller to the caller.         *)
(***************************************************************************)
EXTENDS Programs, SequenceTheorems, FiniteSetTheorems, TLAPS

HolderSets == SUBSET (N!Workerset \cup {N!Owner, N!User})
HandlesTyped ==
  writers \in [N!Pipes -> HolderSets] /\ readers \in [N!Pipes -> HolderSets]
PlacesTyped ==
  /\ kind \in Kinds /\ at \in Nat /\ printed \subseteq N!Workerset
  /\ worker \in [N!Workerset -> N!Labels]
DataTyped ==
  /\ queue \in [N!Pipes -> Seq(Nat)] /\ passes \in Nat
  /\ got \in [N!Workerset -> Seq(Nat)] /\ handled \in [N!Workerset -> Seq(Nat)]
  /\ result \in Seq(Nat)
NetTyped == HandlesTyped /\ PlacesTyped /\ DataTyped

(* In which order main goes through its places, and what `at` is there.    *)

MainPlaces ==
  /\ main = "new" \/ main \in
       CASE kind = "ring" -> {"thread_in", "thread_free", "thread_out", "thread",
                              "token", "join", "exit"}
         [] kind = "parallel" -> {"instance", "free", "feed", "drain", "done"}
         [] OTHER -> {"stage", "stage_out", "stage_free", "feed", "drain", "done"}
  /\ main \in {"stage", "instance"} => at \in 1 .. Workers + 1
  /\ main \in {"stage_out", "stage_free", "thread_in", "thread_free", "thread_out", "thread"}
       => at \in 1 .. Workers
  /\ main = "thread_out" => at < Workers
  /\ main \in {"stage_out", "stage_free"} /\ kind = "sink" => at < Workers
  /\ main = "free" => at \in {1, 2}
  /\ main = "feed" => at \in 1 .. Elements + 1
  /\ main = "drain" => kind # "sink"
  /\ main \in {"drain", "done"} => at = N!Out(Workers)
  /\ main \in {"token", "join", "exit"} => at = Workers

(* The threads main has created: in a chain with a last size of 0 the last *)
(* processor has none.                                                     *)
Spawned(w) ==
  /\ main # "new" /\ ~(kind = "sink" /\ w = Workers)
  /\ main \in {"stage", "instance", "thread_in", "thread_free", "thread_out", "thread"} => w < at
  /\ main \in {"stage_out", "stage_free"} => w <= at
WorkerPlaces ==
  \A w \in N!Workerset :
    /\ worker[w] # "none" <=> Spawned(w)
    /\ kind = "ring" => worker[w] \notin {"call", "last"}

(* Who holds which handle.  A thread has its handles when it is created, a *)
(* thread of the ring the one it gets last a little before.                *)
Writes(w) ==
  \/ worker[w] \in {"pop", "call", "last", "free_out"}
  \/ worker[w] = "free_in" /\ kind # "ring"
  \/ /\ worker[w] = "none" /\ kind = "ring"
     /\ IF w = Workers THEN main # "new" ELSE main = "thread" /\ w = at
Reads(w) ==
  \/ worker[w] \in {"pop", "call", "last", "free_in"}
  \/ worker[w] = "free_out" /\ kind = "ring"
  \/ /\ worker[w] = "none" /\ kind = "ring"
     /\ w = at /\ main \in {"thread_free", "thread_out", "thread"}
OwnerAt(p) ==
  \/ main \in {"stage", "stage_out", "stage_free"} /\ p = 1
  \/ main \in {"stage_out", "stage_free"} /\ p = at + 1
  \/ main = "instance" /\ p \in {1, 2}
  \/ main = "free" /\ p \in at .. 2
  \/ main \in {"thread_in", "thread_free"} /\ p = at
  \/ main = "thread" /\ at < Workers /\ p = at + 1
UserWrites(p) ==
  main \in {"stage", "stage_out", "stage_free", "free", "feed"} /\ p = 1
UserReads(p) ==
  \/ main = "stage" /\ p = at /\ ~(kind = "sink" /\ at = Workers + 1)
  \/ main = "stage_free" /\ p = at + 1
  \/ main = "free" /\ p = 2
  \/ main \in {"feed", "drain"} /\ kind # "sink" /\ p = N!Out(Workers)
ThreadsWrite ==
  \A p \in N!Pipes, w \in N!Workerset : w \in writers[p] <=> p = N!Out(w) /\ Writes(w)
ThreadsRead ==
  \A p \in N!Pipes, w \in N!Workerset : w \in readers[p] <=> p = N!In(w) /\ Reads(w)
MainHolds ==
  \A p \in N!Pipes :
    /\ N!Owner \in writers[p] <=> OwnerAt(p)
    /\ N!Owner \in readers[p] <=> OwnerAt(p)
    /\ N!User \in writers[p] <=> UserWrites(p)
    /\ N!User \in readers[p] <=> UserReads(p)
Holders == ThreadsWrite /\ ThreadsRead /\ MainHolds

(* Until main has built its network nothing is on its way.                 *)
Building == main \notin {"feed", "drain", "done", "join", "exit"}
Early ==
  Building =>
    /\ \A p \in N!Pipes : queue[p] = <<>>
    /\ \A w \in N!Workerset :
         worker[w] \in {"none", "pop"} /\ got[w] = <<>> /\ handled[w] = <<>>
    /\ result = <<>> /\ printed = {}

(* A processor that pops has room in its buffer.                           *)
Room ==
  \A w \in N!Workerset :
    worker[w] \in {"none", "pop"} => Len(got[w]) < DEFAULT_BUFFER_SIZE

Shape == NetTyped /\ Room /\ MainPlaces /\ WorkerPlaces /\ Holders /\ Early

-----------------------------------------------------------------------------
LEMMA Numbers ==
  /\ Workers \in Nat \ {0} /\ Workers \in N!Workerset /\ 1 \in N!Workerset
  /\ 1 \in N!Pipes /\ 2 \in N!Pipes /\ Workers + 1 \in N!Pipes
  /\ N!Workerset \subseteq N!Pipes /\ N!Workerset \subseteq Nat
  /\ \A w \in N!Workerset : w + 1 \in N!Pipes
  /\ DEFAULT_BUFFER_SIZE \in Nat \ {0} /\ Elements \in Nat /\ Passes \subseteq Nat
  BY PipelinesAssumption DEF N!Workerset, N!Pipes

LEMMA OutIs ==
  ASSUME NEW w \in N!Workerset
  PROVE  /\ kind = "parallel" => N!Out(w) = 2
         /\ kind = "ring" => N!Out(w) = IF w = Workers THEN 1 ELSE w + 1
         /\ kind \notin {"parallel", "ring"} => N!Out(w) = w + 1
         /\ N!Out(w) \in N!Pipes /\ N!In(w) \in N!Pipes
<1>1. w \in 1 .. Workers /\ Workers \in Nat \ {0} BY PipelinesAssumption DEF N!Workerset
<1>2. w % Workers = IF w = Workers THEN 0 ELSE w BY <1>1
<1> QED BY <1>1, <1>2 DEF N!Out, N!In, N!Pipes

(* The types.                                                              *)
LEMMA Sets ==
  /\ {} \in HolderSets /\ {N!Owner} \in HolderSets /\ {N!User} \in HolderSets
  /\ \A w \in N!Workerset : {w} \in HolderSets
  /\ \A S, T \in HolderSets : S \cup T \in HolderSets /\ S \ T \in HolderSets
  BY DEF HolderSets

LEMMA HoldersKept ==
  ASSUME NEW h \in [N!Pipes -> HolderSets], NEW p, NEW S \in HolderSets
  PROVE  /\ [h EXCEPT ![p] = @ \cup S] \in [N!Pipes -> HolderSets]
         /\ [h EXCEPT ![p] = @ \ S] \in [N!Pipes -> HolderSets]
         /\ [h EXCEPT ![p] = S] \in [N!Pipes -> HolderSets]
  BY Sets

LEMMA Queues ==
  ASSUME DataTyped, NEW p \in N!Pipes, NEW n \in Nat
  PROVE  /\ N!Takes(p, n) \in 0 .. Len(queue[p]) /\ N!Takes(p, n) <= n
         /\ Len(queue[p]) \in Nat /\ queue[p] \in Seq(Nat)
         /\ \A m \in 0 .. Len(queue[p]) :
              /\ SubSeq(queue[p], 1, m) \in Seq(Nat) /\ Len(SubSeq(queue[p], 1, m)) = m
              /\ SubSeq(queue[p], m + 1, Len(queue[p])) \in Seq(Nat)
              /\ Len(SubSeq(queue[p], m + 1, Len(queue[p]))) = Len(queue[p]) - m
<1>1. queue[p] \in Seq(Nat) /\ Len(queue[p]) \in Nat
  BY LenProperties DEF DataTyped
<1>2. ASSUME NEW m \in 0 .. Len(queue[p])
      PROVE  /\ SubSeq(queue[p], 1, m) \in Seq(Nat) /\ Len(SubSeq(queue[p], 1, m)) = m
             /\ SubSeq(queue[p], m + 1, Len(queue[p])) \in Seq(Nat)
             /\ Len(SubSeq(queue[p], m + 1, Len(queue[p]))) = Len(queue[p]) - m
  <2>1. \A k \in 1 .. Len(queue[p]) : queue[p][k] \in Nat
    BY <1>1, ElementOfSeq
  <2>2. \A k \in 1 .. m : queue[p][k] \in Nat
    BY <1>1, <2>1
  <2>3. \A k \in m + 1 .. Len(queue[p]) : queue[p][k] \in Nat
    BY <1>1, <2>1
  <2>4. 1 \in Int /\ m \in Int /\ m + 1 \in Int /\ Len(queue[p]) \in Int
    BY <1>1
  <2>5. SubSeq(queue[p], 1, m) \in Seq(Nat)
        /\ Len(SubSeq(queue[p], 1, m)) = IF 1 <= m THEN (m - 1) + 1 ELSE 0
    BY <2>2, <2>4, SubSeqProperties
  <2>6. SubSeq(queue[p], m + 1, Len(queue[p])) \in Seq(Nat)
        /\ Len(SubSeq(queue[p], m + 1, Len(queue[p])))
             = IF m + 1 <= Len(queue[p]) THEN (Len(queue[p]) - (m + 1)) + 1 ELSE 0
    BY <2>3, <2>4, SubSeqProperties
  <2> QED BY <1>1, <2>5, <2>6
<1>3. N!Takes(p, n) \in 0 .. Len(queue[p]) /\ N!Takes(p, n) <= n
  BY <1>1 DEF N!Takes
<1> QED BY <1>1, <1>2, <1>3


LEMMA HandlesTypedStep ==
  ASSUME NetTyped, MainPlaces, [N!Next]_netv PROVE HandlesTyped'
<1> USE Sets DEF HandlesTyped, N!Issue, N!pipe_free, N!New, N!pipev
<1>1. CASE N!pipe_pipeline
  <2>1. {N!Owner} \cup {N!User} \in HolderSets OBVIOUS
  <2> QED BY <1>1, <2>1, HoldersKept DEF N!pipe_pipeline, NetTyped
<1>2. CASE N!StageConnect
  <2>1. at \in N!Workerset
    BY <1>2 DEF N!StageConnect, MainPlaces, N!Workerset
  <2>2. writers' \in [N!Pipes -> HolderSets]
    BY <1>2, <2>1 DEF N!StageConnect, NetTyped
  <2>3. readers' \in [N!Pipes -> HolderSets]
    BY <1>2, <2>1 DEF N!StageConnect, NetTyped
  <2> QED BY <2>2, <2>3
<1>3. CASE N!StageOut BY <1>3 DEF N!StageOut, NetTyped
<1>4. CASE N!StageFree BY <1>4 DEF N!StageFree, NetTyped
<1>5. CASE N!StageSink BY <1>5 DEF N!StageSink, NetTyped
<1>6. CASE N!PipelineReturn BY <1>6 DEF N!PipelineReturn, NetTyped
<1>7. CASE N!ParallelNew BY <1>7 DEF N!ParallelNew, NetTyped
<1>8. CASE N!Instance
  <2>1. at \in N!Workerset
    BY <1>8 DEF N!Instance, MainPlaces, N!Workerset
  <2> QED BY <1>8, <2>1 DEF N!Instance, NetTyped
<1>9. CASE N!ParallelHandles BY <1>9 DEF N!ParallelHandles, NetTyped
<1>10. CASE N!ParallelFree BY <1>10 DEF N!ParallelFree, NetTyped
<1>11. CASE N!FeedEnd BY <1>11 DEF N!FeedEnd, NetTyped
<1>12. CASE N!DrainEnd BY <1>12 DEF N!DrainEnd, NetTyped
<1>13. CASE N!RingNew BY <1>13, Numbers DEF N!RingNew, NetTyped
<1>14. CASE N!RingIn
  <2>1. at \in N!Workerset
    BY <1>14 DEF N!RingIn, MainPlaces, N!Workerset
  <2> QED BY <1>14, <2>1 DEF N!RingIn, NetTyped
<1>15. CASE N!RingFree BY <1>15 DEF N!RingFree, NetTyped
<1>16. CASE N!RingOut
  <2>1. at \in N!Workerset
    BY <1>16 DEF N!RingOut, MainPlaces, N!Workerset
  <2> QED BY <1>16, <2>1 DEF N!RingOut, NetTyped
<1>17. ASSUME NEW w \in N!Workerset, N!FreeIn(w) \/ N!FreeOut(w) PROVE HandlesTyped'
  <2>1. {w} \in HolderSets OBVIOUS
  <2>2. CASE N!FreeIn(w) BY <2>1, <2>2, HoldersKept DEF N!FreeIn, NetTyped
  <2>3. CASE N!FreeOut(w) BY <2>1, <2>3, HoldersKept DEF N!FreeOut, NetTyped
  <2> QED BY <1>17, <2>2, <2>3
<1>19. CASE UNCHANGED <<writers, readers>> BY <1>19 DEF NetTyped
<1>20. CASE N!Feed \/ N!Drain \/ N!spawn_thread \/ N!Token \/ N!Join
  BY <1>19, <1>20 DEF N!Feed, N!Drain, N!spawn_thread, N!Token, N!Join
<1>21. CASE \E w \in N!Workerset : N!PopRound(w) \/ N!PopEnded(w) \/ N!Call(w) \/ N!LastCall(w)
              \/ N!RingPop(w) \/ N!RingEnded(w)
  BY <1>19, <1>21 DEF N!PopRound, N!PopEnded, N!Call, N!LastCall, N!RingPop, N!RingEnded
<1>22. CASE UNCHANGED netv BY <1>19, <1>22 DEF netv
<1> QED
  BY <1>1, <1>2, <1>3, <1>4, <1>5, <1>6, <1>7, <1>8, <1>9, <1>10, <1>11, <1>12, <1>13, <1>14,
     <1>15, <1>16, <1>17, <1>20, <1>21, <1>22 DEF N!Next, N!Main, N!Worker

LEMMA PlacesTypedStep ==
  ASSUME NetTyped, [N!Next]_netv PROVE PlacesTyped'
<1> USE DEF PlacesTyped, N!Go, N!Spawn, N!Rest, N!At, N!Becomes, N!MainRest, N!pipev
<1>0. "pop" \in N!Labels /\ "call" \in N!Labels /\ "last" \in N!Labels /\ "ended" \in N!Labels
      /\ "free_in" \in N!Labels /\ "free_out" \in N!Labels
  BY DEF N!Labels
<1>1. PlacesTyped BY DEF NetTyped
<1>2. CASE N!Main
  <2>1. kind' = kind /\ printed' = printed
    BY <1>2 DEF N!Main, N!pipe_pipeline, N!StageConnect, N!StageOut, N!StageFree, N!StageSink,
      N!PipelineReturn, N!ParallelNew, N!Instance, N!ParallelHandles, N!ParallelFree, N!Feed,
      N!FeedEnd, N!Drain, N!DrainEnd, N!RingNew, N!RingIn, N!RingFree, N!RingOut,
      N!spawn_thread, N!Token, N!Join
  <2>2. N!Out(Workers) \in Nat /\ 1 \in Nat /\ 2 \in Nat /\ Workers \in Nat
        /\ Workers + 1 \in Nat /\ at \in Nat /\ at + 1 \in Nat
    BY <1>1, OutIs, Numbers DEF N!Pipes
  <2>3. at' \in Nat
    BY <1>2, <2>2 DEF N!Main, N!pipe_pipeline, N!StageConnect, N!StageOut, N!StageFree, N!StageSink,
      N!PipelineReturn, N!ParallelNew, N!Instance, N!ParallelHandles, N!ParallelFree, N!Feed,
      N!FeedEnd, N!Drain, N!DrainEnd, N!RingNew, N!RingIn, N!RingFree, N!RingOut,
      N!spawn_thread, N!Token, N!Join
  <2>4. worker' = worker \/ worker' = [worker EXCEPT ![at] = "pop"]
    BY <1>2 DEF N!Main, N!pipe_pipeline, N!StageConnect, N!StageOut, N!StageFree, N!StageSink,
      N!PipelineReturn, N!ParallelNew, N!Instance, N!ParallelHandles, N!ParallelFree, N!Feed,
      N!FeedEnd, N!Drain, N!DrainEnd, N!RingNew, N!RingIn, N!RingFree, N!RingOut,
      N!spawn_thread, N!Token, N!Join
  <2>5. worker' \in [N!Workerset -> N!Labels] BY <1>0, <1>1, <2>4
  <2> QED BY <1>1, <2>1, <2>3, <2>5
<1>3. ASSUME NEW w \in N!Workerset, N!Worker(w) PROVE PlacesTyped'
  <2>1. kind' = kind /\ at' = at
    BY <1>3 DEF N!Worker, N!PopRound, N!PopEnded, N!Call, N!LastCall, N!FreeIn, N!FreeOut,
      N!RingPop, N!RingEnded
  <2>2. printed' = printed \/ printed' = printed \cup {w}
    BY <1>3 DEF N!Worker, N!PopRound, N!PopEnded, N!Call, N!LastCall, N!FreeIn, N!FreeOut,
      N!RingPop, N!RingEnded, N!PassOn
  <2>3. worker' = worker \/ \E x \in N!Labels : worker' = [worker EXCEPT ![w] = x]
    BY <1>0, <1>3 DEF N!Worker, N!PopRound, N!PopEnded, N!Call, N!LastCall, N!FreeIn, N!FreeOut,
      N!RingPop, N!RingEnded, N!PassOn
  <2>4. worker' \in [N!Workerset -> N!Labels] BY <1>1, <2>3
  <2> QED BY <1>1, <2>1, <2>2, <2>4
<1>4. CASE UNCHANGED netv BY <1>1, <1>4 DEF netv
<1> QED BY <1>2, <1>3, <1>4 DEF N!Next

(* Main and the threads move data in these steps only.                     *)
LEMMA DataTypedMain ==
  ASSUME NetTyped, MainPlaces, N!Main PROVE DataTyped'
<1> USE DEF N!Rest, N!pipev
<1>1. DataTyped BY DEF NetTyped
<1>2. \A p \in N!Pipes : queue[p] \in Seq(Nat)
  BY <1>1 DEF DataTyped
<1>3. CASE N!Feed \/ N!Token
  <2>1. PICK n \in Nat : queue' = queue \/ queue' = [queue EXCEPT ![1] = @ \o <<n>>]
    BY <1>1, <1>3 DEF N!Feed, N!Token, N!Push, NetTyped, PlacesTyped, DataTyped
  <2>2. <<n>> \in Seq(Nat) OBVIOUS
  <2>3. queue[1] \o <<n>> \in Seq(Nat) BY <1>2, <2>2, Numbers, ConcatProperties
  <2>4. queue' \in [N!Pipes -> Seq(Nat)] BY <1>1, <2>1, <2>3 DEF DataTyped
  <2>5. got' = got /\ handled' = handled /\ result' = result /\ passes' = passes
    BY <1>3 DEF N!Feed, N!Token
  <2> QED BY <1>1, <2>4, <2>5 DEF DataTyped
<1>4. CASE N!Drain
  <2>1. at \in N!Pipes /\ queue[at] \in Seq(Nat)
    BY <1>2, <1>4, OutIs, Numbers DEF N!Drain, MainPlaces
  <2>2. Len(queue[at]) \in Nat BY <2>1, LenProperties
  <2>3. result \o queue[at] \in Seq(Nat)
    BY <1>1, <2>1, ConcatProperties DEF DataTyped
  <2>4. SubSeq(queue[at], N!Takes(at, Len(queue[at])) + 1, Len(queue[at])) \in Seq(Nat)
    BY <1>1, <2>1, <2>2, Queues
  <2>5. queue' \in [N!Pipes -> Seq(Nat)]
    BY <1>1, <1>4, <2>4 DEF N!Drain, N!Pop, DataTyped
  <2>6. got' = got /\ handled' = handled /\ result' = result \o queue[at] /\ passes' = passes
    BY <1>4 DEF N!Drain
  <2> QED BY <1>1, <2>3, <2>5, <2>6 DEF DataTyped
<1>5. CASE UNCHANGED <<queue, got, handled, result, passes>>
  BY <1>1, <1>5 DEF DataTyped
<1>6. N!Feed \/ N!Drain \/ N!Token \/ UNCHANGED <<queue, got, handled, result, passes>>
  BY DEF N!Main, N!pipe_pipeline, N!StageConnect, N!StageOut, N!StageFree, N!StageSink,
    N!PipelineReturn, N!ParallelNew, N!Instance, N!ParallelHandles, N!ParallelFree,
    N!FeedEnd, N!DrainEnd, N!RingNew, N!RingIn, N!RingFree, N!RingOut, N!spawn_thread, N!Join
<1> QED BY <1>3, <1>4, <1>5, <1>6

(* A processor pops at least one element and no more than it has room for. *)
LEMMA PopTakes ==
  ASSUME NetTyped, Room, NEW w \in N!Workerset, N!PopRound(w)
  PROVE  LET n == N!Takes(N!In(w), DEFAULT_BUFFER_SIZE - Len(got[w])) IN
         /\ n \in 1 .. Len(queue[N!In(w)])
         /\ Len(got[w]) + n <= DEFAULT_BUFFER_SIZE
<1>1. queue[N!In(w)] \in Seq(Nat) /\ got[w] \in Seq(Nat) /\ queue[N!In(w)] # <<>>
  BY OutIs DEF NetTyped, DataTyped, N!PopRound
<1>2. Len(queue[N!In(w)]) \in Nat \ {0} /\ Len(got[w]) \in Nat
  BY <1>1, EmptySeq, LenProperties
<1>3. Len(got[w]) < DEFAULT_BUFFER_SIZE
  BY DEF Room, N!PopRound, N!At
<1>4. \A g \in Nat, q \in Nat \ {0}, b \in Nat \ {0}, n \in Int :
        g < b /\ n = (IF b - g <= q THEN b - g ELSE q) => n \in 1 .. q /\ g + n <= b
  OBVIOUS
<1> DEFINE n == N!Takes(N!In(w), DEFAULT_BUFFER_SIZE - Len(got[w]))
<1>5. n = IF DEFAULT_BUFFER_SIZE - Len(got[w]) <= Len(queue[N!In(w)])
          THEN DEFAULT_BUFFER_SIZE - Len(got[w]) ELSE Len(queue[N!In(w)])
  BY DEF N!Takes
<1> HIDE DEF n
<1>6. n \in Int
  <2>1. DEFAULT_BUFFER_SIZE - Len(got[w]) \in Int /\ Len(queue[N!In(w)]) \in Int
    BY <1>2, Numbers
  <2> QED BY ONLY <1>5, <2>1
<1>7. n \in 1 .. Len(queue[N!In(w)]) /\ Len(got[w]) + n <= DEFAULT_BUFFER_SIZE
  BY <1>2, <1>3, <1>4, <1>5, <1>6, Numbers
<1> QED BY <1>7 DEF n

LEMMA DataTypedWorker ==
  ASSUME NetTyped, Room, NEW w \in N!Workerset, N!Worker(w) PROVE DataTyped'
<1> USE DEF N!MainRest, N!pipev
<1>1. DataTyped BY DEF NetTyped
<1>2. \A p \in N!Pipes : queue[p] \in Seq(Nat)
  BY <1>1 DEF DataTyped
<1>3. N!In(w) \in N!Pipes /\ N!Out(w) \in N!Pipes BY OutIs
<1>4. got[w] \in Seq(Nat) /\ handled[w] \in Seq(Nat) /\ Len(got[w]) \in Nat
  BY <1>1, LenProperties DEF DataTyped
<1>5. CASE N!PopRound(w)
  <2> DEFINE n == N!Takes(N!In(w), DEFAULT_BUFFER_SIZE - Len(got[w]))
  <2>1. n \in 1 .. Len(queue[N!In(w)])
    BY <1>5, PopTakes
  <2>0. Len(queue[N!In(w)]) \in Nat BY <1>2, <1>3, LenProperties
  <2>4. got' = [got EXCEPT ![w] = got[w] \o SubSeq(queue[N!In(w)], 1, n)]
    BY <1>5 DEF N!PopRound
  <2>5. queue' = [queue EXCEPT ![N!In(w)] = SubSeq(queue[N!In(w)], n + 1, Len(queue[N!In(w)]))]
    <3>1. queue' = [queue EXCEPT ![N!In(w)] =
                      SubSeq(@, N!Takes(N!In(w), n) + 1, Len(queue[N!In(w)]))]
      BY <1>5 DEF N!PopRound, N!Pop
    <3>2. N!Takes(N!In(w), n) = n
      <4> HIDE DEF n
      <4> QED BY <2>0, <2>1 DEF N!Takes
    <3> QED BY <3>1, <3>2
  <2>6. handled' = handled /\ result' = result /\ passes' = passes
    BY <1>5 DEF N!PopRound
  <2> HIDE DEF n
  <2>7. n \in 0 .. Len(queue[N!In(w)]) BY <2>0, <2>1
  <2>2. SubSeq(queue[N!In(w)], 1, n) \in Seq(Nat)
        /\ SubSeq(queue[N!In(w)], n + 1, Len(queue[N!In(w)])) \in Seq(Nat)
    BY <1>1, <1>3, <2>7, Queues
  <2>3. got[w] \o SubSeq(queue[N!In(w)], 1, n) \in Seq(Nat)
    BY <1>4, <2>2, ConcatProperties
  <2> QED BY <1>1, <2>2, <2>3, <2>4, <2>5, <2>6 DEF DataTyped
<1>6. CASE N!Call(w)
  <2>1. handled[w] \o got[w] \in Seq(Nat) /\ queue[N!Out(w)] \o got[w] \in Seq(Nat)
        /\ <<>> \in Seq(Nat)
    BY <1>2, <1>3, <1>4, ConcatProperties, EmptySeq
  <2>2. queue' \in [N!Pipes -> Seq(Nat)]
    BY <1>1, <1>6, <2>1 DEF N!Call, N!Push, DataTyped
  <2>3. got' \in [N!Workerset -> Seq(Nat)] /\ handled' \in [N!Workerset -> Seq(Nat)]
    BY <1>1, <1>6, <2>1 DEF N!Call, DataTyped
  <2>4. result' = result /\ passes' = passes BY <1>6 DEF N!Call
  <2> QED BY <1>1, <2>2, <2>3, <2>4 DEF DataTyped
<1>7. CASE N!RingPop(w)
  <2> DEFINE n == Head(queue[N!In(w)])
  <2>1. queue[N!In(w)] # <<>> /\ queue[N!In(w)] \in Seq(Nat)
    BY <1>2, <1>3, <1>7 DEF N!RingPop
  <2>2. n \in Nat /\ Tail(queue[N!In(w)]) \in Seq(Nat)
    BY <2>1, HeadTailProperties
  <2>3. queue' \in [N!Pipes -> Seq(Nat)]
    <3>1. CASE n = 0
      <4>1. SubSeq(queue[N!In(w)], N!Takes(N!In(w), 1) + 1, Len(queue[N!In(w)])) \in Seq(Nat)
        BY <1>1, <1>3, Queues
      <4> QED BY <1>1, <1>7, <3>1, <4>1 DEF N!RingPop, N!PassOn, N!Pop, DataTyped
    <3>2. CASE n # 0
      <4> DEFINE middle == [queue EXCEPT ![N!In(w)] = Tail(@)]
      <4>1. middle \in [N!Pipes -> Seq(Nat)] BY <1>1, <2>2 DEF DataTyped
      <4>2. queue' = [middle EXCEPT ![N!Out(w)] = Append(@, n - 1)]
        BY <1>7, <3>2 DEF N!RingPop, N!PassOn
      <4> HIDE DEF middle, n
      <4>3. n - 1 \in Nat BY <2>2, <3>2
      <4>4. Append(middle[N!Out(w)], n - 1) \in Seq(Nat)
        BY <1>3, <4>1, <4>3
      <4> QED BY <4>1, <4>2, <4>4
    <3> QED BY <3>1, <3>2
  <2>4. got' = got /\ handled' = handled /\ result' = result /\ passes' = passes
    BY <1>7 DEF N!RingPop
  <2> QED BY <1>1, <2>3, <2>4 DEF DataTyped
<1>8. CASE UNCHANGED <<queue, got, handled, result, passes>>
  BY <1>1, <1>8 DEF DataTyped
<1>9. N!PopRound(w) \/ N!Call(w) \/ N!RingPop(w) \/ UNCHANGED <<queue, got, handled, result, passes>>
  BY DEF N!Worker, N!PopEnded, N!LastCall, N!FreeIn, N!FreeOut, N!RingEnded
<1> QED BY <1>5, <1>6, <1>7, <1>8, <1>9

LEMMA RoomStep ==
  ASSUME NetTyped, Room, WorkerPlaces, [N!Next]_netv PROVE Room'
<1> USE DEF N!Rest, N!MainRest, N!pipev, N!Becomes, N!At
<1>0. /\ worker \in [N!Workerset -> N!Labels] /\ at \in Nat
      /\ got \in [N!Workerset -> Seq(Nat)]
  BY DEF NetTyped, PlacesTyped, DataTyped
<1>1. CASE N!Main
  <2>1. /\ got' = got
        /\ \/ worker' = worker
           \/ worker' = [worker EXCEPT ![at] = "pop"] /\ ~Spawned(at)
    BY <1>0, <1>1 DEF N!Main, N!pipe_pipeline, N!StageConnect, N!StageOut, N!StageFree, N!StageSink,
      N!PipelineReturn, N!ParallelNew, N!Instance, N!ParallelHandles, N!ParallelFree, N!Feed,
      N!FeedEnd, N!Drain, N!DrainEnd, N!RingNew, N!RingIn, N!RingFree, N!RingOut,
      N!spawn_thread, N!Spawn, N!Token, N!Join, Spawned
  <2> QED BY <1>0, <2>1 DEF Room, WorkerPlaces
<1>2. ASSUME NEW w \in N!Workerset, N!PopRound(w) PROVE Room'
  <2> DEFINE n == N!Takes(N!In(w), DEFAULT_BUFFER_SIZE - Len(got[w]))
             more == got[w] \o SubSeq(queue[N!In(w)], 1, n)
  <2>1. n \in 1 .. Len(queue[N!In(w)]) /\ Len(got[w]) + n <= DEFAULT_BUFFER_SIZE
    BY <1>2, PopTakes
  <2>2. got' = [got EXCEPT ![w] = more]
        /\ worker' = [worker EXCEPT ![w] = IF Len(more) = DEFAULT_BUFFER_SIZE THEN "call" ELSE "pop"]
    BY <1>2 DEF N!PopRound
  <2>3. Len(more) <= DEFAULT_BUFFER_SIZE /\ Len(more) \in Nat
    <3> HIDE DEF n
    <3>1. N!In(w) \in N!Pipes /\ queue[N!In(w)] \in Seq(Nat) /\ DataTyped
      BY OutIs DEF NetTyped, DataTyped
    <3>2. Len(queue[N!In(w)]) \in Nat BY <3>1, LenProperties
    <3>3. n \in 0 .. Len(queue[N!In(w)]) BY <2>1, <3>2
    <3>4. SubSeq(queue[N!In(w)], 1, n) \in Seq(Nat) /\ Len(SubSeq(queue[N!In(w)], 1, n)) = n
      BY <3>1, <3>3, Queues
    <3>5. Len(more) = Len(got[w]) + n /\ Len(got[w]) \in Nat
      BY <1>0, <3>4, ConcatProperties, LenProperties
    <3> QED BY <2>1, <3>2, <3>3, <3>5
  <2> HIDE DEF more
  <2>4. Len(more) # DEFAULT_BUFFER_SIZE => Len(more) < DEFAULT_BUFFER_SIZE
    BY <2>3, Numbers
  <2> QED BY <1>0, <2>2, <2>4 DEF Room
<1>3. ASSUME NEW w \in N!Workerset, N!Call(w) PROVE Room'
  <2>1. got' = [got EXCEPT ![w] = <<>>] /\ worker' = [worker EXCEPT ![w] = "pop"]
    BY <1>3 DEF N!Call
  <2>2. Len(<<>>) < DEFAULT_BUFFER_SIZE BY Numbers
  <2> QED BY <1>0, <2>1, <2>2 DEF Room
<1>4. ASSUME NEW w \in N!Workerset, N!RingPop(w) PROVE Room'
  <2>1. got' = got /\ (worker' = worker \/ worker' = [worker EXCEPT ![w] = "free_out"])
    BY <1>4 DEF N!RingPop, N!PassOn
  <2> QED BY <1>0, <2>1 DEF Room
<1>5. ASSUME NEW w \in N!Workerset,
             N!PopEnded(w) \/ N!LastCall(w) \/ N!FreeIn(w) \/ N!FreeOut(w) \/ N!RingEnded(w)
      PROVE  Room'
  <2>1. got' = got /\ \E x \in {"call", "last", "free_in", "free_out", "ended"} :
                         worker' = [worker EXCEPT ![w] = x]
    BY <1>5 DEF N!PopEnded, N!LastCall, N!FreeIn, N!FreeOut, N!RingEnded
  <2> QED BY <1>0, <2>1 DEF Room
<1>6. CASE UNCHANGED netv BY <1>6 DEF netv, Room
<1> QED BY <1>1, <1>2, <1>3, <1>4, <1>5, <1>6 DEF N!Next, N!Worker

(* Where main is.                                                          *)
LEMMA MainPlacesStep ==
  ASSUME NetTyped, MainPlaces, [N!Next]_netv PROVE MainPlaces'
<1> USE DEF N!Go, N!Rest, N!MainRest, N!pipev
<1>0. kind \in {"chain", "sink", "parallel", "ring"} /\ at \in Nat /\ kind' = kind
      /\ N!Out(Workers)' = N!Out(Workers)
  <2>1. kind' = kind
    BY DEF N!Next, N!Main, N!Worker, N!pipe_pipeline, N!StageConnect, N!StageOut, N!StageFree,
      N!StageSink, N!PipelineReturn, N!ParallelNew, N!Instance, N!ParallelHandles, N!ParallelFree,
      N!Feed, N!FeedEnd, N!Drain, N!DrainEnd, N!RingNew, N!RingIn, N!RingFree, N!RingOut,
      N!spawn_thread, N!Token, N!Join, N!PopRound, N!PopEnded, N!Call, N!LastCall, N!FreeIn,
      N!FreeOut, N!RingPop, N!RingEnded, netv
  <2> QED BY <2>1, PipelinesAssumption DEF NetTyped, PlacesTyped, N!Out
<1> USE Numbers
<1>1. CASE N!pipe_pipeline BY <1>0, <1>1 DEF N!pipe_pipeline, MainPlaces
<1>2. CASE N!StageConnect BY <1>0, <1>2 DEF N!StageConnect, MainPlaces
<1>3. CASE N!StageOut BY <1>0, <1>3 DEF N!StageOut, MainPlaces
<1>4. CASE N!StageFree BY <1>0, <1>4 DEF N!StageFree, MainPlaces
<1>5. CASE N!StageSink BY <1>0, <1>5 DEF N!StageSink, MainPlaces
<1>6. CASE N!PipelineReturn BY <1>0, <1>6 DEF N!PipelineReturn, MainPlaces
<1>7. CASE N!ParallelNew BY <1>0, <1>7 DEF N!ParallelNew, MainPlaces
<1>8. CASE N!Instance BY <1>0, <1>8 DEF N!Instance, MainPlaces
<1>9. CASE N!ParallelHandles BY <1>0, <1>9 DEF N!ParallelHandles, MainPlaces
<1>10. CASE N!ParallelFree BY <1>0, <1>10 DEF N!ParallelFree, MainPlaces
<1>11. CASE N!Feed BY <1>0, <1>11 DEF N!Feed, MainPlaces
<1>12. CASE N!FeedEnd BY <1>0, <1>12 DEF N!FeedEnd, MainPlaces
<1>13. CASE N!DrainEnd BY <1>0, <1>13 DEF N!DrainEnd, MainPlaces
<1>14. CASE N!RingNew BY <1>0, <1>14 DEF N!RingNew, MainPlaces
<1>15. CASE N!RingIn BY <1>0, <1>15 DEF N!RingIn, MainPlaces
<1>16. CASE N!RingFree BY <1>0, <1>16 DEF N!RingFree, MainPlaces
<1>17. CASE N!RingOut BY <1>0, <1>17 DEF N!RingOut, MainPlaces
<1>18. CASE N!spawn_thread BY <1>0, <1>18 DEF N!spawn_thread, MainPlaces
<1>19. CASE N!Token BY <1>0, <1>19 DEF N!Token, MainPlaces
<1>20. CASE N!Join BY <1>0, <1>20 DEF N!Join, MainPlaces
<1>21. CASE UNCHANGED <<kind, main, at>> BY <1>0, <1>21 DEF MainPlaces
<1>22. CASE N!Drain BY <1>21, <1>22 DEF N!Drain
<1>23. ASSUME NEW w \in N!Workerset, N!Worker(w) PROVE MainPlaces'
  BY <1>21, <1>23 DEF N!Worker, N!PopRound, N!PopEnded, N!Call, N!LastCall, N!FreeIn, N!FreeOut,
    N!RingPop, N!RingEnded
<1>24. CASE UNCHANGED netv BY <1>21, <1>24 DEF netv
<1> QED
  BY <1>1, <1>2, <1>3, <1>4, <1>5, <1>6, <1>7, <1>8, <1>9, <1>10, <1>11, <1>12, <1>13, <1>14,
     <1>15, <1>16, <1>17, <1>18, <1>19, <1>20, <1>22, <1>23, <1>24 DEF N!Next, N!Main

(* Which threads there are.                                                *)
LEMMA WorkerPlacesStep ==
  ASSUME NetTyped, MainPlaces, WorkerPlaces, [N!Next]_netv PROVE WorkerPlaces'
<1> USE DEF N!Go, N!Rest, N!MainRest, N!pipev, N!Spawn, N!Becomes, N!At
<1>0. /\ kind \in {"chain", "sink", "parallel", "ring"} /\ at \in Nat
      /\ worker \in [N!Workerset -> N!Labels]
      /\ \A w \in N!Workerset : w \in Nat /\ w <= Workers /\ w >= 1
  BY PipelinesAssumption DEF NetTyped, PlacesTyped, N!Workerset
<1> USE Numbers
<1>1. CASE N!pipe_pipeline BY <1>0, <1>1 DEF N!pipe_pipeline, WorkerPlaces, Spawned
<1>2. CASE N!StageConnect BY <1>0, <1>2 DEF N!StageConnect, WorkerPlaces, Spawned
<1>3. CASE N!StageOut BY <1>0, <1>3 DEF N!StageOut, WorkerPlaces, Spawned
<1>4. CASE N!StageFree BY <1>0, <1>4 DEF N!StageFree, WorkerPlaces, Spawned, MainPlaces
<1>5. CASE N!StageSink BY <1>0, <1>5 DEF N!StageSink, WorkerPlaces, Spawned
<1>6. CASE N!PipelineReturn BY <1>0, <1>6 DEF N!PipelineReturn, WorkerPlaces, Spawned
<1>7. CASE N!ParallelNew BY <1>0, <1>7 DEF N!ParallelNew, WorkerPlaces, Spawned
<1>8. CASE N!Instance BY <1>0, <1>8 DEF N!Instance, WorkerPlaces, Spawned, MainPlaces
<1>9. CASE N!ParallelHandles BY <1>0, <1>9 DEF N!ParallelHandles, WorkerPlaces, Spawned
<1>10. CASE N!ParallelFree BY <1>0, <1>10 DEF N!ParallelFree, WorkerPlaces, Spawned
<1>11. CASE N!Feed BY <1>0, <1>11 DEF N!Feed, WorkerPlaces, Spawned
<1>12. CASE N!FeedEnd BY <1>0, <1>12 DEF N!FeedEnd, WorkerPlaces, Spawned
<1>13. CASE N!DrainEnd BY <1>0, <1>13 DEF N!DrainEnd, WorkerPlaces, Spawned
<1>14. CASE N!RingNew BY <1>0, <1>14 DEF N!RingNew, WorkerPlaces, Spawned
<1>15. CASE N!RingIn BY <1>0, <1>15 DEF N!RingIn, WorkerPlaces, Spawned
<1>16. CASE N!RingFree BY <1>0, <1>16 DEF N!RingFree, WorkerPlaces, Spawned
<1>17. CASE N!RingOut BY <1>0, <1>17 DEF N!RingOut, WorkerPlaces, Spawned
<1>18. CASE N!spawn_thread BY <1>0, <1>18 DEF N!spawn_thread, WorkerPlaces, Spawned, MainPlaces
<1>19. CASE N!Token BY <1>0, <1>19 DEF N!Token, WorkerPlaces, Spawned
<1>20. CASE N!Join BY <1>0, <1>20 DEF N!Join, WorkerPlaces, Spawned
<1>21. CASE UNCHANGED <<kind, main, at, worker>> BY <1>0, <1>21 DEF WorkerPlaces, Spawned
<1>22. CASE N!Drain BY <1>21, <1>22 DEF N!Drain
<1>23. ASSUME NEW w \in N!Workerset, N!Worker(w) PROVE WorkerPlaces'
  <2>1. /\ kind' = kind /\ main' = main /\ at' = at /\ worker[w] # "none"
        /\ \/ worker' = worker
           \/ \E x \in {"pop", "call", "last", "free_in", "free_out", "ended"} :
                /\ worker' = [worker EXCEPT ![w] = x]
                /\ kind = "ring" => x \notin {"call", "last"}
    BY <1>23 DEF N!Worker, N!PopRound, N!PopEnded, N!Call, N!LastCall, N!FreeIn, N!FreeOut,
      N!RingPop, N!RingEnded, N!PassOn, WorkerPlaces
  <2>2. \A v \in N!Workerset : Spawned(v)' <=> Spawned(v)
    BY <2>1 DEF Spawned
  <2> QED BY <1>0, <2>1, <2>2 DEF WorkerPlaces
<1>24. CASE UNCHANGED netv BY <1>21, <1>24 DEF netv
<1> QED
  BY <1>1, <1>2, <1>3, <1>4, <1>5, <1>6, <1>7, <1>8, <1>9, <1>10, <1>11, <1>12, <1>13, <1>14,
     <1>15, <1>16, <1>17, <1>18, <1>19, <1>20, <1>22, <1>23, <1>24 DEF N!Next, N!Main

LEMMA Distinct ==
  /\ N!Owner \notin N!Workerset /\ N!User \notin N!Workerset /\ N!Owner # N!User
  BY DEF N!Owner, N!User, N!Workerset

(* Which threads have their producer handle.                               *)
LEMMA ThreadsWriteStep ==
  ASSUME NetTyped, MainPlaces, WorkerPlaces, Holders, [N!Next]_netv PROVE ThreadsWrite'
<1> USE Numbers, Distinct DEF N!Go, N!Rest, N!MainRest, N!pipev, N!Spawn, N!Becomes, N!At,
                              N!Issue, N!New, N!pipe_free
<1>0. /\ kind \in {"chain", "sink", "parallel", "ring"} /\ at \in Nat
      /\ worker \in [N!Workerset -> N!Labels]
      /\ writers \in [N!Pipes -> HolderSets] /\ readers \in [N!Pipes -> HolderSets]
      /\ \A w \in N!Workerset : w \in Nat /\ w <= Workers /\ w >= 1
  BY PipelinesAssumption DEF NetTyped, PlacesTyped, HandlesTyped, N!Workerset
<1>1. CASE N!pipe_pipeline
  BY <1>0, <1>1 DEF N!pipe_pipeline, Holders, ThreadsWrite, Writes, N!Out, WorkerPlaces, Spawned, MainPlaces
<1>2. CASE N!StageConnect
  BY <1>0, <1>2 DEF N!StageConnect, Holders, ThreadsWrite, Writes, N!Out, WorkerPlaces, Spawned, MainPlaces
<1>3. CASE N!StageOut
  BY <1>0, <1>3 DEF N!StageOut, Holders, ThreadsWrite, Writes, N!Out, WorkerPlaces, Spawned, MainPlaces
<1>4. CASE N!StageFree
  BY <1>0, <1>4 DEF N!StageFree, Holders, ThreadsWrite, Writes, N!Out, WorkerPlaces, Spawned, MainPlaces
<1>5. CASE N!StageSink
  BY <1>0, <1>5 DEF N!StageSink, Holders, ThreadsWrite, Writes, N!Out, WorkerPlaces, Spawned, MainPlaces
<1>6. CASE N!PipelineReturn
  BY <1>0, <1>6 DEF N!PipelineReturn, Holders, ThreadsWrite, Writes, N!Out, WorkerPlaces, Spawned, MainPlaces
<1>7. CASE N!ParallelNew
  BY <1>0, <1>7 DEF N!ParallelNew, Holders, ThreadsWrite, Writes, N!Out, WorkerPlaces, Spawned, MainPlaces
<1>8. CASE N!Instance
  BY <1>0, <1>8 DEF N!Instance, Holders, ThreadsWrite, Writes, N!Out, WorkerPlaces, Spawned, MainPlaces
<1>9. CASE N!ParallelHandles
  BY <1>0, <1>9 DEF N!ParallelHandles, Holders, ThreadsWrite, Writes, N!Out, WorkerPlaces, Spawned, MainPlaces
<1>10. CASE N!ParallelFree
  BY <1>0, <1>10 DEF N!ParallelFree, Holders, ThreadsWrite, Writes, N!Out, WorkerPlaces, Spawned, MainPlaces
<1>11. CASE N!Feed
  BY <1>0, <1>11 DEF N!Feed, Holders, ThreadsWrite, Writes, N!Out, WorkerPlaces, Spawned, MainPlaces
<1>12. CASE N!FeedEnd
  BY <1>0, <1>12 DEF N!FeedEnd, Holders, ThreadsWrite, Writes, N!Out, WorkerPlaces, Spawned, MainPlaces
<1>13. CASE N!DrainEnd
  BY <1>0, <1>13 DEF N!DrainEnd, Holders, ThreadsWrite, Writes, N!Out, WorkerPlaces, Spawned, MainPlaces
<1>14. CASE N!RingNew
  BY <1>0, <1>14 DEF N!RingNew, Holders, ThreadsWrite, Writes, N!Out, WorkerPlaces, Spawned, MainPlaces
<1>15. CASE N!RingIn
  BY <1>0, <1>15 DEF N!RingIn, Holders, ThreadsWrite, Writes, N!Out, WorkerPlaces, Spawned, MainPlaces
<1>16. CASE N!RingFree
  BY <1>0, <1>16 DEF N!RingFree, Holders, ThreadsWrite, Writes, N!Out, WorkerPlaces, Spawned, MainPlaces
<1>17. CASE N!RingOut
  BY <1>0, <1>17 DEF N!RingOut, Holders, ThreadsWrite, Writes, N!Out, WorkerPlaces, Spawned, MainPlaces
<1>18. CASE N!spawn_thread
  BY <1>0, <1>18 DEF N!spawn_thread, Holders, ThreadsWrite, Writes, N!Out, WorkerPlaces, Spawned, MainPlaces
<1>19. CASE N!Token
  BY <1>0, <1>19 DEF N!Token, Holders, ThreadsWrite, Writes, N!Out, WorkerPlaces, Spawned, MainPlaces
<1>20. CASE N!Join
  BY <1>0, <1>20 DEF N!Join, Holders, ThreadsWrite, Writes, N!Out, WorkerPlaces, Spawned, MainPlaces
<1>21. CASE UNCHANGED <<kind, main, at, worker, writers>> BY <1>0, <1>21 DEF Holders, ThreadsWrite, Writes, N!Out, WorkerPlaces, Spawned, MainPlaces
<1>22. CASE N!Drain BY <1>21, <1>22 DEF N!Drain
<1>23. ASSUME NEW w \in N!Workerset,
             N!PopRound(w) \/ N!PopEnded(w) \/ N!Call(w) \/ N!LastCall(w)
         \/ N!RingPop(w) \/ N!RingEnded(w)
      PROVE  ThreadsWrite'
  <2>1. /\ UNCHANGED <<kind, main, at, writers>> /\ worker[w] \in {"pop", "call", "last"}
        /\ \/ worker' = worker
           \/ \E x \in {"pop", "call", "last", "free_in", "free_out"} :
                /\ worker' = [worker EXCEPT ![w] = x]
                /\ x = "free_in" => kind # "ring"
                /\ x = "free_out" => kind = "ring"
    BY <1>23 DEF N!PopRound, N!PopEnded, N!Call, N!LastCall, N!RingPop, N!RingEnded, N!PassOn,
      WorkerPlaces
  <2>2. \A v \in N!Workerset : Writes(v)' <=> Writes(v)
    BY <1>0, <2>1 DEF Writes
  <2>3. \A v \in N!Workerset : N!Out(v)' = N!Out(v)
    BY <2>1 DEF N!Out
  <2> QED BY <2>1, <2>2, <2>3 DEF Holders, ThreadsWrite
<1>24. ASSUME NEW w \in N!Workerset, N!FreeOut(w) PROVE ThreadsWrite'
  <2>1. /\ UNCHANGED <<kind, main, at>> /\ worker[w] = "free_out"
        /\ writers' = [writers EXCEPT ![N!Out(w)] = @ \ {w}]
        /\ worker' = [worker EXCEPT ![w] = IF kind = "ring" THEN "free_in" ELSE "ended"]
    BY <1>24 DEF N!FreeOut
  <2>2. /\ ~Writes(w)'
        /\ \A v \in N!Workerset : v # w => (Writes(v)' <=> Writes(v))
    BY <1>0, <2>1 DEF Writes
  <2>3. \A v \in N!Workerset : N!Out(v)' = N!Out(v)
    BY <2>1 DEF N!Out
  <2> QED BY <1>0, <2>1, <2>2, <2>3 DEF Holders, ThreadsWrite
<1>25. ASSUME NEW w \in N!Workerset, N!FreeIn(w) PROVE ThreadsWrite'
  <2>1. /\ UNCHANGED <<kind, main, at, writers>>
        /\ \A v \in N!Workerset : Writes(v)' <=> Writes(v)
    BY <1>0, <1>25 DEF N!FreeIn, Writes
  <2>2. \A v \in N!Workerset : N!Out(v)' = N!Out(v)
    BY <2>1 DEF N!Out
  <2> QED BY <2>1, <2>2 DEF Holders, ThreadsWrite
<1>26. CASE UNCHANGED netv BY <1>21, <1>26 DEF netv
<1> QED
  BY <1>1, <1>2, <1>3, <1>4, <1>5, <1>6, <1>7, <1>8, <1>9, <1>10, <1>11, <1>12, <1>13, <1>14,
     <1>15, <1>16, <1>17, <1>18, <1>19, <1>20, <1>22, <1>23, <1>24, <1>25, <1>26
  DEF N!Next, N!Main, N!Worker

(* Which have their consumer handle.                                       *)
LEMMA ThreadsReadStep ==
  ASSUME NetTyped, MainPlaces, WorkerPlaces, Holders, [N!Next]_netv PROVE ThreadsRead'
<1> USE Numbers, Distinct DEF N!Go, N!Rest, N!MainRest, N!pipev, N!Spawn, N!Becomes, N!At,
                              N!Issue, N!New, N!pipe_free
<1>0. /\ kind \in {"chain", "sink", "parallel", "ring"} /\ at \in Nat
      /\ worker \in [N!Workerset -> N!Labels]
      /\ writers \in [N!Pipes -> HolderSets] /\ readers \in [N!Pipes -> HolderSets]
      /\ \A w \in N!Workerset : w \in Nat /\ w <= Workers /\ w >= 1
  BY PipelinesAssumption DEF NetTyped, PlacesTyped, HandlesTyped, N!Workerset
<1>1. CASE N!pipe_pipeline
  BY <1>0, <1>1 DEF N!pipe_pipeline, Holders, ThreadsRead, Reads, N!In, WorkerPlaces, Spawned, MainPlaces
<1>2. CASE N!StageConnect
  BY <1>0, <1>2 DEF N!StageConnect, Holders, ThreadsRead, Reads, N!In, WorkerPlaces, Spawned, MainPlaces
<1>3. CASE N!StageOut
  BY <1>0, <1>3 DEF N!StageOut, Holders, ThreadsRead, Reads, N!In, WorkerPlaces, Spawned, MainPlaces
<1>4. CASE N!StageFree
  BY <1>0, <1>4 DEF N!StageFree, Holders, ThreadsRead, Reads, N!In, WorkerPlaces, Spawned, MainPlaces
<1>5. CASE N!StageSink
  BY <1>0, <1>5 DEF N!StageSink, Holders, ThreadsRead, Reads, N!In, WorkerPlaces, Spawned, MainPlaces
<1>6. CASE N!PipelineReturn
  BY <1>0, <1>6 DEF N!PipelineReturn, Holders, ThreadsRead, Reads, N!In, WorkerPlaces, Spawned, MainPlaces
<1>7. CASE N!ParallelNew
  BY <1>0, <1>7 DEF N!ParallelNew, Holders, ThreadsRead, Reads, N!In, WorkerPlaces, Spawned, MainPlaces
<1>8. CASE N!Instance
  BY <1>0, <1>8 DEF N!Instance, Holders, ThreadsRead, Reads, N!In, WorkerPlaces, Spawned, MainPlaces
<1>9. CASE N!ParallelHandles
  BY <1>0, <1>9 DEF N!ParallelHandles, Holders, ThreadsRead, Reads, N!In, WorkerPlaces, Spawned, MainPlaces
<1>10. CASE N!ParallelFree
  BY <1>0, <1>10 DEF N!ParallelFree, Holders, ThreadsRead, Reads, N!In, WorkerPlaces, Spawned, MainPlaces
<1>11. CASE N!Feed
  BY <1>0, <1>11 DEF N!Feed, Holders, ThreadsRead, Reads, N!In, WorkerPlaces, Spawned, MainPlaces
<1>12. CASE N!FeedEnd
  BY <1>0, <1>12 DEF N!FeedEnd, Holders, ThreadsRead, Reads, N!In, WorkerPlaces, Spawned, MainPlaces
<1>13. CASE N!DrainEnd
  BY <1>0, <1>13 DEF N!DrainEnd, Holders, ThreadsRead, Reads, N!In, WorkerPlaces, Spawned, MainPlaces
<1>14. CASE N!RingNew
  BY <1>0, <1>14 DEF N!RingNew, Holders, ThreadsRead, Reads, N!In, WorkerPlaces, Spawned, MainPlaces
<1>15. CASE N!RingIn
  BY <1>0, <1>15 DEF N!RingIn, Holders, ThreadsRead, Reads, N!In, WorkerPlaces, Spawned, MainPlaces
<1>16. CASE N!RingFree
  BY <1>0, <1>16 DEF N!RingFree, Holders, ThreadsRead, Reads, N!In, WorkerPlaces, Spawned, MainPlaces
<1>17. CASE N!RingOut
  BY <1>0, <1>17 DEF N!RingOut, Holders, ThreadsRead, Reads, N!In, WorkerPlaces, Spawned, MainPlaces
<1>18. CASE N!spawn_thread
  BY <1>0, <1>18 DEF N!spawn_thread, Holders, ThreadsRead, Reads, N!In, WorkerPlaces, Spawned, MainPlaces
<1>19. CASE N!Token
  BY <1>0, <1>19 DEF N!Token, Holders, ThreadsRead, Reads, N!In, WorkerPlaces, Spawned, MainPlaces
<1>20. CASE N!Join
  BY <1>0, <1>20 DEF N!Join, Holders, ThreadsRead, Reads, N!In, WorkerPlaces, Spawned, MainPlaces
<1>21. CASE UNCHANGED <<kind, main, at, worker, readers>> BY <1>0, <1>21 DEF Holders, ThreadsRead, Reads, N!In, WorkerPlaces, Spawned, MainPlaces
<1>22. CASE N!Drain BY <1>21, <1>22 DEF N!Drain
<1>23. ASSUME NEW w \in N!Workerset,
             N!PopRound(w) \/ N!PopEnded(w) \/ N!Call(w) \/ N!LastCall(w)
         \/ N!RingPop(w) \/ N!RingEnded(w)
      PROVE  ThreadsRead'
  <2>1. /\ UNCHANGED <<kind, main, at, readers>> /\ worker[w] \in {"pop", "call", "last"}
        /\ \/ worker' = worker
           \/ \E x \in {"pop", "call", "last", "free_in", "free_out"} :
                /\ worker' = [worker EXCEPT ![w] = x]
                /\ x = "free_in" => kind # "ring"
                /\ x = "free_out" => kind = "ring"
    BY <1>23 DEF N!PopRound, N!PopEnded, N!Call, N!LastCall, N!RingPop, N!RingEnded, N!PassOn,
      WorkerPlaces
  <2>2. \A v \in N!Workerset : Reads(v)' <=> Reads(v)
    BY <1>0, <2>1 DEF Reads
  <2>3. \A v \in N!Workerset : N!In(v)' = N!In(v)
    BY <2>1 DEF N!In
  <2> QED BY <2>1, <2>2, <2>3 DEF Holders, ThreadsRead
<1>24. ASSUME NEW w \in N!Workerset, N!FreeIn(w) PROVE ThreadsRead'
  <2>1. /\ UNCHANGED <<kind, main, at>> /\ worker[w] = "free_in"
        /\ readers' = [readers EXCEPT ![N!In(w)] = @ \ {w}]
        /\ worker' = [worker EXCEPT ![w] = IF kind = "ring" THEN "ended" ELSE "free_out"]
    BY <1>24 DEF N!FreeIn
  <2>2. /\ ~Reads(w)'
        /\ \A v \in N!Workerset : v # w => (Reads(v)' <=> Reads(v))
    BY <1>0, <2>1 DEF Reads
  <2>3. \A v \in N!Workerset : N!In(v)' = N!In(v)
    BY <2>1 DEF N!In
  <2> QED BY <1>0, <2>1, <2>2, <2>3 DEF Holders, ThreadsRead
<1>25. ASSUME NEW w \in N!Workerset, N!FreeOut(w) PROVE ThreadsRead'
  <2>1. /\ UNCHANGED <<kind, main, at, readers>>
        /\ \A v \in N!Workerset : Reads(v)' <=> Reads(v)
    BY <1>0, <1>25 DEF N!FreeOut, Reads
  <2>2. \A v \in N!Workerset : N!In(v)' = N!In(v)
    BY <2>1 DEF N!In
  <2> QED BY <2>1, <2>2 DEF Holders, ThreadsRead
<1>26. CASE UNCHANGED netv BY <1>21, <1>26 DEF netv
<1> QED
  BY <1>1, <1>2, <1>3, <1>4, <1>5, <1>6, <1>7, <1>8, <1>9, <1>10, <1>11, <1>12, <1>13, <1>14,
     <1>15, <1>16, <1>17, <1>18, <1>19, <1>20, <1>22, <1>23, <1>24, <1>25, <1>26
  DEF N!Next, N!Main, N!Worker

(* Which handles main has, those of its pipe_t and those of its pipeline.  *)
LEMMA MainHoldsStep ==
  ASSUME NetTyped, MainPlaces, WorkerPlaces, Holders, [N!Next]_netv PROVE MainHolds'
<1> USE Numbers, Distinct DEF N!Go, N!Rest, N!MainRest, N!pipev, N!Spawn, N!Becomes, N!At,
                              N!Issue, N!New, N!pipe_free
<1>0. /\ kind \in {"chain", "sink", "parallel", "ring"} /\ at \in Nat
      /\ worker \in [N!Workerset -> N!Labels]
      /\ writers \in [N!Pipes -> HolderSets] /\ readers \in [N!Pipes -> HolderSets]
      /\ \A w \in N!Workerset : w \in Nat /\ w <= Workers /\ w >= 1
      /\ \A p \in N!Pipes : p \in Nat /\ p <= Workers + 1 /\ p >= 1
  BY PipelinesAssumption DEF NetTyped, PlacesTyped, HandlesTyped, N!Workerset, N!Pipes
<1>1. CASE N!pipe_pipeline
  BY <1>0, <1>1 DEF N!pipe_pipeline, Holders, MainHolds, OwnerAt, UserWrites, UserReads, MainPlaces, N!Out
<1>2. CASE N!StageConnect
  <2>1. at \in N!Workerset /\ at # N!Owner /\ at # N!User
    BY <1>2 DEF N!StageConnect, MainPlaces, N!Workerset
  <2> QED BY <1>0, <1>2, <2>1 DEF N!StageConnect, Holders, MainHolds, OwnerAt, UserWrites, UserReads, MainPlaces, N!Out
<1>3. CASE N!StageOut
  BY <1>0, <1>3 DEF N!StageOut, Holders, MainHolds, OwnerAt, UserWrites, UserReads, MainPlaces, N!Out
<1>4. CASE N!StageFree
  BY <1>0, <1>4 DEF N!StageFree, Holders, MainHolds, OwnerAt, UserWrites, UserReads, MainPlaces, N!Out
<1>5. CASE N!StageSink
  BY <1>0, <1>5 DEF N!StageSink, Holders, MainHolds, OwnerAt, UserWrites, UserReads, MainPlaces, N!Out
<1>6. CASE N!PipelineReturn
  BY <1>0, <1>6 DEF N!PipelineReturn, Holders, MainHolds, OwnerAt, UserWrites, UserReads, MainPlaces, N!Out
<1>7. CASE N!ParallelNew
  BY <1>0, <1>7 DEF N!ParallelNew, Holders, MainHolds, OwnerAt, UserWrites, UserReads, MainPlaces, N!Out
<1>8. CASE N!Instance
  <2>1. at \in N!Workerset /\ at # N!Owner /\ at # N!User
    BY <1>8 DEF N!Instance, MainPlaces, N!Workerset
  <2> QED BY <1>0, <1>8, <2>1 DEF N!Instance, Holders, MainHolds, OwnerAt, UserWrites, UserReads, MainPlaces, N!Out
<1>9. CASE N!ParallelHandles
  BY <1>0, <1>9 DEF N!ParallelHandles, Holders, MainHolds, OwnerAt, UserWrites, UserReads, MainPlaces, N!Out
<1>10. CASE N!ParallelFree
  BY <1>0, <1>10 DEF N!ParallelFree, Holders, MainHolds, OwnerAt, UserWrites, UserReads, MainPlaces, N!Out
<1>11. CASE N!Feed
  BY <1>0, <1>11 DEF N!Feed, Holders, MainHolds, OwnerAt, UserWrites, UserReads, MainPlaces, N!Out
<1>12. CASE N!FeedEnd
  BY <1>0, <1>12 DEF N!FeedEnd, Holders, MainHolds, OwnerAt, UserWrites, UserReads, MainPlaces, N!Out
<1>13. CASE N!DrainEnd
  BY <1>0, <1>13 DEF N!DrainEnd, Holders, MainHolds, OwnerAt, UserWrites, UserReads, MainPlaces, N!Out
<1>14. CASE N!RingNew
  BY <1>0, <1>14 DEF N!RingNew, Holders, MainHolds, OwnerAt, UserWrites, UserReads, MainPlaces, N!Out
<1>15. CASE N!RingIn
  <2>1. at \in N!Workerset /\ at # N!Owner /\ at # N!User
    BY <1>15 DEF N!RingIn, MainPlaces, N!Workerset
  <2> QED BY <1>0, <1>15, <2>1 DEF N!RingIn, Holders, MainHolds, OwnerAt, UserWrites, UserReads, MainPlaces, N!Out
<1>16. CASE N!RingFree
  BY <1>0, <1>16 DEF N!RingFree, Holders, MainHolds, OwnerAt, UserWrites, UserReads, MainPlaces, N!Out
<1>17. CASE N!RingOut
  <2>1. at \in N!Workerset /\ at # N!Owner /\ at # N!User
    BY <1>17 DEF N!RingOut, MainPlaces, N!Workerset
  <2> QED BY <1>0, <1>17, <2>1 DEF N!RingOut, Holders, MainHolds, OwnerAt, UserWrites, UserReads, MainPlaces, N!Out
<1>18. CASE N!spawn_thread
  BY <1>0, <1>18 DEF N!spawn_thread, Holders, MainHolds, OwnerAt, UserWrites, UserReads, MainPlaces, N!Out
<1>19. CASE N!Token
  BY <1>0, <1>19 DEF N!Token, Holders, MainHolds, OwnerAt, UserWrites, UserReads, MainPlaces, N!Out
<1>20. CASE N!Join
  BY <1>0, <1>20 DEF N!Join, Holders, MainHolds, OwnerAt, UserWrites, UserReads, MainPlaces, N!Out
<1>21. CASE UNCHANGED <<kind, main, at>> /\ \A p \in N!Pipes : \A x \in {N!Owner, N!User} :
              (x \in writers'[p] <=> x \in writers[p]) /\ (x \in readers'[p] <=> x \in readers[p])
  BY <1>0, <1>21 DEF Holders, MainHolds, OwnerAt, UserWrites, UserReads, N!Out
<1>22. CASE N!Drain BY <1>21, <1>22 DEF N!Drain
<1>23. ASSUME NEW w \in N!Workerset, N!Worker(w) PROVE MainHolds'
  <2>1. UNCHANGED <<kind, main, at>>
    BY <1>23 DEF N!Worker, N!PopRound, N!PopEnded, N!Call, N!LastCall, N!FreeIn, N!FreeOut,
      N!RingPop, N!RingEnded
  <2>2. /\ writers' = writers \/ writers' = [writers EXCEPT ![N!Out(w)] = @ \ {w}]
        /\ readers' = readers \/ readers' = [readers EXCEPT ![N!In(w)] = @ \ {w}]
    BY <1>23 DEF N!Worker, N!PopRound, N!PopEnded, N!Call, N!LastCall, N!FreeIn, N!FreeOut,
      N!RingPop, N!RingEnded
  <2> QED BY <1>0, <1>21, <2>1, <2>2
<1>24. CASE UNCHANGED netv BY <1>21, <1>24 DEF netv
<1> QED
  BY <1>1, <1>2, <1>3, <1>4, <1>5, <1>6, <1>7, <1>8, <1>9, <1>10, <1>11, <1>12, <1>13, <1>14,
     <1>15, <1>16, <1>17, <1>18, <1>19, <1>20, <1>22, <1>23, <1>24 DEF N!Next, N!Main

(* A pipe has no producer left when whoever fed it is through: the caller, *)
(* or the thread before.                                                   *)
Feeder(w) == IF w = 1 THEN Workers ELSE w - 1
FeederDone(w) ==
  IF kind = "ring" THEN worker[Feeder(w)] \in {"free_in", "ended"}
  ELSE IF kind = "parallel" \/ w = 1 THEN main \in {"drain", "done"}
  ELSE worker[w - 1] = "ended"

LEMMA Upstream ==
  ASSUME NetTyped, MainPlaces, WorkerPlaces, Holders,
         NEW w \in N!Workerset, worker[w] # "none", writers[N!In(w)] = {}
  PROVE  FeederDone(w)
<1>0. /\ kind \in {"chain", "sink", "parallel", "ring"} /\ at \in Nat
      /\ \A v \in N!Workerset : worker[v] \in N!Labels /\ v \in 1 .. Workers
      /\ w \in Nat /\ w >= 1 /\ w <= Workers
  BY PipelinesAssumption DEF NetTyped, PlacesTyped, N!Workerset
<1>1. Spawned(w) BY DEF WorkerPlaces
<1>2. CASE kind \in {"chain", "sink"} /\ w = 1
  <2>1. N!User \notin writers[1] /\ 1 \in N!Pipes BY <1>2, Numbers DEF N!In
  <2>2. ~UserWrites(1) BY <2>1 DEF Holders, MainHolds
  <2> QED BY <1>1, <1>2, <2>2 DEF UserWrites, MainPlaces, Spawned, FeederDone
<1>3. CASE kind = "parallel"
  <2>1. N!User \notin writers[1] /\ N!Owner \notin writers[1] /\ 1 \in N!Pipes
    BY <1>3, Numbers DEF N!In
  <2>2. ~UserWrites(1) /\ ~OwnerAt(1) BY <2>1 DEF Holders, MainHolds
  <2> QED BY <1>1, <1>3, <2>2 DEF UserWrites, OwnerAt, MainPlaces, Spawned, FeederDone
<1>4. CASE kind \in {"chain", "sink"} /\ w # 1
  <2>1. w - 1 \in N!Workerset /\ w \in N!Pipes
    BY <1>0, <1>4, Numbers DEF N!Workerset, N!Pipes
  <2>2. N!Out(w - 1) = w /\ N!In(w) = w
    BY <1>0, <1>4 DEF N!Out, N!In
  <2>3. w - 1 \notin writers[w] BY <2>2
  <2>4. ~Writes(w - 1) BY <2>1, <2>2, <2>3 DEF Holders, ThreadsWrite
  <2>5. Spawned(w - 1) BY <1>0, <1>1, <1>4, Numbers DEF Spawned
  <2>6. worker[w - 1] # "none" /\ worker[w - 1] \in N!Labels
    BY <1>0, <2>1, <2>5 DEF WorkerPlaces
  <2> QED BY <1>4, <2>4, <2>6 DEF Writes, N!Labels, FeederDone
<1>5. CASE kind = "ring"
  <2>1. Feeder(w) \in N!Workerset /\ N!Out(Feeder(w)) = w /\ N!In(w) = w /\ w \in N!Pipes
    <3>1. Feeder(w) \in N!Workerset BY <1>0, Numbers DEF Feeder, N!Workerset
    <3>2. N!Out(Feeder(w)) = IF Feeder(w) = Workers THEN 1 ELSE Feeder(w) + 1
      BY <1>5, <3>1, OutIs
    <3> QED BY <1>0, <1>5, <3>1, <3>2, Numbers DEF Feeder, N!In
  <2>2. Feeder(w) \notin writers[w] BY <2>1
  <2>3. ~Writes(Feeder(w)) BY <2>1, <2>2 DEF Holders, ThreadsWrite
  <2>4. main # "new" /\ (w # 1 => Spawned(w - 1) /\ w - 1 \in N!Workerset)
    BY <1>0, <1>1, <1>5, <2>1, Numbers DEF Spawned, Feeder
  <2>5. worker[Feeder(w)] # "none"
    BY <1>5, <2>1, <2>3, <2>4 DEF Writes, Feeder, WorkerPlaces
  <2> QED BY <1>0, <1>5, <2>1, <2>3, <2>5 DEF Writes, FeederDone, N!Labels
<1> QED BY <1>0, <1>2, <1>3, <1>4, <1>5

LEMMA EarlyStep ==
  ASSUME Shape, [N!Next]_netv PROVE Early'
<1> USE DEF N!Rest, N!MainRest, N!pipev
<1>0. worker \in [N!Workerset -> N!Labels] /\ at \in Nat
  BY DEF Shape, NetTyped, PlacesTyped
<1>1. CASE N!Main
  <2>1. Building' => /\ Building /\ UNCHANGED <<queue, got, handled, result, printed>>
                     /\ worker' = worker \/ worker' = [worker EXCEPT ![at] = "pop"]
    BY <1>1 DEF Building, N!Go, N!Main, N!pipe_pipeline, N!StageConnect, N!StageOut, N!StageFree,
      N!StageSink, N!PipelineReturn, N!ParallelNew, N!Instance, N!ParallelHandles, N!ParallelFree,
      N!Feed, N!FeedEnd, N!Drain, N!DrainEnd, N!RingNew, N!RingIn, N!RingFree, N!RingOut,
      N!spawn_thread, N!Spawn, N!Token, N!Join
  <2> QED BY <1>0, <2>1 DEF Early, Shape
<1>2. ASSUME NEW w \in N!Workerset, N!Worker(w) PROVE ~Building
  <2>1. SUFFICES ASSUME Building PROVE FALSE OBVIOUS
  <2>2. /\ \A v \in N!Workerset : worker[v] \in {"none", "pop"}
        /\ \A p \in N!Pipes : queue[p] = <<>>
    BY <2>1 DEF Early, Shape
  <2>3. N!PopEnded(w) \/ N!RingEnded(w)
    BY <1>2, <2>2, OutIs DEF N!Worker, N!PopRound, N!Call, N!LastCall, N!FreeIn, N!FreeOut,
      N!RingPop, N!At
  <2>4. writers[N!In(w)] = {} /\ worker[w] # "none"
    BY <2>3 DEF N!PopEnded, N!RingEnded, N!Ended, N!At
  <2>5. FeederDone(w) BY <2>4, Upstream DEF Shape
  <2>6. kind = "ring" => Feeder(w) \in N!Workerset
    BY Numbers DEF Feeder, N!Workerset
  <2>7. kind # "ring" /\ w # 1 => w - 1 \in N!Workerset
    BY Numbers DEF N!Workerset
  <2> QED BY <2>1, <2>2, <2>5, <2>6, <2>7 DEF FeederDone, Building
<1>3. ASSUME NEW w \in N!Workerset, N!Worker(w) PROVE Early'
  <2>1. main' = main
    BY <1>3 DEF N!Worker, N!PopRound, N!PopEnded, N!Call, N!LastCall, N!FreeIn, N!FreeOut,
      N!RingPop, N!RingEnded
  <2> QED BY <1>2, <1>3, <2>1 DEF Early, Building
<1>4. CASE UNCHANGED netv BY <1>4 DEF netv, Early, Building, Shape
<1> QED BY <1>1, <1>3, <1>4 DEF N!Next

LEMMA ShapeInit == ASSUME N!Init PROVE Shape
<1> USE Numbers, Distinct DEF N!Init
<1>1. kind \in {"chain", "sink", "parallel", "ring"} BY PipelinesAssumption
<1>2. passes \in Nat BY PipelinesAssumption
<1>3. <<>> \in Seq(Nat) /\ {} \in HolderSets /\ "none" \in N!Labels /\ Len(<<>>) = 0
  BY EmptySeq, Sets DEF N!Labels
<1>4. NetTyped BY <1>2, <1>3 DEF NetTyped, HandlesTyped, PlacesTyped, DataTyped
<1>5. Room BY <1>3 DEF Room
<1>6. MainPlaces BY DEF MainPlaces
<1>7. WorkerPlaces BY DEF WorkerPlaces, Spawned
<1>8. Holders
  BY <1>1 DEF Holders, ThreadsWrite, ThreadsRead, MainHolds, Writes, Reads, OwnerAt, UserWrites, UserReads
<1>9. Early BY DEF Early
<1> QED BY <1>4, <1>5, <1>6, <1>7, <1>8, <1>9 DEF Shape

LEMMA ShapeStep == ASSUME Shape, [N!Next]_netv PROVE Shape'
<1> USE DEF Shape
<1>1. HandlesTyped' BY HandlesTypedStep
<1>2. PlacesTyped' BY PlacesTypedStep
<1>3. DataTyped'
  <2>1. CASE UNCHANGED netv BY <2>1 DEF netv, NetTyped, DataTyped
  <2> QED BY <2>1, DataTypedMain, DataTypedWorker DEF N!Next
<1>4. NetTyped' BY <1>1, <1>2, <1>3 DEF NetTyped
<1>5. Room' BY RoomStep
<1>6. MainPlaces' BY MainPlacesStep
<1>7. WorkerPlaces' BY WorkerPlacesStep
<1>8. Holders' BY ThreadsWriteStep, ThreadsReadStep, MainHoldsStep DEF Holders
<1>9. Early' BY EarlyStep
<1> QED BY <1>4, <1>5, <1>6, <1>7, <1>8, <1>9

-----------------------------------------------------------------------------
(* The handles.                                                            *)
LEMMA NetInit == AnyInit => N!Init BY DEF AnyInit
LEMMA NetStep == [AnyNext]_allv => [N!Next]_netv BY DEF AnyNext, allv

LEMMA AlwaysShape == AnyFairSpec => []Shape
<1>1. AnyInit => Shape BY NetInit, ShapeInit
<1>2. Shape /\ [AnyNext]_allv => Shape' BY NetStep, ShapeStep
<1> QED BY <1>1, <1>2, PTL DEF AnyFairSpec

(* Every thread frees both its handles and frees none before its end, and  *)
(* nothing of a pipeline that is over keeps a pipe allocated.              *)
THEOREM HandlesAreFreed == AnyFairSpec => []HandlesFreed
<1>1. ASSUME Shape PROVE HandlesFreed
  <2>1. ASSUME NEW w \in N!Workerset, worker[w] = "ended", NEW p \in N!Pipes
        PROVE  w \notin writers[p] \cup readers[p]
    BY <1>1, <2>1 DEF Shape, Holders, ThreadsWrite, ThreadsRead, Writes, Reads
  <2>2. ASSUME NEW w \in N!Workerset, worker[w] \in {"pop", "call", "last"}
        PROVE  w \in readers[N!In(w)] /\ w \in writers[N!Out(w)]
    BY <1>1, <2>2, OutIs DEF Shape, Holders, ThreadsWrite, ThreadsRead, Writes, Reads
  <2>3. ASSUME main = "done", \A w \in N!Workerset : worker[w] \in {"none", "ended"},
               NEW p \in N!Pipes
        PROVE  writers[p] \cup readers[p] = {}
    <3>1. kind # "ring" BY <1>1, <2>3 DEF Shape, MainPlaces
    <3>2. \A w \in N!Workerset : w \notin writers[p] /\ w \notin readers[p]
      BY <1>1, <2>3, <3>1 DEF Shape, Holders, ThreadsWrite, ThreadsRead, Writes, Reads
    <3>3. \A x \in {N!Owner, N!User} : x \notin writers[p] /\ x \notin readers[p]
      BY <1>1, <2>3 DEF Shape, Holders, MainHolds, OwnerAt, UserWrites, UserReads
    <3>4. writers[p] \in HolderSets /\ readers[p] \in HolderSets
      BY <1>1 DEF Shape, NetTyped, HandlesTyped
    <3> QED BY <3>2, <3>3, <3>4 DEF HolderSets
  <2> QED BY <2>1, <2>2, <2>3 DEF HandlesFreed, N!HandlesFreed, N!At
<1> QED BY <1>1, AlwaysShape, PTL

(* A handle is issued only where main's pipe_t still holds both kinds.     *)
LEMMA IssuedWhileHeld ==
  ASSUME Shape, [N!Next]_netv, NEW p \in N!Pipes
  PROVE  /\ writers[p] = {} /\ readers[p] # {} => writers'[p] = {}
         /\ readers[p] = {} /\ writers[p] # {} => readers'[p] = {}
<1> USE DEF N!Issue, N!pipe_free, N!New, N!pipev, N!Go
<1> DEFINE Final == /\ writers[p] = {} /\ readers[p] # {} => writers'[p] = {}
                    /\ readers[p] = {} /\ writers[p] # {} => readers'[p] = {}
<1>0. /\ HandlesTyped /\ MainHolds /\ MainPlaces /\ Holders /\ WorkerPlaces
      /\ kind \in {"chain", "sink", "parallel", "ring"} /\ at \in Nat
      /\ writers \in [N!Pipes -> HolderSets] /\ readers \in [N!Pipes -> HolderSets]
  BY PipelinesAssumption DEF Shape, NetTyped, HandlesTyped, PlacesTyped, Holders
<1>1. CASE main = "new"
  <2>1. \A x \in {N!Owner, N!User} : x \notin writers[p] /\ x \notin readers[p]
    BY <1>0, <1>1 DEF MainHolds, OwnerAt, UserWrites, UserReads
  <2>2. \A w \in N!Workerset : w \notin writers[p] /\ w \notin readers[p]
    BY <1>0, <1>1 DEF Holders, ThreadsWrite, ThreadsRead, Writes, Reads, WorkerPlaces, Spawned
  <2> QED BY <1>0, <2>1, <2>2 DEF HolderSets
<1>2. CASE N!StageConnect
  <2>1. p = at + 1 => readers[p] = {} /\ writers[p] = {}
    <3> SUFFICES ASSUME p = at + 1 PROVE readers[p] = {} /\ writers[p] = {}
      OBVIOUS
    <3>1. \A x \in {N!Owner, N!User} : x \notin writers[p] /\ x \notin readers[p]
      BY <1>0, <1>2, Numbers DEF MainHolds, OwnerAt, UserWrites, UserReads, N!StageConnect, MainPlaces
    <3>2. kind \in {"chain", "sink"} /\ at <= Workers
      BY <1>0, <1>2 DEF N!StageConnect, MainPlaces
    <3>3. \A w \in N!Workerset : w \in Nat /\ N!In(w) = w /\ N!Out(w) = w + 1
      BY <3>2, OutIs, Numbers DEF N!In
    <3>4. \A w \in N!Workerset : w \notin writers[p] /\ w \notin readers[p]
      BY <1>0, <1>2, <3>2, <3>3, Numbers DEF Holders, ThreadsWrite, ThreadsRead, Writes, Reads,
        WorkerPlaces, Spawned, N!StageConnect
    <3> QED BY <1>0, <3>1, <3>4 DEF HolderSets
  <2>2. p = at => readers[p] # {}
    BY <1>0, <1>2, Numbers DEF MainHolds, UserReads, N!StageConnect, MainPlaces
  <2> QED BY <1>0, <1>2, <2>1, <2>2 DEF N!StageConnect
<1>3. CASE N!StageOut
  <2>1. p = at + 1 => readers[p] # {} /\ writers[p] # {}
    BY <1>0, <1>3 DEF MainHolds, OwnerAt, N!StageOut
  <2> QED BY <1>0, <1>3, <2>1 DEF N!StageOut
<1>4. CASE N!Instance
  <2>1. p \in {1, 2} => readers[p] # {} /\ writers[p] # {}
    BY <1>0, <1>4 DEF MainHolds, OwnerAt, N!Instance
  <2> QED BY <1>0, <1>4, <2>1 DEF N!Instance
<1>5. CASE N!ParallelHandles
  <2>1. p \in {1, 2} => readers[p] # {} /\ writers[p] # {}
    BY <1>0, <1>5 DEF MainHolds, OwnerAt, N!ParallelHandles
  <2> QED BY <1>0, <1>5, <2>1 DEF N!ParallelHandles
<1>6. CASE N!RingIn
  <2>1. p = at => readers[p] # {} /\ writers[p] # {}
    BY <1>0, <1>6 DEF MainHolds, OwnerAt, N!RingIn
  <2> QED BY <1>0, <1>6, <2>1 DEF N!RingIn
<1>7. CASE N!RingOut
  <2>1. p = at + 1 => readers[p] = {} /\ writers[p] = {}
    <3> SUFFICES ASSUME p = at + 1 PROVE readers[p] = {} /\ writers[p] = {}
      OBVIOUS
    <3>1. \A x \in {N!Owner, N!User} : x \notin writers[p] /\ x \notin readers[p]
      BY <1>0, <1>7, Numbers DEF MainHolds, OwnerAt, UserWrites, UserReads, N!RingOut, MainPlaces
    <3>2. kind = "ring" /\ at < Workers /\ at >= 1
      BY <1>0, <1>7 DEF N!RingOut, MainPlaces
    <3>3. \A w \in N!Workerset : w \in Nat /\ N!In(w) = w /\ N!Out(w) = IF w = Workers THEN 1 ELSE w + 1
      BY <3>2, OutIs, Numbers DEF N!In
    <3>4. \A w \in N!Workerset : w \notin writers[p] /\ w \notin readers[p]
      BY <1>0, <1>7, <3>2, <3>3, Numbers DEF Holders, ThreadsWrite, ThreadsRead, Writes, Reads,
        WorkerPlaces, Spawned, N!RingOut
    <3> QED BY <1>0, <3>1, <3>4 DEF HolderSets
  <2> QED BY <1>0, <1>7, <2>1 DEF N!RingOut
<1>8. CASE writers'[p] \subseteq writers[p] /\ readers'[p] \subseteq readers[p]
  BY <1>8
<1>9. CASE N!StageFree \/ N!StageSink \/ N!PipelineReturn \/ N!ParallelFree \/ N!Feed \/ N!FeedEnd
           \/ N!Drain \/ N!DrainEnd \/ N!RingFree \/ N!spawn_thread \/ N!Token \/ N!Join
  BY <1>0, <1>8, <1>9 DEF N!StageFree, N!StageSink, N!PipelineReturn, N!ParallelFree, N!Feed, N!FeedEnd,
    N!Drain, N!DrainEnd, N!RingFree, N!spawn_thread, N!Token, N!Join
<1>10. CASE N!pipe_pipeline \/ N!ParallelNew \/ N!RingNew
  BY <1>1, <1>10 DEF N!pipe_pipeline, N!ParallelNew, N!RingNew
<1>11. ASSUME NEW w \in N!Workerset, N!Worker(w) PROVE Final
  BY <1>0, <1>8, <1>11 DEF N!Worker, N!PopRound, N!PopEnded, N!Call, N!LastCall, N!FreeIn, N!FreeOut,
    N!RingPop, N!RingEnded, N!MainRest
<1>12. CASE UNCHANGED netv BY <1>8, <1>12 DEF netv
<1> QED
  BY <1>2, <1>3, <1>4, <1>5, <1>6, <1>7, <1>9, <1>10, <1>11, <1>12 DEF N!Next, N!Main

(* The end of a pipe is final, whoever is still being given handles.       *)
THEOREM PipesEndOnce == AnyFairSpec => EndsAreFinal
<1>1. Shape /\ [N!Next]_netv =>
        \A p \in N!Pipes :
          /\ writers[p] = {} /\ readers[p] # {} => writers'[p] = {}
          /\ readers[p] = {} /\ writers[p] # {} => readers'[p] = {}
  BY IssuedWhileHeld
<1> QED BY <1>1, AlwaysShape, NetStep, PTL DEF AnyFairSpec, EndsAreFinal, N!EndsAreFinal

-----------------------------------------------------------------------------
(* The ring: there is one token, and what it has left to go tells how often*)
(* it went round, or there is none and its last holder has printed.        *)
Printer == (passes % Workers) + 1
TokenIsAt(p, n, r) ==
  /\ queue = [q \in N!Pipes |-> IF q = p THEN <<n>> ELSE <<>>]
  /\ passes = n + ((p - 1) + r * Workers)
Passing ==
  /\ printed = {} /\ \A w \in N!Workerset : worker[w] = "pop"
  /\ \E p \in N!Workerset, n \in Nat, r \in Nat : TokenIsAt(p, n, r)
Over == printed = {Printer} /\ \A p \in N!Pipes : queue[p] = <<>>
RingToken ==
  kind = "ring" /\ ~Building =>
    /\ main = "exit" => worker[Workers] = "ended"
    /\ Passing \/ Over

LEMMA PrinterIs ==
  ASSUME NEW p \in N!Workerset, NEW r \in Nat, passes = 0 + ((p - 1) + r * Workers)
  PROVE  Printer = p
<1>1. p - 1 \in 0 .. Workers - 1 /\ Workers \in Nat \ {0}
  BY Numbers DEF N!Workerset
<1>2. \A a, c \in Nat, k \in Nat \ {0} : a < k => (a + c * k) % k = a
  OBVIOUS
<1>3. passes = (p - 1) + r * Workers /\ p - 1 \in Nat /\ p - 1 < Workers /\ p \in Nat
  <2>1. r * Workers \in Nat BY <1>1
  <2> QED BY <1>1, <2>1, Numbers
<1>4. passes % Workers = p - 1 BY <1>1, <1>2, <1>3
<1> QED BY <1>3, <1>4 DEF Printer

LEMMA TokenPushed == ASSUME Shape, N!Token PROVE Passing'
<1>0. /\ kind = "ring" /\ Building /\ main = "token" /\ passes \in Nat
      /\ queue \in [N!Pipes -> Seq(Nat)]
  BY DEF Shape, NetTyped, DataTyped, MainPlaces, N!Token, Building
<1>1. \A w \in N!Workerset : worker[w] = "pop"
  BY <1>0 DEF Shape, Early, WorkerPlaces, Spawned
<1>2. 1 \in readers[1]
  BY <1>0, <1>1, Numbers DEF Shape, Holders, ThreadsRead, Reads, N!In
<1>3. \A p \in N!Pipes : queue[p] = <<>> /\ printed = {} BY <1>0 DEF Shape, Early
<1>4. queue' = [queue EXCEPT ![1] = <<>> \o <<passes>>]
  BY <1>2, <1>3, Numbers DEF N!Token, N!Push
<1>5. <<>> \o <<passes>> = <<passes>> OBVIOUS
<1>6. queue' = [q \in N!Pipes |-> IF q = 1 THEN <<passes>> ELSE <<>>]
  BY <1>0, <1>3, <1>4, <1>5
<1>7. passes' = passes + ((1 - 1) + 0 * Workers) /\ worker' = worker /\ printed' = printed
  BY <1>0, Numbers DEF N!Token, N!Rest
<1> QED BY <1>0, <1>1, <1>3, <1>6, <1>7, Numbers DEF Passing, TokenIsAt

(* The token at 0 is printed.                                              *)
LEMMA TokenPrinted ==
  ASSUME Shape, kind = "ring", Passing, NEW p \in N!Workerset, NEW r \in Nat, TokenIsAt(p, 0, r),
         N!RingPop(p)
  PROVE  Over'
<1>0. N!In(p) = p /\ p \in N!Pipes /\ queue \in [N!Pipes -> Seq(Nat)]
  BY Numbers DEF N!In, Shape, NetTyped, DataTyped
<1>1. queue[p] = <<0>> /\ Head(<<0>>) = 0 /\ Len(<<0>>) = 1
  BY <1>0 DEF TokenIsAt
<1>2. printed' = printed \cup {p} /\ N!Pop(p, 1) /\ passes' = passes
  BY <1>0, <1>1 DEF N!RingPop, N!PassOn
<1>3. N!Takes(p, 1) = 1 BY <1>1 DEF N!Takes
<1>4. SubSeq(<<0>>, 1 + 1, 1) = <<>> OBVIOUS
<1>5. queue' = [queue EXCEPT ![p] = <<>>]
  BY <1>1, <1>2, <1>3, <1>4 DEF N!Pop
<1>6. \A q \in N!Pipes : queue'[q] = <<>>
  BY <1>0, <1>5 DEF TokenIsAt
<1>7. Printer = p BY PrinterIs DEF TokenIsAt
<1>8. Printer' = Printer BY <1>2 DEF Printer
<1> QED BY <1>2, <1>6, <1>7, <1>8 DEF Over, Passing

(* Otherwise it goes to the next thread, and from the last to the first.   *)
LEMMA TokenPassed ==
  ASSUME Shape, kind = "ring", Passing, NEW p \in N!Workerset, NEW n \in Nat \ {0}, NEW r \in Nat,
         TokenIsAt(p, n, r), N!RingPop(p)
  PROVE  Passing'
<1>0. /\ N!In(p) = p /\ p \in N!Pipes /\ queue \in [N!Pipes -> Seq(Nat)]
      /\ N!Out(p) = IF p = Workers THEN 1 ELSE p + 1
      /\ N!Out(p) \in N!Pipes
  BY Numbers, OutIs DEF N!In, Shape, NetTyped, DataTyped
<1>1. queue[p] = <<n>> /\ Head(<<n>>) = n /\ Tail(<<n>>) = <<>>
  BY <1>0 DEF TokenIsAt
<1>2. UNCHANGED <<worker, printed, passes>>
  BY <1>0, <1>1 DEF N!RingPop, N!PassOn
<1> DEFINE middle == [queue EXCEPT ![p] = Tail(@)]
<1>10. queue' = [middle EXCEPT ![N!Out(p)] = Append(@, n - 1)]
  BY <1>0, <1>1 DEF N!RingPop, N!PassOn
<1>3. PICK t \in N!Workerset : t = N!Out(p)
  BY <1>0, Numbers DEF N!Workerset
<1>4. n - 1 \in Nat /\ Append(<<>>, n - 1) = <<n - 1>> OBVIOUS
<1>5. queue' = [q \in N!Pipes |-> IF q = t THEN <<n - 1>> ELSE <<>>]
  <2>1. middle = [q \in N!Pipes |-> <<>>] BY <1>0, <1>1 DEF TokenIsAt
  <2>2. queue' = [middle EXCEPT ![t] = Append(@, n - 1)] BY <1>10, <1>3
  <2> HIDE DEF middle
  <2> QED BY <1>0, <1>3, <1>4, <2>1, <2>2
<1>6. \E s \in Nat : passes = (n - 1) + ((t - 1) + s * Workers)
  <2>1. passes = n + ((p - 1) + r * Workers) BY DEF TokenIsAt
  <2>2. CASE p = Workers
    <3>1. \A a, b \in Nat, k \in Nat \ {0} : a + ((k - 1) + b * k) = (a - 1) + ((1 - 1) + (b + 1) * k)
      OBVIOUS
    <3>2. t = 1 /\ r + 1 \in Nat BY <1>0, <1>3, <2>2
    <3> QED BY <2>1, <2>2, <3>1, <3>2, Numbers
  <2>3. CASE p # Workers
    <3>1. \A a, b, c \in Int : a + ((b - 1) + c) = (a - 1) + (((b + 1) - 1) + c)
      OBVIOUS
    <3>2. t = p + 1 /\ r * Workers \in Int /\ p \in Int BY <1>0, <1>3, <2>3, Numbers
    <3> QED BY <2>1, <3>1, <3>2
  <2> QED BY <2>2, <2>3
<1>7. PICK s \in Nat : passes = (n - 1) + ((t - 1) + s * Workers) BY <1>6
<1>8. TokenIsAt(t, n - 1, s)' BY <1>2, <1>5, <1>7 DEF TokenIsAt
<1>9. \E q \in N!Workerset, m \in Nat, k \in Nat : TokenIsAt(q, m, k)'
  BY <1>3, <1>4, <1>8
<1> QED BY <1>2, <1>9 DEF Passing

LEMMA RingTokenStep == ASSUME Shape, RingToken, [N!Next]_netv PROVE RingToken'
<1> USE DEF N!MainRest, N!pipev, N!Rest, N!Becomes, N!At, N!Go
<1>0. worker \in [N!Workerset -> N!Labels] /\ Workers \in N!Workerset
  BY Numbers DEF Shape, NetTyped, PlacesTyped
<1>1. CASE N!Main
  <2>1. SUFFICES ASSUME (kind = "ring")', ~Building' PROVE RingToken'
    BY DEF RingToken
  <2>2. kind = "ring"
    BY <1>1, <2>1 DEF N!Main, N!pipe_pipeline, N!StageConnect, N!StageOut, N!StageFree, N!StageSink,
      N!PipelineReturn, N!ParallelNew, N!Instance, N!ParallelHandles, N!ParallelFree, N!Feed,
      N!FeedEnd, N!Drain, N!DrainEnd, N!RingNew, N!RingIn, N!RingFree, N!RingOut,
      N!spawn_thread, N!Token, N!Join
  <2>3. N!Token \/ N!Join
    BY <1>1, <2>1, <2>2 DEF Shape, MainPlaces, Building, N!Main, N!pipe_pipeline, N!StageConnect,
      N!StageOut, N!StageFree, N!StageSink, N!PipelineReturn, N!ParallelNew, N!Instance,
      N!ParallelHandles, N!ParallelFree, N!Feed, N!FeedEnd, N!Drain, N!DrainEnd, N!RingNew,
      N!RingIn, N!RingFree, N!RingOut, N!spawn_thread
  <2>4. CASE N!Token
    <3>1. main' = "join" BY <2>4 DEF N!Token
    <3> QED BY <2>4, <3>1, TokenPushed DEF RingToken
  <2>5. CASE N!Join
    <3>1. worker[Workers] = "ended" /\ ~Building
      BY <2>2, <2>5 DEF N!Join, Shape, MainPlaces, Building
    <3>2. UNCHANGED <<queue, worker, printed, passes>> BY <2>5 DEF N!Join
    <3>3. (Passing \/ Over)'
      BY <2>2, <3>1, <3>2 DEF RingToken, Passing, Over, TokenIsAt, Printer
    <3> QED BY <3>1, <3>2, <3>3 DEF RingToken
  <2> QED BY <2>3, <2>4, <2>5
<1>2. ASSUME NEW w \in N!Workerset, N!Worker(w) PROVE RingToken'
  <2>1. main # "exit" /\ UNCHANGED <<kind, main, at, passes>>
    BY <1>2 DEF N!Worker, N!PopRound, N!PopEnded, N!Call, N!LastCall, N!FreeIn, N!FreeOut,
      N!RingPop, N!RingEnded
  <2>2. SUFFICES ASSUME kind = "ring", ~Building PROVE (Passing \/ Over)'
    BY <2>1 DEF RingToken, Building
  <2>3. Passing \/ Over BY <2>2 DEF RingToken
  <2>4. N!In(w) = w /\ w \in N!Pipes BY <2>2, Numbers DEF N!In
  <2>5. CASE N!RingPop(w)
    <3>1. ~Over BY <2>4, <2>5 DEF Over, N!RingPop
    <3>2. PICK p \in N!Workerset, n \in Nat, r \in Nat : TokenIsAt(p, n, r)
      BY <2>3, <3>1 DEF Passing
    <3>3. p = w BY <2>4, <2>5, <3>2 DEF TokenIsAt, N!RingPop
    <3> QED BY <2>2, <2>3, <2>5, <3>1, <3>2, <3>3, TokenPrinted, TokenPassed
  <2>6. CASE ~N!RingPop(w)
    <3>1. ~Passing
      <4>1. SUFFICES ASSUME Passing PROVE FALSE OBVIOUS
      <4>2. N!RingEnded(w)
        BY <1>2, <2>2, <2>6, <4>1 DEF Passing, N!Worker, N!PopRound, N!PopEnded, N!Call, N!LastCall,
          N!FreeIn, N!FreeOut
      <4>3. FeederDone(w)
        BY <4>2, Upstream DEF N!RingEnded, N!Ended, Shape
      <4>4. Feeder(w) \in N!Workerset BY Numbers DEF Feeder, N!Workerset
      <4> QED BY <2>2, <4>1, <4>3, <4>4 DEF FeederDone, Passing
    <3>2. UNCHANGED <<queue, printed>>
      BY <1>2, <2>2, <2>6 DEF N!Worker, N!PopRound, N!PopEnded, N!Call, N!LastCall, N!FreeIn,
        N!FreeOut, N!RingEnded, Shape, WorkerPlaces
    <3> QED BY <2>1, <2>3, <3>1, <3>2 DEF Over, Printer
  <2> QED BY <2>5, <2>6
<1>3. CASE UNCHANGED netv
  BY <1>3 DEF netv, RingToken, Building, Passing, Over, TokenIsAt, Printer
<1> QED BY <1>1, <1>2, <1>3 DEF N!Next

LEMMA AlwaysRing == AnyFairSpec => [](Shape /\ RingToken)
<1>1. AnyInit => Shape /\ RingToken
  BY NetInit, ShapeInit DEF N!Init, RingToken, Building
<1>2. Shape /\ RingToken /\ [AnyNext]_allv => (Shape /\ RingToken)'
  BY NetStep, ShapeStep, RingTokenStep
<1> QED BY <1>1, <1>2, PTL DEF AnyFairSpec

(* The thread the token stops at prints, no other does, and the process    *)
(* waits for it.                                                           *)
THEOREM RingAnswers == AnyFairSpec => []RingAnswer
<1>1. ASSUME Shape, RingToken PROVE RingAnswer
  <2>1. CASE Building
    BY <1>1, <2>1 DEF Shape, Early, Building, RingAnswer, N!RingAnswer
  <2>2. CASE kind = "ring" /\ ~Building
    <3>1. main = "exit" => Over
      BY <1>1, <2>2, Numbers DEF RingToken, Passing
    <3> QED BY <1>1, <2>2, <3>1 DEF RingToken, Passing, Over, Printer, RingAnswer, N!RingAnswer
  <2> QED BY <2>1, <2>2 DEF RingAnswer, N!RingAnswer
<1> QED BY <1>1, AlwaysRing, PTL

-----------------------------------------------------------------------------
(* A chain: what was passed to a processor, what it holds and what is in   *)
(* its pipe follow one another.                                            *)
Counts(s, from) == \A k \in 1 .. Len(s) : s[k] = from + k
Fed == CASE main = "feed" -> at - 1 [] main \in {"drain", "done"} -> Elements [] OTHER -> 0
Inflow(w) == IF w = 1 THEN Fed ELSE Len(handled[w - 1])
Piped(w) == ~(kind = "sink" /\ w = Workers)
Finished == {"last", "free_in", "free_out", "ended"}

ChainThread(w) ==
  /\ Counts(handled[w], 0) /\ Counts(got[w], Len(handled[w]))
  /\ Inflow(w) <= Elements /\ Len(handled[w]) <= Elements
  /\ Piped(w) =>
       /\ Counts(queue[w], Len(handled[w]) + Len(got[w]))
       /\ (Len(handled[w]) + Len(got[w])) + Len(queue[w]) = Inflow(w)
  /\ worker[w] \in Finished => FeederDone(w) /\ Len(handled[w]) = Elements
ChainEnd ==
  kind = "chain" =>
    /\ Counts(result, 0) /\ Counts(queue[Workers + 1], Len(result))
    /\ Len(result) + Len(queue[Workers + 1]) = Len(handled[Workers])
    /\ main = "done" => worker[Workers] = "ended" /\ Len(result) = Elements
ChainData ==
  kind \in {"chain", "sink"} => ChainEnd /\ \A w \in N!Workerset : ChainThread(w)

LEMMA CountsConcat ==
  ASSUME NEW s \in Seq(Nat), NEW t \in Seq(Nat), NEW a \in Nat, Counts(s, a), Counts(t, a + Len(s))
  PROVE  s \o t \in Seq(Nat) /\ Len(s \o t) = Len(s) + Len(t) /\ Counts(s \o t, a)
<1>1. /\ s \o t \in Seq(Nat) /\ Len(s \o t) = Len(s) + Len(t)
      /\ \A k \in 1 .. Len(s) + Len(t) : (s \o t)[k] = IF k <= Len(s) THEN s[k] ELSE t[k - Len(s)]
      /\ Len(s) \in Nat /\ Len(t) \in Nat
  BY ConcatProperties, LenProperties
<1>2. ASSUME NEW k \in 1 .. Len(s) + Len(t) PROVE (s \o t)[k] = a + k
  <2>1. CASE k <= Len(s)
    <3>1. k \in 1 .. Len(s) /\ (s \o t)[k] = s[k] BY <1>1, <2>1
    <3> QED BY <3>1 DEF Counts
  <2>2. CASE ~(k <= Len(s))
    <3>1. k - Len(s) \in 1 .. Len(t) /\ (s \o t)[k] = t[k - Len(s)] BY <1>1, <2>2
    <3>2. t[k - Len(s)] = (a + Len(s)) + (k - Len(s)) BY <3>1 DEF Counts
    <3>3. (a + Len(s)) + (k - Len(s)) = a + k BY <1>1
    <3> QED BY <3>1, <3>2, <3>3
  <2> QED BY <2>1, <2>2
<1> QED BY <1>1, <1>2 DEF Counts

LEMMA CountsSplit ==
  ASSUME NEW s \in Seq(Nat), NEW a \in Nat, NEW n \in 0 .. Len(s), Counts(s, a)
  PROVE  /\ SubSeq(s, 1, n) \in Seq(Nat) /\ Len(SubSeq(s, 1, n)) = n
         /\ Counts(SubSeq(s, 1, n), a)
         /\ SubSeq(s, n + 1, Len(s)) \in Seq(Nat) /\ Len(SubSeq(s, n + 1, Len(s))) = Len(s) - n
         /\ Counts(SubSeq(s, n + 1, Len(s)), a + n)
<1>1. Len(s) \in Nat /\ \A k \in 1 .. Len(s) : s[k] \in Nat
  BY LenProperties, ElementOfSeq
<1>2. 1 \in Int /\ n \in Int /\ n + 1 \in Int /\ Len(s) \in Int BY <1>1
<1>3. \A k \in 1 .. n : s[k] \in Nat BY <1>1
<1>4. \A k \in n + 1 .. Len(s) : s[k] \in Nat BY <1>1
<1>5. /\ SubSeq(s, 1, n) \in Seq(Nat)
      /\ Len(SubSeq(s, 1, n)) = IF 1 <= n THEN (n - 1) + 1 ELSE 0
      /\ \A k \in 1 .. ((n - 1) + 1) : SubSeq(s, 1, n)[k] = s[(1 + k) - 1]
  BY <1>2, <1>3, SubSeqProperties
<1>6. /\ SubSeq(s, n + 1, Len(s)) \in Seq(Nat)
      /\ Len(SubSeq(s, n + 1, Len(s))) = IF n + 1 <= Len(s) THEN (Len(s) - (n + 1)) + 1 ELSE 0
      /\ \A k \in 1 .. ((Len(s) - (n + 1)) + 1) : SubSeq(s, n + 1, Len(s))[k] = s[((n + 1) + k) - 1]
  BY <1>2, <1>4, SubSeqProperties
<1>7. Len(SubSeq(s, 1, n)) = n /\ Len(SubSeq(s, n + 1, Len(s))) = Len(s) - n
  BY <1>1, <1>5, <1>6
<1>8. ASSUME NEW k \in 1 .. n PROVE SubSeq(s, 1, n)[k] = a + k
  <2>1. k \in 1 .. ((n - 1) + 1) /\ (1 + k) - 1 = k /\ k \in 1 .. Len(s) BY <1>1
  <2> QED BY <1>5, <2>1 DEF Counts
<1>9. ASSUME NEW k \in 1 .. Len(s) - n PROVE SubSeq(s, n + 1, Len(s))[k] = (a + n) + k
  <2>1. k \in 1 .. ((Len(s) - (n + 1)) + 1) /\ ((n + 1) + k) - 1 = n + k /\ n + k \in 1 .. Len(s)
        /\ a + (n + k) = (a + n) + k
    BY <1>1
  <2> QED BY <1>6, <2>1 DEF Counts
<1> QED BY <1>5, <1>6, <1>7, <1>8, <1>9 DEF Counts

LEMMA Lengths ==
  ASSUME NetTyped
  PROVE  /\ \A w \in N!Workerset :
              /\ handled[w] \in Seq(Nat) /\ Len(handled[w]) \in Nat
              /\ got[w] \in Seq(Nat) /\ Len(got[w]) \in Nat
         /\ \A p \in N!Pipes : queue[p] \in Seq(Nat) /\ Len(queue[p]) \in Nat
         /\ result \in Seq(Nat) /\ Len(result) \in Nat
<1>1. DataTyped BY DEF NetTyped
<1>2. \A w \in N!Workerset : handled[w] \in Seq(Nat) /\ got[w] \in Seq(Nat)
  BY <1>1 DEF DataTyped
<1>3. \A p \in N!Pipes : queue[p] \in Seq(Nat) BY <1>1 DEF DataTyped
<1>4. result \in Seq(Nat) BY <1>1 DEF DataTyped
<1> QED BY <1>2, <1>3, <1>4, LenProperties

(* Nothing is on its way before main has built the chain.                  *)
Nothing ==
  /\ \A p \in N!Pipes : queue[p] = <<>>
  /\ \A w \in N!Workerset :
       worker[w] \in {"none", "pop"} /\ got[w] = <<>> /\ handled[w] = <<>>
  /\ result = <<>>

LEMMA NothingYet == ASSUME Nothing, Fed = 0, main # "done" PROVE ChainData
<1>1. /\ \A p \in N!Pipes : queue[p] = <<>>
      /\ \A w \in N!Workerset : worker[w] \in {"none", "pop"} /\ got[w] = <<>> /\ handled[w] = <<>>
      /\ result = <<>> /\ Len(<<>>) = 0
  BY DEF Nothing
<1>2. Fed = 0 OBVIOUS
<1>3. \A a : Counts(<<>>, a) BY <1>1 DEF Counts
<1>4. ASSUME NEW w \in N!Workerset PROVE ChainThread(w)
  <2>1. w \in N!Pipes /\ (w # 1 => w - 1 \in N!Workerset) BY Numbers DEF N!Workerset
  <2>2. Inflow(w) = 0 BY <1>1, <1>2, <2>1 DEF Inflow
  <2>3. /\ worker[w] \notin Finished /\ handled[w] = <<>> /\ got[w] = <<>> /\ queue[w] = <<>>
        /\ 0 <= Elements
    BY <1>1, <2>1, Numbers DEF Finished
  <2>4. Counts(handled[w], 0) /\ Counts(got[w], Len(handled[w]))
        /\ Counts(queue[w], Len(handled[w]) + Len(got[w]))
    BY <1>3, <2>3
  <2>5. (Len(handled[w]) + Len(got[w])) + Len(queue[w]) = 0 /\ Len(handled[w]) <= Elements
    BY <1>1, <2>3
  <2> QED BY <2>2, <2>3, <2>4, <2>5 DEF ChainThread
<1>5. ChainEnd BY <1>1, <1>3, Numbers DEF ChainEnd
<1> QED BY <1>4, <1>5 DEF ChainData

LEMMA StillNothing == ASSUME Shape, Building PROVE ChainData
<1>1. Nothing /\ Fed = 0 /\ main # "done" BY DEF Shape, Early, Building, Nothing, Fed
<1> QED BY <1>1, NothingYet

(* The thread before stays through with its work.                          *)
LEMMA DoneStays ==
  ASSUME Shape, kind \in {"chain", "sink"}, NEW v \in N!Workerset, FeederDone(v), [N!Next]_netv
  PROVE  FeederDone(v)'
<1> USE DEF N!Go, N!Spawn, N!Rest, N!At, N!Becomes, N!MainRest, N!pipev
<1>0. /\ v # 1 => v - 1 \in N!Workerset
      /\ worker \in [N!Workerset -> N!Labels]
      /\ at \in Nat
  BY Numbers DEF N!Workerset, Shape, NetTyped, PlacesTyped
<1>1. CASE N!Main
  <2>1. kind' = kind /\ (main \in {"drain", "done"} => main' \in {"drain", "done"} /\ worker' = worker)
    BY <1>1 DEF N!Main, N!pipe_pipeline, N!StageConnect, N!StageOut, N!StageFree, N!StageSink,
      N!PipelineReturn, N!ParallelNew, N!Instance, N!ParallelHandles, N!ParallelFree, N!Feed,
      N!FeedEnd, N!Drain, N!DrainEnd, N!RingNew, N!RingIn, N!RingFree, N!RingOut,
      N!spawn_thread, N!Token, N!Join
  <2>2. worker' = worker \/ (worker' = [worker EXCEPT ![at] = "pop"] /\ at \in N!Workerset /\ ~Spawned(at))
    BY <1>1 DEF N!Main, N!pipe_pipeline, N!StageConnect, N!StageOut, N!StageFree, N!StageSink,
      N!PipelineReturn, N!ParallelNew, N!Instance, N!ParallelHandles, N!ParallelFree, N!Feed,
      N!FeedEnd, N!Drain, N!DrainEnd, N!RingNew, N!RingIn, N!RingFree, N!RingOut,
      N!spawn_thread, N!Token, N!Join, Shape, MainPlaces, N!Workerset, Spawned
  <2>3. v # 1 /\ worker[v - 1] = "ended" => worker'[v - 1] = "ended"
    <3>1. CASE worker' = worker BY <3>1
    <3>2. CASE worker' = [worker EXCEPT ![at] = "pop"] /\ at \in N!Workerset /\ ~Spawned(at)
      <4>1. worker[at] = "none" BY <3>2 DEF Shape, WorkerPlaces
      <4> QED BY <1>0, <3>2, <4>1
    <3> QED BY <2>2, <3>1, <3>2
  <2> QED BY <2>1, <2>3 DEF FeederDone
<1>2. ASSUME NEW w \in N!Workerset, N!Worker(w) PROVE FeederDone(v)'
  <2>1. UNCHANGED <<kind, main>>
    BY <1>2 DEF N!Worker, N!PopRound, N!PopEnded, N!Call, N!LastCall, N!FreeIn, N!FreeOut,
      N!RingPop, N!RingEnded
  <2>2. worker[w] # "ended" /\ (worker' = worker \/ \E x : worker' = [worker EXCEPT ![w] = x])
    BY <1>2 DEF N!Worker, N!PopRound, N!PopEnded, N!Call, N!LastCall, N!FreeIn, N!FreeOut,
      N!RingPop, N!RingEnded, N!PassOn
  <2>3. v # 1 /\ worker[v - 1] = "ended" => worker'[v - 1] = "ended"
    BY <1>0, <2>2
  <2> QED BY <2>1, <2>3 DEF FeederDone
<1>3. CASE UNCHANGED netv BY <1>3 DEF netv, FeederDone
<1> QED BY <1>1, <1>2, <1>3 DEF N!Next

(* A thread that nothing happens to.                                       *)
LEMMA KeptThread ==
  ASSUME NEW v \in N!Workerset, ChainThread(v), Piped(v)' <=> Piped(v),
         handled'[v] = handled[v], got'[v] = got[v], Piped(v) => queue'[v] = queue[v],
         Inflow(v)' = Inflow(v),
         worker'[v] \in Finished => FeederDone(v)' /\ Len(handled[v]) = Elements
  PROVE  ChainThread(v)'
BY DEF ChainThread, Finished

LEMMA KeptEnd ==
  ASSUME ChainEnd, kind' = kind, result' = result, queue'[Workers + 1] = queue[Workers + 1],
         handled'[Workers] = handled[Workers],
         main' = "done" /\ kind = "chain" => worker'[Workers] = "ended" /\ Len(result) = Elements
  PROVE  ChainEnd'
BY DEF ChainEnd

(* What main does moves the first element of what is still to come, or the *)
(* caller's result.                                                        *)
LEMMA ChainFeed ==
  ASSUME Shape, ChainData, kind \in {"chain", "sink"}, N!Feed PROVE ChainData'
<1>1. /\ main = "feed" /\ main' = "feed" /\ at' = at + 1 /\ at \in 1 .. Elements
      /\ UNCHANGED <<kind, readers, writers, worker, got, handled, result>>
      /\ queue' = IF readers[1] = {} THEN queue ELSE [queue EXCEPT ![1] = @ \o <<at>>]
      /\ queue \in [N!Pipes -> Seq(Nat)]
  <2>1. at \in 1 .. Elements + 1 /\ at <= Elements /\ main = "feed"
    BY DEF N!Feed, Shape, MainPlaces
  <2>2. at \in 1 .. Elements BY <2>1, Numbers
  <2>3. queue \in [N!Pipes -> Seq(Nat)] BY DEF Shape, NetTyped, DataTyped
  <2>4. queue' = IF readers[1] = {} THEN queue ELSE [queue EXCEPT ![1] = @ \o <<at>>]
    BY DEF N!Feed, N!Push
  <2> QED BY <2>1, <2>2, <2>3, <2>4 DEF N!Feed, N!Go, N!Rest
<1>2. /\ Fed = at - 1 /\ Fed' = at /\ at \in Nat /\ Len(<<at>>) = 1 /\ <<at>>[1] = at
      /\ <<at>> \in Seq(Nat)
  BY <1>1 DEF Fed
<1>3. \A v \in N!Workerset : ChainThread(v)
  BY DEF ChainData
<1>4. ASSUME NEW v \in N!Workerset PROVE ChainThread(v)'
  <2>1. CASE v # 1
    <3>1. queue'[v] = queue[v] /\ Inflow(v)' = Inflow(v) /\ v \in N!Pipes
      BY <1>1, <2>1, Numbers DEF Inflow
    <3>2. worker[v] \in Finished => FeederDone(v)' /\ Len(handled[v]) = Elements
      BY <1>1, <1>3, <2>1 DEF ChainThread, FeederDone
    <3> QED BY <1>1, <1>3, <3>1, <3>2, KeptThread DEF Piped
  <2>2. CASE v = 1
    <3>1. worker[1] \notin Finished
      BY <1>1, <1>3, <2>2 DEF ChainThread, FeederDone
    <3>2. Inflow(1) = at - 1 /\ Inflow(1)' = at /\ at <= Elements
      BY <1>1, <1>2 DEF Inflow
    <3>3. Piped(1)' <=> Piped(1) BY <1>1 DEF Piped
    <3>4. ASSUME Piped(1)
          PROVE  /\ Counts(queue'[1], Len(handled[1]) + Len(got[1]))
                 /\ (Len(handled[1]) + Len(got[1])) + Len(queue'[1]) = at
      <4>1. worker[1] # "none"
        BY <1>1, <3>4, Numbers DEF Shape, WorkerPlaces, Spawned, Piped
      <4>2. Reads(1)
        BY <1>1, <3>1, <4>1, Numbers DEF Shape, NetTyped, PlacesTyped, N!Labels, Finished, Reads
      <4>3. 1 \in readers[1]
        BY <4>2, Numbers DEF Shape, Holders, ThreadsRead, N!In
      <4>4. queue'[1] = queue[1] \o <<at>> /\ queue[1] \in Seq(Nat)
        BY <1>1, <4>3, Numbers
      <4>5. /\ Counts(queue[1], Len(handled[1]) + Len(got[1]))
            /\ (Len(handled[1]) + Len(got[1])) + Len(queue[1]) = at - 1
        BY <1>3, <3>2, <3>4, Numbers DEF ChainThread
      <4>6. Len(handled[1]) \in Nat /\ Len(got[1]) \in Nat /\ Len(queue[1]) \in Nat
        BY Lengths, Numbers DEF Shape
      <4>0. \A a, b \in Nat : a + b \in Nat OBVIOUS
      <4>7. PICK c \in Nat : c = Len(handled[1]) + Len(got[1]) BY <4>0, <4>6
      <4>11. \A a, b, d \in Int : a + b = d - 1 => d = (a + b) + 1 /\ a + (b + 1) = d
        OBVIOUS
      <4>12. c + Len(queue[1]) = at - 1 BY <4>5, <4>7
      <4>13. at = (c + Len(queue[1])) + 1 /\ c + (Len(queue[1]) + 1) = at
        <5>1. c \in Int /\ Len(queue[1]) \in Int /\ at \in Int BY <1>2, <4>6
        <5> QED BY ONLY <4>11, <4>12, <5>1
      <4>8. Counts(<<at>>, c + Len(queue[1]))
        <5>1. PICK d \in Nat : d = c + Len(queue[1]) BY <4>0, <4>6
        <5>2. at = d + 1 /\ \A k \in 1 .. 1 : k = 1 BY <4>13, <5>1
        <5>3. Counts(<<at>>, d) BY <1>2, <5>2 DEF Counts
        <5> QED BY <5>1, <5>3
      <4>9. Counts(queue[1] \o <<at>>, c) /\ Len(queue[1] \o <<at>>) = Len(queue[1]) + Len(<<at>>)
        BY <1>2, <4>4, <4>5, <4>7, <4>8, CountsConcat
      <4> QED BY <1>2, <4>4, <4>7, <4>9, <4>13
    <3>5. ChainThread(1) BY <1>3, Numbers
    <3> QED BY <1>1, <2>2, <3>1, <3>2, <3>3, <3>4, <3>5 DEF ChainThread
  <2> QED BY <2>1, <2>2
<1>5. ChainEnd'
  <2>1. queue'[Workers + 1] = queue[Workers + 1] BY <1>1, Numbers
  <2> QED BY <1>1, <2>1, KeptEnd DEF ChainData
<1> QED BY <1>4, <1>5 DEF ChainData

LEMMA ChainFeedEnd ==
  ASSUME Shape, ChainData, kind \in {"chain", "sink"}, N!FeedEnd PROVE ChainData'
<1>1. /\ main = "feed" /\ main' \in {"drain", "done"} /\ (kind = "chain" => main' = "drain")
      /\ UNCHANGED <<kind, worker, got, handled, result, queue>> /\ at = Elements + 1
  BY Numbers DEF N!FeedEnd, N!Go, N!Rest, Shape, MainPlaces, NetTyped, PlacesTyped
<1>2. Fed = Elements /\ Fed' = Elements
  BY <1>1, Numbers DEF Fed
<1>3. ASSUME NEW v \in N!Workerset PROVE ChainThread(v)'
  <2>1. ChainThread(v) BY DEF ChainData
  <2>2. worker[v] \in Finished => FeederDone(v)' /\ Len(handled[v]) = Elements
    BY <1>1, <2>1 DEF ChainThread, FeederDone
  <2>3. Inflow(v)' = Inflow(v) BY <1>1, <1>2 DEF Inflow
  <2> QED BY <1>1, <2>1, <2>2, <2>3, KeptThread DEF Piped
<1>4. ChainEnd' BY <1>1, KeptEnd DEF ChainData
<1> QED BY <1>3, <1>4 DEF ChainData

LEMMA ChainDrain ==
  ASSUME Shape, ChainData, kind \in {"chain", "sink"}, N!Drain PROVE ChainData'
<1>1. /\ main = "drain" /\ kind = "chain" /\ at = Workers + 1
      /\ UNCHANGED <<kind, main, at, worker, got, handled>>
      /\ result' = result \o queue[at]
      /\ queue' = [queue EXCEPT ![at] = SubSeq(@, N!Takes(at, Len(queue[at])) + 1, Len(@))]
      /\ queue \in [N!Pipes -> Seq(Nat)]
  BY OutIs, Numbers DEF N!Drain, N!Pop, Shape, MainPlaces, NetTyped, DataTyped
<1>2. PICK q \in N!Pipes : q = Workers + 1 BY Numbers
<1>3. /\ queue[q] \in Seq(Nat) /\ Len(queue[q]) \in Nat /\ result \in Seq(Nat) /\ Len(result) \in Nat
  BY Lengths DEF Shape
<1>4. queue' = [queue EXCEPT ![q] = <<>>]
  <2>1. N!Takes(q, Len(queue[q])) = Len(queue[q]) BY <1>3 DEF N!Takes
  <2>2. SubSeq(queue[q], Len(queue[q]) + 1, Len(queue[q])) = <<>>
    <3>1. Len(queue[q]) + 1 \in Int /\ Len(queue[q]) \in Int /\ ~(Len(queue[q]) + 1 <= Len(queue[q]))
      BY <1>3
    <3>2. Len(queue[q]) \in 0 .. Len(queue[q]) /\ Len(queue[q]) - Len(queue[q]) = 0 BY <1>3
    <3>3. /\ SubSeq(queue[q], Len(queue[q]) + 1, Len(queue[q])) \in Seq(Nat)
          /\ Len(SubSeq(queue[q], Len(queue[q]) + 1, Len(queue[q]))) = 0
      BY <3>2, <1>3, Queues DEF Shape, NetTyped
    <3> QED BY <3>3, EmptySeq
  <2> QED BY <1>1, <1>2, <2>1, <2>2
<1>5. ASSUME NEW v \in N!Workerset PROVE ChainThread(v)'
  <2>1. ChainThread(v) BY DEF ChainData
  <2>2. v \in N!Pipes /\ v # q BY <1>2, Numbers DEF N!Workerset
  <2>3. queue'[v] = queue[v] BY <1>1, <1>4, <2>2
  <2>4. worker[v] \in Finished => FeederDone(v)' /\ Len(handled[v]) = Elements
    BY <1>1, <2>1 DEF ChainThread, FeederDone
  <2>5. Inflow(v)' = Inflow(v) BY <1>1 DEF Inflow, Fed
  <2> QED BY <1>1, <2>1, <2>3, <2>4, <2>5, KeptThread DEF Piped
<1>6. ChainEnd'
  <2>1. /\ Counts(result, 0) /\ Counts(queue[q], Len(result))
        /\ Len(result) + Len(queue[q]) = Len(handled[Workers])
    BY <1>1, <1>2 DEF ChainData, ChainEnd
  <2>2. Counts(queue[q], 0 + Len(result)) BY <1>3, <2>1
  <2>3. Counts(result \o queue[q], 0) /\ Len(result \o queue[q]) = Len(result) + Len(queue[q])
    BY <1>3, <2>1, <2>2, CountsConcat
  <2>4. queue'[q] = <<>> /\ Len(<<>>) = 0 BY <1>1, <1>4
  <2>5. \A a : Counts(<<>>, a) BY <2>4 DEF Counts
  <2>6. Len(result') + Len(queue'[q]) = Len(handled'[Workers])
    <3>1. result' = result \o queue[q] /\ handled' = handled BY <1>1, <1>2
    <3>2. Len(result) + Len(queue[q]) \in Nat BY <1>3
    <3> QED BY <2>1, <2>3, <2>4, <3>1, <3>2
  <2>7. Counts(result', 0) /\ Counts(queue'[q], Len(result')) /\ main' # "done"
    BY <1>1, <1>2, <2>3, <2>4, <2>5
  <2> QED BY <1>2, <2>6, <2>7 DEF ChainEnd
<1> QED BY <1>5, <1>6 DEF ChainData

LEMMA ChainDrainEnd ==
  ASSUME Shape, ChainData, kind \in {"chain", "sink"}, N!DrainEnd PROVE ChainData'
<1>1. /\ main = "drain" /\ kind = "chain" /\ at = Workers + 1 /\ main' = "done" /\ at' = at
      /\ UNCHANGED <<kind, worker, got, handled, result, queue>>
      /\ queue[at] = <<>> /\ writers[at] = {}
  BY OutIs, Numbers DEF N!DrainEnd, N!Go, N!Rest, N!Ended, Shape, MainPlaces, NetTyped
<1>2. Fed' = Fed BY <1>1 DEF Fed
<1>3. worker[Workers] = "ended"
  <2>1. N!Out(Workers) = Workers + 1 BY <1>1, OutIs, Numbers
  <2>2. ~Writes(Workers) BY <1>1, <2>1, Numbers DEF Shape, Holders, ThreadsWrite
  <2>3. worker[Workers] # "none" /\ worker[Workers] \in N!Labels
    BY <1>1, Numbers DEF Shape, WorkerPlaces, Spawned, NetTyped, PlacesTyped
  <2> QED BY <1>1, <2>2, <2>3 DEF Writes, N!Labels
<1>4. ASSUME NEW v \in N!Workerset PROVE ChainThread(v)'
  <2>1. ChainThread(v) BY DEF ChainData
  <2>2. worker[v] \in Finished => FeederDone(v)' /\ Len(handled[v]) = Elements
    BY <1>1, <2>1 DEF ChainThread, FeederDone
  <2>3. Inflow(v)' = Inflow(v) BY <1>1, <1>2 DEF Inflow
  <2> QED BY <1>1, <2>1, <2>2, <2>3, KeptThread DEF Piped
<1>5. ChainEnd'
  <2>1. Len(handled[Workers]) = Elements
    BY <1>3, Numbers DEF ChainData, ChainThread, Finished
  <2>2. Len(result) + Len(queue[Workers + 1]) = Len(handled[Workers]) /\ Len(queue[Workers + 1]) = 0
    BY <1>1 DEF ChainData, ChainEnd
  <2>3. Len(result) \in Nat BY Lengths DEF Shape
  <2> QED BY <1>1, <1>3, <2>1, <2>2, <2>3, KeptEnd DEF ChainData
<1> QED BY <1>4, <1>5 DEF ChainData

(* A processor takes a prefix of its pipe ...                              *)
LEMMA ChainPopRound ==
  ASSUME Shape, ChainData, kind \in {"chain", "sink"}, NEW w \in N!Workerset, N!PopRound(w)
  PROVE  ChainData'
<1>0. N!In(w) = w /\ w \in N!Pipes /\ w \in Nat /\ w <= Workers /\ Workers \in Nat
  BY Numbers DEF N!In, N!Workerset
<1>1. /\ queue[w] \in Seq(Nat) /\ Len(queue[w]) \in Nat /\ got[w] \in Seq(Nat) /\ Len(got[w]) \in Nat
      /\ handled[w] \in Seq(Nat) /\ Len(handled[w]) \in Nat
  BY <1>0, Lengths DEF Shape
<1> DEFINE n == N!Takes(w, DEFAULT_BUFFER_SIZE - Len(got[w]))
<1>2. n \in 1 .. Len(queue[w]) BY <1>0, PopTakes DEF Shape
<1>3. /\ worker[w] = "pop"
      /\ got' = [got EXCEPT ![w] = got[w] \o SubSeq(queue[w], 1, n)]
      /\ \E x \in {"call", "pop"} : worker' = [worker EXCEPT ![w] = x]
      /\ queue' = [queue EXCEPT ![w] = SubSeq(queue[w], N!Takes(w, n) + 1, Len(queue[w]))]
      /\ UNCHANGED <<kind, main, at, handled, result>>
  BY <1>0 DEF N!PopRound, N!Pop, N!At, N!Becomes, N!MainRest
<1> HIDE DEF n
<1>4. N!Takes(w, n) = n /\ n \in 0 .. Len(queue[w]) BY <1>1, <1>2 DEF N!Takes
<1> DEFINE taken == SubSeq(queue[w], 1, n)
           left == SubSeq(queue[w], n + 1, Len(queue[w]))
<1>5. /\ got \in [N!Workerset -> Seq(Nat)] /\ queue \in [N!Pipes -> Seq(Nat)]
      /\ worker \in [N!Workerset -> N!Labels]
  BY DEF Shape, NetTyped, DataTyped, PlacesTyped
<1>6. got'[w] = got[w] \o taken /\ queue'[w] = left /\ worker'[w] \notin Finished
  BY <1>0, <1>3, <1>4, <1>5 DEF Finished
<1>7. Piped(w)
  BY <1>3 DEF Piped, Shape, WorkerPlaces, Spawned
<1>8. /\ Counts(handled[w], 0) /\ Counts(got[w], Len(handled[w]))
      /\ Inflow(w) <= Elements /\ Len(handled[w]) <= Elements
      /\ Counts(queue[w], Len(handled[w]) + Len(got[w]))
      /\ (Len(handled[w]) + Len(got[w])) + Len(queue[w]) = Inflow(w)
  BY <1>7 DEF ChainData, ChainThread
<1>9. /\ taken \in Seq(Nat) /\ Len(taken) = n /\ Counts(taken, Len(handled[w]) + Len(got[w]))
      /\ left \in Seq(Nat) /\ Len(left) = Len(queue[w]) - n
      /\ Counts(left, (Len(handled[w]) + Len(got[w])) + n)
  <2>0. \A a, b \in Nat : a + b \in Nat OBVIOUS
  <2>1. PICK c \in Nat : c = Len(handled[w]) + Len(got[w]) BY <1>1, <2>0
  <2>2. Counts(queue[w], c) BY <1>8, <2>1
  <2> QED BY <1>1, <1>4, <2>1, <2>2, CountsSplit
<1> HIDE DEF taken, left
<1>10. /\ Counts(got[w] \o taken, Len(handled[w]))
       /\ Len(got[w] \o taken) = Len(got[w]) + n
  BY <1>1, <1>8, <1>9, CountsConcat
<1>11. \A a, b, c, d \in Int : (a + b) + d = a + (b + d) OBVIOUS
<1>12. /\ Len(handled[w]) \in Int /\ Len(got[w]) \in Int /\ Len(queue[w]) \in Int /\ n \in Int
  BY <1>1, <1>2
<1>13. /\ (Len(handled[w]) + Len(got[w])) + n = Len(handled[w]) + (Len(got[w]) + n)
       /\ (Len(handled[w]) + (Len(got[w]) + n)) + (Len(queue[w]) - n) = Inflow(w)
  <2>1. (Len(handled[w]) + Len(got[w])) + n = Len(handled[w]) + (Len(got[w]) + n)
    BY ONLY <1>11, <1>12
  <2>2. (Len(handled[w]) + (Len(got[w]) + n)) + (Len(queue[w]) - n)
          = (Len(handled[w]) + Len(got[w])) + Len(queue[w])
    <3>1. PICK h \in Int : h = Len(handled[w]) BY <1>12
    <3>2. PICK g \in Int : g = Len(got[w]) BY <1>12
    <3>3. PICK q \in Int : q = Len(queue[w]) BY <1>12
    <3>4. (h + (g + n)) + (q - n) = (h + g) + q BY <1>12
    <3> QED BY <3>1, <3>2, <3>3, <3>4
  <2> QED BY <1>8, <2>1, <2>2
<1>14. \A v \in N!Workerset : Inflow(v)' = Inflow(v) /\ (Piped(v)' <=> Piped(v))
  BY <1>3 DEF Inflow, Fed, Piped
<1>15. ChainThread(w)'
  BY <1>3, <1>6, <1>8, <1>9, <1>10, <1>13, <1>14 DEF ChainThread
<1>16. ASSUME NEW v \in N!Workerset, v # w PROVE ChainThread(v)'
  <2>1. ChainThread(v) BY DEF ChainData
  <2>2. v \in N!Pipes BY Numbers
  <2>3. got'[v] = got[v] /\ queue'[v] = queue[v] /\ handled'[v] = handled[v] /\ worker'[v] = worker[v]
    BY <1>3, <1>5, <1>16, <2>2
  <2>4. worker[v] \in Finished => FeederDone(v)' /\ Len(handled[v]) = Elements
    <3>1. N!Next BY <1>3 DEF N!Next, N!Worker, Shape, Early, Building, MainPlaces
    <3> QED BY <2>1, <3>1, DoneStays DEF ChainThread
  <2> QED BY <1>14, <2>1, <2>3, <2>4, KeptThread
<1>17. ChainEnd'
  <2>1. Workers + 1 \in N!Pipes /\ Workers + 1 # w BY <1>0, Numbers
  <2>2. queue'[Workers + 1] = queue[Workers + 1] BY <1>3, <1>5, <2>1
  <2>3. ASSUME main = "done", kind = "chain" PROVE worker'[Workers] = "ended"
    <3>1. worker[Workers] = "ended" BY <2>3 DEF ChainData, ChainEnd
    <3> QED BY <1>3, <1>5, <3>1, Numbers
  <2> QED BY <1>3, <2>2, <2>3, KeptEnd DEF ChainData, ChainEnd
<1> QED BY <1>15, <1>16, <1>17 DEF ChainData

(* ... ends when the pipe has ended, which it does when the thread before  *)
(* has passed everything on ...                                            *)
LEMMA ChainLabel ==
  ASSUME Shape, ChainData, kind \in {"chain", "sink"}, N!Next, NEW w \in N!Workerset,
         worker[w] # "ended",
         NEW x, worker' = [worker EXCEPT ![w] = x],
         UNCHANGED <<kind, queue, main, at, got, handled, result>>,
         x \in Finished => FeederDone(w) /\ Len(handled[w]) = Elements
  PROVE  ChainData'
<1>0. worker \in [N!Workerset -> N!Labels] BY DEF Shape, NetTyped, PlacesTyped
<1>1. ASSUME NEW v \in N!Workerset PROVE ChainThread(v)'
  <2>1. ChainThread(v) BY DEF ChainData
  <2>2. Inflow(v)' = Inflow(v) /\ (Piped(v)' <=> Piped(v)) BY DEF Inflow, Fed, Piped
  <2>3. worker'[v] \in Finished => FeederDone(v)' /\ Len(handled[v]) = Elements
    <3>1. worker'[v] \in Finished => FeederDone(v) /\ Len(handled[v]) = Elements
      BY <1>0, <2>1 DEF ChainThread
    <3> QED BY <3>1, DoneStays
  <2> QED BY <2>1, <2>2, <2>3, KeptThread
<1>2. main = "done" /\ kind = "chain" => worker'[Workers] = "ended"
  BY <1>0, Numbers DEF ChainData, ChainEnd
<1>3. ChainEnd' BY <1>2, KeptEnd DEF ChainData, ChainEnd
<1> QED BY <1>1, <1>3 DEF ChainData

LEMMA ChainPopEnded ==
  ASSUME Shape, ChainData, kind \in {"chain", "sink"}, N!Next, NEW w \in N!Workerset, N!PopEnded(w)
  PROVE  ChainData'
<1>0. N!In(w) = w /\ w \in N!Pipes BY Numbers DEF N!In
<1>1. worker[w] = "pop" /\ queue[w] = <<>> /\ writers[w] = {} /\ Len(<<>>) = 0
  BY <1>0 DEF N!PopEnded, N!At, N!Ended
<1>2. Piped(w) BY <1>1 DEF Piped, Shape, WorkerPlaces, Spawned
<1>3. FeederDone(w) BY <1>0, <1>1, Upstream DEF Shape
<1>4. Inflow(w) = Elements
  <2>1. CASE w = 1 BY <1>3, <2>1 DEF FeederDone, Inflow, Fed
  <2>2. CASE w # 1
    <3>1. w - 1 \in N!Workerset BY <2>2, Numbers DEF N!Workerset
    <3>2. worker[w - 1] = "ended" BY <1>3, <2>2 DEF FeederDone
    <3> QED BY <2>2, <3>1, <3>2 DEF ChainData, ChainThread, Finished, Inflow
  <2> QED BY <2>1, <2>2
<1>5. (Len(handled[w]) + Len(got[w])) + Len(queue[w]) = Elements
  BY <1>2, <1>4 DEF ChainData, ChainThread
<1>6. got[w] = <<>> => Len(handled[w]) = Elements
  <2>1. Len(handled[w]) \in Nat BY Lengths DEF Shape
  <2> QED BY <1>1, <1>5, <2>1
<1>7. /\ worker' = [worker EXCEPT ![w] = IF got[w] = <<>> THEN "last" ELSE "call"]
      /\ UNCHANGED <<kind, queue, main, at, got, handled, result>>
  BY DEF N!PopEnded, N!Becomes, N!MainRest, N!pipev
<1>8. PICK x : x = IF got[w] = <<>> THEN "last" ELSE "call" OBVIOUS
<1>9. x \in Finished => FeederDone(w) /\ Len(handled[w]) = Elements
  BY <1>3, <1>6, <1>8 DEF Finished
<1>10. worker' = [worker EXCEPT ![w] = x] BY <1>7, <1>8
<1> QED BY <1>1, <1>7, <1>9, <1>10, ChainLabel

LEMMA ChainEnding ==
  ASSUME Shape, ChainData, kind \in {"chain", "sink"}, N!Next, NEW w \in N!Workerset,
         N!LastCall(w) \/ N!FreeIn(w) \/ N!FreeOut(w)
  PROVE  ChainData'
<1>1. /\ worker[w] \in Finished /\ worker[w] # "ended"
      /\ \E x : worker' = [worker EXCEPT ![w] = x]
      /\ UNCHANGED <<kind, queue, main, at, got, handled, result>>
  BY DEF N!LastCall, N!FreeIn, N!FreeOut, N!At, N!Becomes, N!MainRest, N!pipev, Finished
<1>2. FeederDone(w) /\ Len(handled[w]) = Elements
  BY <1>1 DEF ChainData, ChainThread
<1> QED BY <1>1, <1>2, ChainLabel

(* ... and passes on what it has in its buffer: the next one still reads.  *)
LEMMA ChainCall ==
  ASSUME Shape, ChainData, kind \in {"chain", "sink"}, N!Next, NEW w \in N!Workerset, N!Call(w)
  PROVE  ChainData'
<1>0. N!Out(w) = w + 1 /\ w \in N!Pipes /\ w + 1 \in N!Pipes /\ w \in Nat /\ w + 1 # w /\ w + 1 \in Nat
  BY OutIs, Numbers DEF N!Workerset
<1>1. /\ worker[w] = "call"
      /\ handled' = [handled EXCEPT ![w] = handled[w] \o got[w]]
      /\ got' = [got EXCEPT ![w] = <<>>]
      /\ worker' = [worker EXCEPT ![w] = "pop"]
      /\ queue' = IF readers[w + 1] = {} THEN queue
                  ELSE [queue EXCEPT ![w + 1] = queue[w + 1] \o got[w]]
      /\ UNCHANGED <<kind, main, at, result>>
  BY <1>0 DEF N!Call, N!Push, N!At, N!Becomes, N!MainRest
<1>2. /\ got \in [N!Workerset -> Seq(Nat)] /\ queue \in [N!Pipes -> Seq(Nat)]
      /\ handled \in [N!Workerset -> Seq(Nat)] /\ worker \in [N!Workerset -> N!Labels]
  BY DEF Shape, NetTyped, DataTyped, PlacesTyped
<1>3. /\ handled[w] \in Seq(Nat) /\ Len(handled[w]) \in Nat /\ got[w] \in Seq(Nat) /\ Len(got[w]) \in Nat
      /\ queue[w] \in Seq(Nat) /\ Len(queue[w]) \in Nat
      /\ queue[w + 1] \in Seq(Nat) /\ Len(queue[w + 1]) \in Nat
  BY <1>0, Lengths DEF Shape
<1>4. Piped(w) BY <1>1 DEF Piped, Shape, WorkerPlaces, Spawned
<1>5. /\ Counts(handled[w], 0) /\ Counts(got[w], Len(handled[w]))
      /\ Inflow(w) <= Elements /\ Len(handled[w]) <= Elements
      /\ Counts(queue[w], Len(handled[w]) + Len(got[w]))
      /\ (Len(handled[w]) + Len(got[w])) + Len(queue[w]) = Inflow(w)
  BY <1>4 DEF ChainData, ChainThread
<1>6. PICK g \in Seq(Nat), h \in Seq(Nat) : g = got[w] /\ h = handled[w] \o g
  BY <1>3, ConcatProperties
<1>7. /\ handled'[w] = h /\ got'[w] = <<>> /\ queue'[w] = queue[w] /\ worker'[w] = "pop"
  BY <1>0, <1>1, <1>2, <1>6
<1>8. Counts(h, 0) /\ Len(h) = Len(handled[w]) + Len(g) /\ Counts(g, Len(handled[w]))
  <2>1. Counts(g, 0 + Len(handled[w])) BY <1>3, <1>5, <1>6
  <2> QED BY <1>3, <1>5, <1>6, <2>1, CountsConcat
<1>9. Len(h) \in Nat /\ Len(h) <= Elements /\ Len(h) + Len(queue[w]) = Inflow(w)
  <2>1. PICK a \in Nat : a = Len(handled[w]) BY <1>3
  <2>2. PICK b \in Nat : b = Len(g) BY <1>3, <1>6
  <2>3. PICK q \in Nat : q = Len(queue[w]) BY <1>3
  <2>4. (a + b) + q = Inflow(w) /\ Inflow(w) <= Elements /\ Elements \in Nat
    BY <1>5, <1>6, <2>1, <2>2, <2>3, Numbers
  <2>5. a + b \in Nat /\ a + b <= Elements BY ONLY <2>4, a \in Nat, b \in Nat, q \in Nat
  <2> QED BY <1>8, <2>1, <2>2, <2>3, <2>4, <2>5
<1>10. Inflow(w)' = Inflow(w)
  BY <1>0, <1>1, <1>2, Numbers DEF Inflow, Fed, N!Workerset
<1>11. ChainThread(w)'
  <2>1. Len(<<>>) = 0 /\ \A a : Counts(<<>>, a) BY DEF Counts
  <2>2. Len(h) + 0 = Len(h) BY <1>9
  <2>3. Counts(queue[w], Len(h) + 0) BY <1>5, <1>6, <1>8, <2>2
  <2>4. /\ Counts(handled'[w], 0) /\ Counts(got'[w], Len(handled'[w]))
        /\ Inflow(w)' <= Elements /\ Len(handled'[w]) <= Elements
        /\ Counts(queue'[w], Len(handled'[w]) + Len(got'[w]))
        /\ (Len(handled'[w]) + Len(got'[w])) + Len(queue'[w]) = Inflow(w)'
    BY <1>5, <1>7, <1>8, <1>9, <1>10, <2>1, <2>2, <2>3
  <2> QED BY <1>7, <2>4 DEF ChainThread, Finished
<1>12. ~Building BY <1>1 DEF Shape, Early
<1>13. main \in {"feed", "drain", "done"} BY <1>12 DEF Building, Shape, MainPlaces
<1>14. ASSUME NEW v \in N!Workerset, v = w + 1 PROVE ChainThread(v)'
  <2>0. v # 1 /\ v - 1 = w BY <1>0, <1>14, Numbers DEF N!Workerset
  <2>1. ChainThread(v) /\ Inflow(v) = Len(handled[w]) /\ Inflow(v)' = Len(h)
    BY <1>1, <1>7, <2>0 DEF ChainData, Inflow
  <2>2. worker[v] \notin Finished
    BY <1>1, <2>0, <2>1 DEF ChainThread, FeederDone
  <2>3. handled'[v] = handled[v] /\ got'[v] = got[v] /\ worker'[v] = worker[v]
    BY <1>0, <1>1, <1>2, <1>14
  <2>4. (Piped(v))' <=> Piped(v) BY <1>1 DEF Piped
  <2>5. ASSUME Piped(v)
        PROVE  /\ Counts(queue'[v], Len(handled[v]) + Len(got[v]))
               /\ (Len(handled[v]) + Len(got[v])) + Len(queue'[v]) = Len(h)
    <3>1. worker[v] # "none" BY <1>13, <2>5 DEF Piped, Shape, WorkerPlaces, Spawned
    <3>2. Reads(v) BY <1>2, <2>2, <3>1 DEF Reads, Finished, N!Labels
    <3>3. v \in N!Pipes /\ N!In(v) = v BY <1>0, <1>14 DEF N!In
    <3>4. v \in readers[v] BY <3>2, <3>3 DEF Shape, Holders, ThreadsRead
    <3>5. queue'[v] = queue[v] \o g BY <1>1, <1>2, <1>6, <1>14, <3>3, <3>4
    <3>6. /\ Counts(queue[v], Len(handled[v]) + Len(got[v]))
          /\ (Len(handled[v]) + Len(got[v])) + Len(queue[v]) = Len(handled[w])
      BY <2>1, <2>5 DEF ChainThread
    <3>7. Len(handled[v]) \in Nat /\ Len(got[v]) \in Nat BY Lengths DEF Shape
    <3>8. PICK c \in Nat : c = Len(handled[v]) + Len(got[v])
      <4>1. \A a, b \in Nat : a + b \in Nat OBVIOUS
      <4> QED BY <3>7, <4>1
    <3>9. PICK q \in Seq(Nat) : q = queue[v] BY <1>3, <1>14
    <3>10. Counts(q, c) /\ c + Len(q) = Len(handled[w]) BY <3>6, <3>8, <3>9
    <3>11. Counts(g, c + Len(q)) BY <1>8, <3>10
    <3>12. Counts(q \o g, c) /\ Len(q \o g) = Len(q) + Len(g) BY <3>10, <3>11, CountsConcat
    <3>13. c + Len(q \o g) = Len(h)
      <4>1. PICK a \in Nat : a = Len(q) BY LenProperties
      <4>2. PICK b \in Nat : b = Len(g) BY LenProperties
      <4>3. (c + a) + b = c + (a + b) OBVIOUS
      <4> QED BY <1>8, <3>10, <3>12, <4>1, <4>2, <4>3
    <3> QED BY <3>5, <3>8, <3>9, <3>12, <3>13
  <2> QED BY <1>9, <2>1, <2>2, <2>3, <2>4, <2>5 DEF ChainThread
<1>15. ASSUME NEW v \in N!Workerset, v # w, v # w + 1 PROVE ChainThread(v)'
  <2>1. ChainThread(v) BY DEF ChainData
  <2>2. v \in N!Pipes /\ (v # 1 => v - 1 \in N!Workerset /\ v - 1 # w)
    BY <1>0, <1>15, Numbers DEF N!Workerset
  <2>3. handled'[v] = handled[v] /\ got'[v] = got[v] /\ worker'[v] = worker[v] /\ queue'[v] = queue[v]
    BY <1>0, <1>1, <1>2, <1>15, <2>2
  <2>4. Inflow(v)' = Inflow(v) /\ (Piped(v)' <=> Piped(v))
    BY <1>1, <1>2, <2>2 DEF Inflow, Fed, Piped
  <2>5. worker[v] \in Finished => FeederDone(v)' /\ Len(handled[v]) = Elements
    BY <2>1, DoneStays DEF ChainThread
  <2> QED BY <2>1, <2>3, <2>4, <2>5, KeptThread
<1>16. ChainEnd'
  <2>1. CASE kind # "chain" BY <1>1, <2>1 DEF ChainEnd
  <2>2. CASE kind = "chain" /\ w # Workers
    <3>1. Workers + 1 \in N!Pipes /\ Workers + 1 # w + 1 /\ Workers \in N!Workerset
      BY <1>0, <2>2, Numbers
    <3>2. queue'[Workers + 1] = queue[Workers + 1] /\ handled'[Workers] = handled[Workers]
          /\ worker'[Workers] = worker[Workers]
      BY <1>1, <1>2, <2>2, <3>1
    <3> QED BY <1>1, <3>2, KeptEnd DEF ChainData, ChainEnd
  <2>3. CASE kind = "chain" /\ w = Workers
    <3>1. main \in {"feed", "drain"} BY <1>1, <1>13, <2>3 DEF ChainData, ChainEnd
    <3>2. N!User \in readers[w + 1]
      BY <1>0, <2>3, <3>1 DEF Shape, Holders, MainHolds, UserReads
    <3>3. queue'[w + 1] = queue[w + 1] \o g BY <1>0, <1>1, <1>2, <1>6, <3>2
    <3>4. /\ Counts(result, 0) /\ Counts(queue[w + 1], Len(result))
          /\ Len(result) + Len(queue[w + 1]) = Len(handled[w])
      BY <2>3 DEF ChainData, ChainEnd
    <3>5. result \in Seq(Nat) /\ Len(result) \in Nat BY Lengths DEF Shape
    <3>6. PICK q \in Seq(Nat) : q = queue[w + 1] BY <1>3
    <3>7. Counts(q, Len(result)) /\ Counts(g, Len(result) + Len(q)) BY <1>8, <3>4, <3>6
    <3>8. Counts(q \o g, Len(result)) /\ Len(q \o g) = Len(q) + Len(g)
      BY <3>5, <3>7, CountsConcat
    <3>9. Len(result) + Len(q \o g) = Len(h)
      <4>1. PICK a \in Nat : a = Len(q) BY LenProperties
      <4>2. PICK b \in Nat : b = Len(g) BY LenProperties
      <4>3. PICK c \in Nat : c = Len(result) BY <3>5
      <4>4. (c + a) + b = c + (a + b) OBVIOUS
      <4> QED BY <1>8, <3>4, <3>6, <3>8, <4>1, <4>2, <4>3, <4>4
    <3>10. /\ Counts(result', 0) /\ Counts(queue'[w + 1], Len(result')) /\ main' # "done"
           /\ Len(result') + Len(queue'[w + 1]) = Len(handled'[w])
      BY <1>1, <1>7, <3>1, <3>3, <3>4, <3>6, <3>8, <3>9
    <3> QED BY <2>3, <3>10 DEF ChainEnd
  <2> QED BY <2>1, <2>2, <2>3
<1> QED BY <1>11, <1>14, <1>15, <1>16 DEF ChainData

LEMMA NothingNext == Nothing' /\ (Fed = 0)' /\ main' # "done" => ChainData'
<1>1. Nothing /\ Fed = 0 /\ main # "done" => ChainData BY NothingYet
<1>2. (Nothing /\ Fed = 0 /\ main # "done" => ChainData)' BY <1>1, PTL
<1> QED BY <1>2

(* Every network stays what it is, and a pipeline goes from its building   *)
(* to its use in one step.                                                 *)
LEMMA KindKept == ASSUME N!Next PROVE kind' = kind
<1>1. CASE N!Main
  BY <1>1 DEF N!Main, N!pipe_pipeline, N!StageConnect, N!StageOut, N!StageFree, N!StageSink,
    N!PipelineReturn, N!ParallelNew, N!Instance, N!ParallelHandles, N!ParallelFree, N!Feed,
    N!FeedEnd, N!Drain, N!DrainEnd, N!RingNew, N!RingIn, N!RingFree, N!RingOut,
    N!spawn_thread, N!Token, N!Join, N!Rest
<1>2. ASSUME NEW w \in N!Workerset, N!Worker(w) PROVE kind' = kind
  BY <1>2 DEF N!Worker, N!PopRound, N!PopEnded, N!Call, N!LastCall, N!FreeIn, N!FreeOut, N!RingPop,
    N!RingEnded, N!MainRest
<1> QED BY <1>1, <1>2 DEF N!Next

LEMMA NetworkBuilt ==
  ASSUME Shape, N!Next, kind # "ring", Building, ~Building'
  PROVE  main' = "feed" /\ at' = 1 /\ UNCHANGED <<queue, worker, got, handled, result>>
<1>1. ASSUME NEW w \in N!Workerset, N!Worker(w) PROVE main' = main
  BY <1>1 DEF N!Worker, N!PopRound, N!PopEnded, N!Call, N!LastCall, N!FreeIn, N!FreeOut, N!RingPop,
    N!RingEnded, N!MainRest
<1>2. N!Main BY <1>1 DEF N!Next, Building
<1>3. main # "token" BY DEF Shape, MainPlaces
<1>4. N!PipelineReturn \/ N!ParallelFree
  BY <1>2, <1>3 DEF Building, N!Main, N!pipe_pipeline, N!StageConnect, N!StageOut, N!StageFree,
    N!StageSink, N!ParallelNew, N!Instance, N!ParallelHandles, N!Feed, N!FeedEnd, N!Drain,
    N!DrainEnd, N!RingNew, N!RingIn, N!RingFree, N!RingOut, N!spawn_thread, N!Token, N!Join, N!Go
<1> QED BY <1>4 DEF N!PipelineReturn, N!ParallelFree, N!Go, N!Rest, Building

LEMMA ChainDataStep == ASSUME Shape, ChainData, [N!Next]_netv PROVE ChainData'
<1>1. CASE UNCHANGED netv
  <2>1. UNCHANGED <<kind, worker, main, at, queue, got, handled, result>> BY <1>1 DEF netv
  <2>2. ASSUME kind \in {"chain", "sink"}, NEW v \in N!Workerset PROVE ChainThread(v)'
    <3>1. ChainThread(v) BY <2>2 DEF ChainData
    <3>2. /\ Inflow(v)' = Inflow(v) /\ (Piped(v)' <=> Piped(v))
          /\ worker[v] \in Finished => FeederDone(v)' /\ Len(handled[v]) = Elements
      BY <2>1, <3>1 DEF Inflow, Fed, Piped, FeederDone, ChainThread
    <3> QED BY <2>1, <3>1, <3>2, KeptThread
  <2>3. kind \in {"chain", "sink"} => ChainEnd'
    BY <2>1, KeptEnd DEF ChainData, ChainEnd
  <2> QED BY <2>1, <2>2, <2>3 DEF ChainData
<1>2. CASE N!Next
  <2>1. kind' = kind BY <1>2, KindKept
  <2>2. SUFFICES ASSUME kind \in {"chain", "sink"} PROVE ChainData'
    BY <2>1 DEF ChainData
  <2>3. CASE Building'
    <3>1. Shape' BY <1>2, ShapeStep
    <3>2. Nothing' /\ (Fed = 0)' /\ main' # "done"
      BY <2>3, <3>1 DEF Shape, Early, Building, Nothing, Fed
    <3> QED BY <3>2, NothingNext
  <2>4. CASE Building /\ ~Building'
    <3>2. Nothing BY <2>4 DEF Shape, Early, Nothing
    <3>3. main' = "feed" /\ at' = 1 /\ UNCHANGED <<queue, worker, got, handled, result>>
      BY <1>2, <2>2, <2>4, NetworkBuilt
    <3>4. Nothing' /\ (Fed = 0)' /\ main' # "done" BY <3>2, <3>3 DEF Nothing, Fed
    <3> QED BY <3>4, NothingNext
  <2>5. CASE ~Building
    <3>1. CASE N!Main
      <4>1. N!Feed \/ N!FeedEnd \/ N!Drain \/ N!DrainEnd
        BY <2>2, <2>5, <3>1 DEF Building, Shape, MainPlaces, N!Main, N!pipe_pipeline, N!StageConnect,
          N!StageOut, N!StageFree, N!StageSink, N!PipelineReturn, N!ParallelNew, N!Instance,
          N!ParallelHandles, N!ParallelFree, N!RingNew, N!RingIn, N!RingFree, N!RingOut,
          N!spawn_thread, N!Token, N!Join
      <4> QED BY <2>2, <4>1, ChainFeed, ChainFeedEnd, ChainDrain, ChainDrainEnd
    <3>2. ASSUME NEW w \in N!Workerset, N!Worker(w) PROVE ChainData'
      <4>1. \/ N!PopRound(w) \/ N!PopEnded(w) \/ N!Call(w)
            \/ N!LastCall(w) \/ N!FreeIn(w) \/ N!FreeOut(w)
        BY <2>2, <3>2 DEF N!Worker, N!RingPop, N!RingEnded
      <4> QED BY <1>2, <2>2, <4>1, ChainPopRound, ChainPopEnded, ChainCall, ChainEnding
    <3> QED BY <1>2, <3>1, <3>2 DEF N!Next
  <2> QED BY <2>3, <2>4, <2>5
<1> QED BY <1>1, <1>2

-----------------------------------------------------------------------------
(* Parallel instances: every element that was pushed is in one place, in   *)
(* the first pipe, in an instance's buffer, in the second pipe or with the *)
(* caller.                                                                 *)
Places == 0 .. Workers + 2
Held ==
  [x \in Places |->
     IF x = 0 THEN queue[1]
     ELSE IF x \in N!Workerset THEN got[x]
     ELSE IF x = Workers + 1 THEN queue[2] ELSE result]
AreFrom(h, n) == \A x \in Places : \A j \in 1 .. Len(h[x]) : h[x][j] \in 1 .. n
AreThere(h, n) == \A k \in 1 .. n : \E x \in Places : \E j \in 1 .. Len(h[x]) : h[x][j] = k
AreApart(h) ==
  \A x, y \in Places : \A j \in 1 .. Len(h[x]), k \in 1 .. Len(h[y]) :
    h[x][j] = h[y][k] => x = y /\ j = k
EachOnce(h, n) == AreFrom(h, n) /\ AreThere(h, n) /\ AreApart(h)
ParallelData ==
  kind = "parallel" =>
    /\ EachOnce(Held, Fed)
    /\ \A w \in N!Workerset :
         worker[w] \in Finished => main \in {"drain", "done"} /\ queue[1] = <<>> /\ got[w] = <<>>
    /\ main = "done" => queue[2] = <<>> /\ \A w \in N!Workerset : worker[w] = "ended"

LEMMA HeldAt ==
  /\ Held[0] = queue[1] /\ Held[Workers + 1] = queue[2] /\ Held[Workers + 2] = result
  /\ \A w \in N!Workerset : Held[w] = got[w]
<1>1. /\ 0 \in Places /\ Workers + 1 \in Places /\ Workers + 2 \in Places
      /\ N!Workerset \subseteq Places /\ 0 \notin N!Workerset
      /\ Workers + 1 \notin N!Workerset /\ Workers + 2 \notin N!Workerset
      /\ Workers + 1 # 0 /\ Workers + 2 # 0 /\ Workers + 2 # Workers + 1
  BY PipelinesAssumption DEF Places, N!Workerset
<1> QED BY <1>1 DEF Held

LEMMA PlaceIs ==
  ASSUME NEW x \in Places, x # 0, x \notin N!Workerset, x # Workers + 1
  PROVE  x = Workers + 2
BY PipelinesAssumption DEF Places, N!Workerset

(* A prefix of one place moves to the end of another.                      *)
Moved(h, g, x, y, n) ==
  /\ g[x] = SubSeq(h[x], n + 1, Len(h[x]))
  /\ g[y] = h[y] \o SubSeq(h[x], 1, n)
  /\ \A z \in Places : z \notin {x, y} => g[z] = h[z]

LEMMA PartsOf ==
  ASSUME NEW s \in Seq(Nat), NEW t \in Seq(Nat), NEW n \in 0 .. Len(s)
  PROVE  /\ Len(s) \in Nat /\ Len(t) \in Nat
         /\ Len(SubSeq(s, n + 1, Len(s))) = Len(s) - n
         /\ Len(t \o SubSeq(s, 1, n)) = Len(t) + n
         /\ \A j \in 1 .. Len(s) - n : SubSeq(s, n + 1, Len(s))[j] = s[j + n]
         /\ \A j \in 1 .. Len(t) : (t \o SubSeq(s, 1, n))[j] = t[j]
         /\ \A j \in 1 .. n : (t \o SubSeq(s, 1, n))[j + Len(t)] = s[j]
<1>1. Len(s) \in Nat /\ Len(t) \in Nat /\ \A k \in 1 .. Len(s) : s[k] \in Nat
  BY LenProperties, ElementOfSeq
<1>2. 1 \in Int /\ n \in Int /\ n + 1 \in Int /\ Len(s) \in Int BY <1>1
<1>3. \A k \in 1 .. n : s[k] \in Nat BY <1>1
<1>4. \A k \in n + 1 .. Len(s) : s[k] \in Nat BY <1>1
<1>5. /\ SubSeq(s, 1, n) \in Seq(Nat)
      /\ Len(SubSeq(s, 1, n)) = IF 1 <= n THEN (n - 1) + 1 ELSE 0
      /\ \A k \in 1 .. ((n - 1) + 1) : SubSeq(s, 1, n)[k] = s[(1 + k) - 1]
  BY <1>2, <1>3, SubSeqProperties
<1>6. /\ SubSeq(s, n + 1, Len(s)) \in Seq(Nat)
      /\ Len(SubSeq(s, n + 1, Len(s))) = IF n + 1 <= Len(s) THEN (Len(s) - (n + 1)) + 1 ELSE 0
      /\ \A k \in 1 .. ((Len(s) - (n + 1)) + 1) : SubSeq(s, n + 1, Len(s))[k] = s[((n + 1) + k) - 1]
  BY <1>2, <1>4, SubSeqProperties
<1>7. Len(SubSeq(s, 1, n)) = n /\ Len(SubSeq(s, n + 1, Len(s))) = Len(s) - n
  BY <1>1, <1>5, <1>6
<1>8. ASSUME NEW j \in 1 .. n PROVE SubSeq(s, 1, n)[j] = s[j]
  <2>1. j \in 1 .. ((n - 1) + 1) /\ (1 + j) - 1 = j BY <1>1
  <2> QED BY <1>5, <2>1
<1>9. ASSUME NEW j \in 1 .. Len(s) - n PROVE SubSeq(s, n + 1, Len(s))[j] = s[j + n]
  <2>1. j \in 1 .. ((Len(s) - (n + 1)) + 1) /\ ((n + 1) + j) - 1 = j + n BY <1>1
  <2> QED BY <1>6, <2>1
<1> DEFINE p == SubSeq(s, 1, n)
<1> HIDE DEF p
<1>10. p \in Seq(Nat) /\ Len(p) = n BY <1>5, <1>7 DEF p
<1>11. /\ Len(t \o p) = Len(t) + n
       /\ \A k \in 1 .. Len(t) + n : (t \o p)[k] = IF k <= Len(t) THEN t[k] ELSE p[k - Len(t)]
  BY <1>10, ConcatProperties
<1>12. \A j \in 1 .. Len(t) : (t \o p)[j] = t[j]
  <2>1. \A j \in 1 .. Len(t) : j \in 1 .. Len(t) + n /\ j <= Len(t) BY <1>1
  <2> QED BY <1>11, <2>1
<1>13. \A j \in 1 .. n : (t \o p)[j + Len(t)] = p[j]
  <2>1. \A j \in 1 .. n : /\ j + Len(t) \in 1 .. Len(t) + n /\ ~(j + Len(t) <= Len(t))
                          /\ (j + Len(t)) - Len(t) = j
    BY <1>1
  <2> QED BY <1>11, <2>1
<1> QED BY <1>1, <1>7, <1>8, <1>9, <1>11, <1>12, <1>13 DEF p

(* Where an element came from.                                             *)
PlaceBefore(h, x, y, z, j) == IF z = y /\ j > Len(h[y]) THEN x ELSE z
IndexBefore(h, x, y, n, z, j) ==
  IF z = x THEN j + n ELSE IF z = y /\ j > Len(h[y]) THEN j - Len(h[y]) ELSE j

LEMMA MoveKeeps ==
  ASSUME NEW h, NEW g, NEW x \in Places, NEW y \in Places, x # y,
         h[x] \in Seq(Nat), h[y] \in Seq(Nat), NEW n \in 0 .. Len(h[x]), Moved(h, g, x, y, n),
         NEW top, EachOnce(h, top)
  PROVE  EachOnce(g, top)
<1>1. /\ Len(h[x]) \in Nat /\ Len(h[y]) \in Nat
      /\ Len(g[x]) = Len(h[x]) - n /\ Len(g[y]) = Len(h[y]) + n
      /\ \A j \in 1 .. Len(h[x]) - n : g[x][j] = h[x][j + n]
      /\ \A j \in 1 .. Len(h[y]) : g[y][j] = h[y][j]
      /\ \A j \in 1 .. n : g[y][j + Len(h[y])] = h[x][j]
  <2>1. PICK s \in Seq(Nat), t \in Seq(Nat) : s = h[x] /\ t = h[y] OBVIOUS
  <2>2. g[x] = SubSeq(s, n + 1, Len(s)) /\ g[y] = t \o SubSeq(s, 1, n)
    BY <2>1 DEF Moved
  <2>3. n \in 0 .. Len(s) BY <2>1
  <2>4. /\ Len(s) \in Nat /\ Len(t) \in Nat
        /\ Len(g[x]) = Len(s) - n /\ Len(g[y]) = Len(t) + n
        /\ \A j \in 1 .. Len(s) - n : g[x][j] = s[j + n]
        /\ \A j \in 1 .. Len(t) : g[y][j] = t[j]
        /\ \A j \in 1 .. n : g[y][j + Len(t)] = s[j]
    <3>1. /\ Len(s) \in Nat /\ Len(t) \in Nat
          /\ Len(SubSeq(s, n + 1, Len(s))) = Len(s) - n
          /\ Len(t \o SubSeq(s, 1, n)) = Len(t) + n
          /\ \A j \in 1 .. Len(s) - n : SubSeq(s, n + 1, Len(s))[j] = s[j + n]
          /\ \A j \in 1 .. Len(t) : (t \o SubSeq(s, 1, n))[j] = t[j]
          /\ \A j \in 1 .. n : (t \o SubSeq(s, 1, n))[j + Len(t)] = s[j]
      BY ONLY <2>3, s \in Seq(Nat), t \in Seq(Nat), PartsOf
    <3> QED BY <2>2, <3>1
  <2> QED BY <2>1, <2>4
<1>2. \A z \in Places : z # x /\ z # y => g[z] = h[z]
  BY DEF Moved
<1> DEFINE P(z, j) == PlaceBefore(h, x, y, z, j)
           I(z, j) == IndexBefore(h, x, y, n, z, j)
<1>3. ASSUME NEW z \in Places, NEW j \in 1 .. Len(g[z])
      PROVE  P(z, j) \in Places /\ I(z, j) \in 1 .. Len(h[P(z, j)]) /\ g[z][j] = h[P(z, j)][I(z, j)]
  <2>1. CASE z = x
    <3>1. j \in 1 .. Len(h[x]) - n /\ j + n \in 1 .. Len(h[x]) BY <1>1, <2>1
    <3>2. P(z, j) = x /\ I(z, j) = j + n BY <2>1 DEF PlaceBefore, IndexBefore
    <3> QED BY <1>1, <2>1, <3>1, <3>2
  <2>2. CASE z = y /\ j > Len(h[y])
    <3>1. PICK k \in 1 .. n : j = k + Len(h[y]) /\ j - Len(h[y]) = k
      <4>1. j \in 1 .. Len(h[y]) + n BY <1>1, <2>2
      <4>2. j - Len(h[y]) \in 1 .. n /\ j = (j - Len(h[y])) + Len(h[y]) BY <1>1, <2>2, <4>1
      <4> QED BY <4>2
    <3>2. P(z, j) = x /\ I(z, j) = k BY <2>2, <3>1 DEF PlaceBefore, IndexBefore
    <3>3. k \in 1 .. Len(h[x]) BY <1>1
    <3> QED BY <1>1, <2>2, <3>1, <3>2, <3>3
  <2>3. CASE z = y /\ ~(j > Len(h[y]))
    <3>1. j \in 1 .. Len(h[y]) BY <1>1, <2>3
    <3>2. P(z, j) = y /\ I(z, j) = j BY <2>3 DEF PlaceBefore, IndexBefore
    <3> QED BY <1>1, <2>3, <3>1, <3>2
  <2>4. CASE z # x /\ z # y
    BY <1>2, <2>4 DEF PlaceBefore, IndexBefore
  <2> QED BY <2>1, <2>2, <2>3, <2>4
<1>4. ASSUME NEW z \in Places, NEW j \in 1 .. Len(h[z])
      PROVE  \E w \in Places : \E k \in 1 .. Len(g[w]) : g[w][k] = h[z][j]
  <2>1. CASE z = x /\ j <= n
    <3>1. j \in 1 .. n /\ j + Len(h[y]) \in 1 .. Len(g[y]) BY <1>1, <2>1
    <3> QED BY <1>1, <2>1, <3>1
  <2>2. CASE z = x /\ ~(j <= n)
    <3>1. j - n \in 1 .. Len(h[x]) - n /\ (j - n) + n = j BY <1>1, <2>2
    <3>2. PICK k \in 1 .. Len(h[x]) - n : k + n = j BY <3>1
    <3>3. k \in 1 .. Len(g[x]) /\ g[x][k] = h[x][j] BY <1>1, <3>2
    <3> QED BY <2>2, <3>3
  <2>3. CASE z = y
    <3>1. j \in 1 .. Len(g[y]) BY <1>1, <2>3
    <3> QED BY <1>1, <2>3, <3>1
  <2>4. CASE z # x /\ z # y BY <1>2, <2>4
  <2> QED BY <2>1, <2>2, <2>3, <2>4
<1>5. ASSUME NEW z \in Places, NEW w \in Places, NEW j \in 1 .. Len(g[z]), NEW k \in 1 .. Len(g[w]),
             P(z, j) = P(w, k), I(z, j) = I(w, k)
      PROVE  z = w /\ j = k
  <2>1. /\ z = x => j \in 1 .. Len(h[x]) - n
        /\ w = x => k \in 1 .. Len(h[x]) - n
        /\ z = y /\ j > Len(h[y]) => j - Len(h[y]) \in 1 .. n
        /\ w = y /\ k > Len(h[y]) => k - Len(h[y]) \in 1 .. n
    <3>1. z = y => j \in 1 .. Len(h[y]) + n BY <1>1
    <3>2. w = y => k \in 1 .. Len(h[y]) + n BY <1>1
    <3> QED BY <1>1, <3>1, <3>2
  <2> QED BY <1>1, <1>5, <2>1 DEF PlaceBefore, IndexBefore
<1> HIDE DEF P, I
<1>6. AreFrom(g, top) BY <1>3 DEF EachOnce, AreFrom
<1>7. AreThere(g, top)
  <2>1. SUFFICES ASSUME NEW v \in 1 .. top
                 PROVE  \E z \in Places : \E j \in 1 .. Len(g[z]) : g[z][j] = v
    BY DEF AreThere
  <2>2. PICK z \in Places : \E j \in 1 .. Len(h[z]) : h[z][j] = v
    BY DEF EachOnce, AreThere
  <2>3. PICK j \in 1 .. Len(h[z]) : h[z][j] = v BY <2>2
  <2> QED BY <1>4, <2>3
<1>8. AreApart(g)
  <2>1. SUFFICES ASSUME NEW z \in Places, NEW w \in Places,
                        NEW j \in 1 .. Len(g[z]), NEW k \in 1 .. Len(g[w]), g[z][j] = g[w][k]
                 PROVE  z = w /\ j = k
    BY DEF AreApart
  <2>2. P(z, j) = P(w, k) /\ I(z, j) = I(w, k)
    <3>1. h[P(z, j)][I(z, j)] = h[P(w, k)][I(w, k)] BY <1>3, <2>1
    <3> QED BY <1>3, <3>1 DEF EachOnce, AreApart
  <2> QED BY <1>5, <2>2
<1> QED BY <1>6, <1>7, <1>8 DEF EachOnce

(* A new element comes to the end of one place.                            *)
LEMMA NewKeeps ==
  ASSUME NEW h, NEW g, NEW x \in Places, h[x] \in Seq(Nat), NEW m \in Nat,
         g[x] = h[x] \o <<m + 1>>, \A z \in Places : z # x => g[z] = h[z], EachOnce(h, m)
  PROVE  EachOnce(g, m + 1)
<1>1. /\ Len(h[x]) \in Nat /\ Len(g[x]) = Len(h[x]) + 1
      /\ \A j \in 1 .. Len(h[x]) : g[x][j] = h[x][j]
      /\ g[x][Len(h[x]) + 1] = m + 1
  <2>1. <<m + 1>> \in Seq(Nat) /\ Len(<<m + 1>>) = 1 /\ <<m + 1>>[1] = m + 1 OBVIOUS
  <2>2. Len(h[x]) \in Nat BY LenProperties
  <2>3. PICK t \in Seq(Nat) : t = <<m + 1>> BY <2>1
  <2>4. /\ Len(h[x] \o t) = Len(h[x]) + Len(t)
        /\ \A k \in 1 .. Len(h[x]) + Len(t) :
             (h[x] \o t)[k] = IF k <= Len(h[x]) THEN h[x][k] ELSE t[k - Len(h[x])]
    BY ConcatProperties
  <2>5. \A j \in 1 .. Len(h[x]) : j \in 1 .. Len(h[x]) + 1 /\ j <= Len(h[x]) BY <2>2
  <2>6. /\ Len(h[x]) + 1 \in 1 .. Len(h[x]) + 1 /\ ~(Len(h[x]) + 1 <= Len(h[x]))
        /\ (Len(h[x]) + 1) - Len(h[x]) = 1
    BY <2>2
  <2> QED BY <2>1, <2>2, <2>3, <2>4, <2>5, <2>6
<1>2. ASSUME NEW z \in Places, NEW j \in 1 .. Len(g[z])
      PROVE  \/ j \in 1 .. Len(h[z]) /\ g[z][j] = h[z][j] /\ h[z][j] \in 1 .. m
             \/ z = x /\ j = Len(h[x]) + 1 /\ g[z][j] = m + 1
  <2>1. CASE z # x BY <2>1 DEF EachOnce, AreFrom
  <2>2. CASE z = x
    <3>1. j \in 1 .. Len(h[x]) \/ j = Len(h[x]) + 1 BY <1>1, <2>2
    <3> QED BY <1>1, <2>2, <3>1 DEF EachOnce, AreFrom
  <2> QED BY <2>1, <2>2
<1>3. \A k \in 1 .. m : k \in 1 .. m + 1 /\ k # m + 1 OBVIOUS
<1>4. m + 1 \in 1 .. m + 1 /\ \A k \in 1 .. m + 1 : k \in 1 .. m \/ k = m + 1 OBVIOUS
<1>5. AreFrom(g, m + 1) BY <1>2, <1>3, <1>4 DEF AreFrom
<1>6. AreThere(g, m + 1)
  <2>1. SUFFICES ASSUME NEW k \in 1 .. m + 1
                 PROVE  \E z \in Places : \E j \in 1 .. Len(g[z]) : g[z][j] = k
    BY DEF AreThere
  <2>2. CASE k = m + 1
    <3>1. Len(h[x]) + 1 \in 1 .. Len(g[x]) BY <1>1
    <3> QED BY <1>1, <2>2, <3>1
  <2>3. CASE k \in 1 .. m
    <3>0. PICK z \in Places : \E j \in 1 .. Len(h[z]) : h[z][j] = k
      BY <2>3 DEF EachOnce, AreThere
    <3>1. PICK j \in 1 .. Len(h[z]) : h[z][j] = k BY <3>0
    <3>2. j \in 1 .. Len(g[z]) /\ g[z][j] = h[z][j]
      <4>1. CASE z = x BY <1>1, <4>1
      <4>2. CASE z # x BY <4>2
      <4> QED BY <4>1, <4>2
    <3> QED BY <3>1, <3>2
  <2> QED BY <1>4, <2>2, <2>3
<1>7. AreApart(g)
  <2>1. SUFFICES ASSUME NEW z \in Places, NEW w \in Places,
                        NEW j \in 1 .. Len(g[z]), NEW k \in 1 .. Len(g[w]), g[z][j] = g[w][k]
                 PROVE  z = w /\ j = k
    BY DEF AreApart
  <2>2. CASE j \in 1 .. Len(h[z]) /\ g[z][j] = h[z][j] /\ h[z][j] \in 1 .. m
    <3>1. k \in 1 .. Len(h[w]) /\ g[w][k] = h[w][k] BY <1>2, <1>3, <2>1, <2>2
    <3>2. h[z][j] = h[w][k] BY <2>1, <2>2, <3>1
    <3>3. AreApart(h) BY DEF EachOnce
    <3> QED BY ONLY <2>2, <3>1, <3>2, <3>3, z \in Places, w \in Places DEF AreApart
  <2>3. CASE z = x /\ j = Len(h[x]) + 1 /\ g[z][j] = m + 1
    BY <1>2, <1>3, <2>1, <2>3
  <2> QED BY <1>2, <2>2, <2>3
<1> QED BY <1>5, <1>6, <1>7 DEF EachOnce

LEMMA HeldNext ==
  /\ Held'[0] = queue'[1] /\ Held'[Workers + 1] = queue'[2] /\ Held'[Workers + 2] = result'
  /\ \A w \in N!Workerset : Held'[w] = got'[w]
<1>1. /\ Held[0] = queue[1] /\ Held[Workers + 1] = queue[2] /\ Held[Workers + 2] = result
      /\ \A w \in N!Workerset : Held[w] = got[w]
  BY HeldAt
<1>2. (/\ Held[0] = queue[1] /\ Held[Workers + 1] = queue[2] /\ Held[Workers + 2] = result
       /\ \A w \in N!Workerset : Held[w] = got[w])'
  BY <1>1, PTL
<1> QED BY <1>2

LEMMA PlacesAre ==
  /\ 0 \in Places /\ Workers + 1 \in Places /\ Workers + 2 \in Places
  /\ N!Workerset \subseteq Places /\ 0 \notin N!Workerset
  /\ Workers + 1 \notin N!Workerset /\ Workers + 2 \notin N!Workerset
  /\ Workers + 1 # 0 /\ Workers + 2 # 0 /\ Workers + 2 # Workers + 1
BY PipelinesAssumption DEF Places, N!Workerset

LEMMA SameHeld ==
  ASSUME queue' = queue, got' = got, result' = result PROVE Held' = Held
BY DEF Held

(* Nothing is held while main builds.                                      *)
LEMMA NothingHeld == Nothing /\ Fed = 0 => EachOnce(Held, Fed)
<1> SUFFICES ASSUME Nothing, Fed = 0 PROVE EachOnce(Held, Fed) OBVIOUS
<1>1. \A x \in Places : Held[x] = <<>>
  BY Numbers DEF Nothing, Held
<1>2. \A x \in Places : Len(Held[x]) = 0 /\ 1 .. Len(Held[x]) = {}
  <2>1. Len(<<>>) = 0 /\ 1 .. 0 = {} OBVIOUS
  <2> QED BY <1>1, <2>1
<1>3. AreFrom(Held, Fed) /\ AreApart(Held) BY <1>2 DEF AreFrom, AreApart
<1>4. AreThere(Held, Fed)
  <2>1. 1 .. 0 = {} OBVIOUS
  <2> QED BY <2>1 DEF AreThere
<1> QED BY <1>3, <1>4 DEF EachOnce

LEMMA NothingHeldNext == Nothing' /\ (Fed = 0)' => EachOnce(Held, Fed)'
<1>1. (Nothing /\ Fed = 0 => EachOnce(Held, Fed))' BY NothingHeld, PTL
<1> QED BY <1>1

LEMMA NothingParallel ==
  ASSUME Nothing', (Fed = 0)', main' # "done" PROVE ParallelData'
<1>1. \A w \in N!Workerset : worker'[w] \notin Finished BY DEF Nothing, Finished
<1> QED BY <1>1, NothingHeldNext DEF ParallelData

LEMMA ParallelMain ==
  ASSUME Shape, ParallelData, kind = "parallel", ~Building, N!Main PROVE ParallelData'
<1>1. /\ kind' = kind /\ (N!Feed \/ N!FeedEnd \/ N!Drain \/ N!DrainEnd)
  BY DEF Building, Shape, MainPlaces, N!Main, N!pipe_pipeline, N!StageConnect,
    N!StageOut, N!StageFree, N!StageSink, N!PipelineReturn, N!ParallelNew, N!Instance,
    N!ParallelHandles, N!ParallelFree, N!RingNew, N!RingIn, N!RingFree, N!RingOut,
    N!spawn_thread, N!Token, N!Join, N!Feed, N!FeedEnd, N!Drain, N!DrainEnd, N!Rest
<1>2. /\ queue \in [N!Pipes -> Seq(Nat)] /\ N!Out(Workers) = 2 /\ at \in Nat
      /\ worker \in [N!Workerset -> N!Labels]
  BY OutIs, Numbers DEF Shape, NetTyped, DataTyped, PlacesTyped
<1>3. EachOnce(Held, Fed) BY DEF ParallelData
<1>4. CASE N!Feed
  <2>1. /\ main = "feed" /\ main' = "feed" /\ at' = at + 1
        /\ UNCHANGED <<kind, worker, got, result>>
        /\ queue' = IF readers[1] = {} THEN queue ELSE [queue EXCEPT ![1] = @ \o <<at>>]
    BY <1>4 DEF N!Feed, N!Go, N!Rest, N!Push
  <2>2. worker[1] \notin Finished /\ worker[1] # "none"
    BY <2>1, Numbers DEF ParallelData, Shape, WorkerPlaces, Spawned
  <2>3. Reads(1) BY <1>2, <2>2, Numbers DEF Reads, Finished, N!Labels
  <2>4. 1 \in readers[1] BY <2>3, Numbers DEF Shape, Holders, ThreadsRead, N!In
  <2>5. queue' = [queue EXCEPT ![1] = @ \o <<at>>] BY <2>1, <2>4
  <2>6. queue'[1] = queue[1] \o <<at>> /\ queue'[2] = queue[2] /\ queue[1] \in Seq(Nat)
    BY <1>2, <2>5, Numbers
  <2>7. PICK m \in Nat : m = Fed /\ at = m + 1 /\ Fed' = m + 1
    <3>1. at \in 1 .. Elements + 1 BY <2>1 DEF Shape, MainPlaces
    <3>2. at - 1 \in Nat /\ at = (at - 1) + 1 /\ (at + 1) - 1 = at BY <3>1, Numbers
    <3>3. Fed = at - 1 /\ Fed' = at' - 1 BY <2>1 DEF Fed
    <3> QED BY <2>1, <3>2, <3>3
  <2>8. Held'[0] = Held[0] \o <<m + 1>> /\ Held[0] \in Seq(Nat)
    BY <2>6, <2>7, HeldAt, HeldNext
  <2>9. \A z \in Places : z # 0 => Held'[z] = Held[z]
    BY <2>1, <2>6, HeldAt, HeldNext, PlaceIs
  <2>10. EachOnce(Held', m + 1)
    <3>1. PICK h, g : h = Held /\ g = Held' OBVIOUS
    <3>2. /\ h[0] \in Seq(Nat) /\ g[0] = h[0] \o <<m + 1>> /\ EachOnce(h, m)
          /\ \A z \in Places : z # 0 => g[z] = h[z]
      BY <1>3, <2>7, <2>8, <2>9, <3>1
    <3>3. EachOnce(g, m + 1) BY <3>2, NewKeeps, PlacesAre
    <3> QED BY <3>1, <3>3
  <2>11. EachOnce(Held, Fed)' BY <2>7, <2>10 DEF EachOnce, AreFrom, AreThere, AreApart
  <2> QED BY <2>1, <2>11 DEF ParallelData
<1>5. CASE N!FeedEnd
  <2>1. /\ main = "feed" /\ main' = "drain" /\ at = Elements + 1
        /\ UNCHANGED <<kind, worker, got, result, queue>>
    BY <1>5, Numbers DEF N!FeedEnd, N!Go, N!Rest, Shape, MainPlaces, NetTyped, PlacesTyped
  <2>2. Fed' = Fed /\ Held' = Held BY <2>1, SameHeld, Numbers DEF Fed
  <2>3. EachOnce(Held, Fed)' BY <1>3, <2>2 DEF EachOnce, AreFrom, AreThere, AreApart
  <2> QED BY <2>1, <2>3 DEF ParallelData
<1>6. CASE N!Drain
  <2>1. /\ main = "drain" /\ main' = "drain" /\ at = 2 /\ at' = at
        /\ UNCHANGED <<kind, worker, got>>
        /\ result' = result \o queue[2]
        /\ queue' = [queue EXCEPT ![2] = SubSeq(@, N!Takes(2, Len(queue[2])) + 1, Len(@))]
    BY <1>2, <1>6 DEF N!Drain, N!Pop, Shape, MainPlaces
  <2>2. queue[2] \in Seq(Nat) /\ Len(queue[2]) \in Nat /\ result \in Seq(Nat)
    BY Lengths, Numbers DEF Shape
  <2>3. N!Takes(2, Len(queue[2])) = Len(queue[2]) BY <2>2 DEF N!Takes
  <2>4. /\ queue'[2] = SubSeq(queue[2], Len(queue[2]) + 1, Len(queue[2])) /\ queue'[1] = queue[1]
    <3>1. PICK s : s = SubSeq(queue[2], Len(queue[2]) + 1, Len(queue[2])) OBVIOUS
    <3>2. queue' = [queue EXCEPT ![2] = s] BY <2>1, <2>3, <3>1
    <3> QED BY <1>2, <3>1, <3>2, Numbers
  <2>5. SubSeq(queue[2], 1, Len(queue[2])) = queue[2] BY <2>2
  <2>6. Moved(Held, Held', Workers + 1, Workers + 2, Len(queue[2]))
    <3>1. Held'[Workers + 1] = SubSeq(Held[Workers + 1], Len(queue[2]) + 1, Len(Held[Workers + 1]))
      BY <2>4, HeldAt, HeldNext
    <3>2. Held'[Workers + 2] = Held[Workers + 2] \o SubSeq(Held[Workers + 1], 1, Len(queue[2]))
      BY <2>1, <2>5, HeldAt, HeldNext
    <3>3. \A z \in Places : z \notin {Workers + 1, Workers + 2} => Held'[z] = Held[z]
      BY <2>1, <2>4, HeldAt, HeldNext, PlaceIs
    <3> QED BY <3>1, <3>2, <3>3 DEF Moved
  <2>7. EachOnce(Held', Fed)
    <3>1. PICK h, g : h = Held /\ g = Held' OBVIOUS
    <3>2. PICK f : f = Fed OBVIOUS
    <3>3. PICK n \in Nat : n = Len(queue[2]) BY <2>2
    <3>4. /\ h[Workers + 1] \in Seq(Nat) /\ h[Workers + 2] \in Seq(Nat) /\ EachOnce(h, f)
          /\ n \in 0 .. Len(h[Workers + 1])
          /\ Moved(h, g, Workers + 1, Workers + 2, n)
      BY <1>3, <2>2, <2>6, <3>1, <3>2, <3>3, HeldAt
    <3>5. EachOnce(g, f) BY <3>4, MoveKeeps, PlacesAre
    <3> QED BY <3>1, <3>2, <3>5
  <2>8. Fed' = Fed BY <2>1 DEF Fed
  <2>9. EachOnce(Held, Fed)' BY <2>7, <2>8 DEF EachOnce, AreFrom, AreThere, AreApart
  <2> QED BY <2>1, <2>4, <2>9 DEF ParallelData
<1>7. CASE N!DrainEnd
  <2>1. /\ main = "drain" /\ main' = "done" /\ at = 2 /\ queue[2] = <<>> /\ writers[2] = {}
        /\ UNCHANGED <<kind, worker, got, result, queue>>
    BY <1>2, <1>7 DEF N!DrainEnd, N!Ended, N!Go, N!Rest, Shape, MainPlaces
  <2>2. Fed' = Fed /\ Held' = Held BY <2>1, SameHeld DEF Fed
  <2>3. EachOnce(Held, Fed)' BY <1>3, <2>2 DEF EachOnce, AreFrom, AreThere, AreApart
  <2>4. \A w \in N!Workerset : worker[w] = "ended"
    <3>1. TAKE w \in N!Workerset
    <3>2. N!Out(w) = 2 BY OutIs
    <3>3. ~Writes(w) BY <2>1, <3>2, Numbers DEF Shape, Holders, ThreadsWrite
    <3>4. worker[w] # "none" /\ worker[w] \in N!Labels
      BY <1>2, <2>1 DEF Shape, WorkerPlaces, Spawned
    <3> QED BY <3>3, <3>4 DEF Writes, N!Labels
  <2> QED BY <2>1, <2>3, <2>4 DEF ParallelData
<1> QED BY <1>1, <1>4, <1>5, <1>6, <1>7

LEMMA ParallelPopRound ==
  ASSUME Shape, ParallelData, kind = "parallel", NEW w \in N!Workerset, N!PopRound(w)
  PROVE  ParallelData'
<1>0. N!In(w) = 1 /\ 1 \in N!Pipes /\ 2 \in N!Pipes BY Numbers DEF N!In
<1> DEFINE n == N!Takes(1, DEFAULT_BUFFER_SIZE - Len(got[w]))
<1>1. /\ queue[1] \in Seq(Nat) /\ Len(queue[1]) \in Nat /\ got[w] \in Seq(Nat)
  BY <1>0, Lengths DEF Shape
<1>2. n \in 1 .. Len(queue[1]) BY <1>0, PopTakes DEF Shape
<1>3. /\ worker[w] = "pop" /\ queue[1] # <<>>
      /\ got' = [got EXCEPT ![w] = got[w] \o SubSeq(queue[1], 1, n)]
      /\ \E x \in {"call", "pop"} : worker' = [worker EXCEPT ![w] = x]
      /\ queue' = [queue EXCEPT ![1] = SubSeq(queue[1], N!Takes(1, n) + 1, Len(queue[1]))]
      /\ UNCHANGED <<kind, main, at, result>>
  BY <1>0 DEF N!PopRound, N!Pop, N!At, N!Becomes, N!MainRest
<1> HIDE DEF n
<1>4. N!Takes(1, n) = n /\ n \in 0 .. Len(queue[1]) BY <1>1, <1>2 DEF N!Takes
<1>5. /\ got \in [N!Workerset -> Seq(Nat)] /\ queue \in [N!Pipes -> Seq(Nat)]
      /\ worker \in [N!Workerset -> N!Labels]
  BY DEF Shape, NetTyped, DataTyped, PlacesTyped
<1>6. PICK s, t : s = SubSeq(queue[1], 1, n) /\ t = SubSeq(queue[1], n + 1, Len(queue[1]))
  OBVIOUS
<1>7. got' = [got EXCEPT ![w] = got[w] \o s] /\ queue' = [queue EXCEPT ![1] = t]
  BY <1>3, <1>4, <1>6
<1>8. /\ got'[w] = got[w] \o s /\ \A v \in N!Workerset : v # w => got'[v] = got[v]
      /\ queue'[1] = t /\ queue'[2] = queue[2]
  BY <1>0, <1>5, <1>7
<1>9. Moved(Held, Held', 0, w, n)
  <2>1. Held'[0] = SubSeq(Held[0], n + 1, Len(Held[0])) BY <1>6, <1>8, HeldAt, HeldNext
  <2>2. Held'[w] = Held[w] \o SubSeq(Held[0], 1, n) BY <1>6, <1>8, HeldAt, HeldNext
  <2>3. \A z \in Places : z \notin {0, w} => Held'[z] = Held[z]
    BY <1>3, <1>8, HeldAt, HeldNext, PlaceIs
  <2> QED BY <2>1, <2>2, <2>3 DEF Moved
<1>10. EachOnce(Held, Fed)'
  <2>1. PICK h, g, f : h = Held /\ g = Held' /\ f = Fed OBVIOUS
  <2>2. Fed' = f BY <1>3, <2>1 DEF Fed
  <2>3. /\ h[0] \in Seq(Nat) /\ h[w] \in Seq(Nat) /\ EachOnce(h, f)
        /\ n \in 0 .. Len(h[0]) /\ Moved(h, g, 0, w, n)
        /\ 0 \in Places /\ w \in Places /\ 0 # w
    BY <1>1, <1>4, <1>9, <2>1, HeldAt, PlacesAre DEF ParallelData
  <2>4. EachOnce(g, f) BY <2>3, MoveKeeps
  <2> QED BY <2>1, <2>2, <2>4 DEF EachOnce, AreFrom, AreThere, AreApart
<1>11. \A v \in N!Workerset : worker[v] \notin Finished
  BY <1>3 DEF ParallelData
<1>12. \A v \in N!Workerset : worker'[v] \notin Finished
  BY <1>3, <1>5, <1>11 DEF Finished
<1>13. main' # "done" BY <1>3 DEF ParallelData
<1> QED BY <1>10, <1>12, <1>13 DEF ParallelData

LEMMA ParallelCall ==
  ASSUME Shape, ParallelData, kind = "parallel", NEW w \in N!Workerset, N!Call(w)
  PROVE  ParallelData'
<1>0. N!Out(w) = 2 /\ N!Out(Workers) = 2 /\ 1 \in N!Pipes /\ 2 \in N!Pipes
  BY OutIs, Numbers
<1>1. /\ worker[w] = "call"
      /\ got' = [got EXCEPT ![w] = <<>>]
      /\ worker' = [worker EXCEPT ![w] = "pop"]
      /\ queue' = IF readers[2] = {} THEN queue ELSE [queue EXCEPT ![2] = queue[2] \o got[w]]
      /\ UNCHANGED <<kind, main, at, result>>
  BY <1>0 DEF N!Call, N!Push, N!At, N!Becomes, N!MainRest
<1>2. main \in {"feed", "drain"}
  <2>1. ~Building BY <1>1 DEF Shape, Early
  <2>2. main # "done" BY <1>1 DEF ParallelData
  <2> QED BY <2>1, <2>2 DEF Building, Shape, MainPlaces
<1>3. N!User \in readers[2] BY <1>0, <1>2 DEF Shape, Holders, MainHolds, UserReads
<1>4. /\ got \in [N!Workerset -> Seq(Nat)] /\ queue \in [N!Pipes -> Seq(Nat)]
      /\ worker \in [N!Workerset -> N!Labels]
      /\ queue[2] \in Seq(Nat) /\ got[w] \in Seq(Nat) /\ Len(got[w]) \in Nat
  BY <1>0, Lengths DEF Shape, NetTyped, DataTyped, PlacesTyped
<1>5. /\ queue'[2] = queue[2] \o got[w] /\ queue'[1] = queue[1]
      /\ got'[w] = <<>> /\ \A v \in N!Workerset : v # w => got'[v] = got[v]
  <2>1. PICK s : s = queue[2] \o got[w] OBVIOUS
  <2>2. queue' = [queue EXCEPT ![2] = s] BY <1>1, <1>3, <2>1
  <2> QED BY <1>0, <1>1, <1>4, <2>1, <2>2
<1>6. /\ SubSeq(got[w], 1, Len(got[w])) = got[w]
      /\ SubSeq(got[w], Len(got[w]) + 1, Len(got[w])) = <<>>
  <2>1. SubSeq(got[w], 1, Len(got[w])) = got[w] BY <1>4
  <2>2. PICK s \in Seq(Nat), n \in Nat : s = got[w] /\ n = Len(s) BY <1>4
  <2>3. n \in 0 .. Len(s) /\ Len(s) - n = 0 /\ <<>> \in Seq(Nat) BY <2>2
  <2>4. Len(SubSeq(s, n + 1, Len(s))) = 0 BY <2>3, PartsOf
  <2>5. SubSeq(s, n + 1, Len(s)) \in Seq(Nat)
    <3>1. \A k \in n + 1 .. Len(s) : s[k] \in Nat BY <2>2
    <3>2. n + 1 \in Int /\ Len(s) \in Int BY <2>2
    <3> QED BY <3>1, <3>2, SubSeqProperties
  <2> QED BY <2>1, <2>2, <2>4, <2>5, EmptySeq
<1>7. Moved(Held, Held', w, Workers + 1, Len(got[w]))
  <2>1. Held'[w] = SubSeq(Held[w], Len(got[w]) + 1, Len(Held[w]))
    BY <1>5, <1>6, HeldAt, HeldNext
  <2>2. Held'[Workers + 1] = Held[Workers + 1] \o SubSeq(Held[w], 1, Len(got[w]))
    BY <1>5, <1>6, HeldAt, HeldNext
  <2>3. \A z \in Places : z \notin {w, Workers + 1} => Held'[z] = Held[z]
    BY <1>1, <1>5, HeldAt, HeldNext, PlaceIs
  <2> QED BY <2>1, <2>2, <2>3 DEF Moved
<1>8. EachOnce(Held, Fed)'
  <2>1. PICK h, g, f : h = Held /\ g = Held' /\ f = Fed OBVIOUS
  <2>2. Fed' = f BY <1>1, <2>1 DEF Fed
  <2>3. PICK n \in Nat : n = Len(got[w]) BY <1>4
  <2>4. PICK y \in Places : y = Workers + 1 /\ y # w /\ w \in Places BY PlacesAre
  <2>5. /\ h[w] \in Seq(Nat) /\ h[y] \in Seq(Nat) /\ EachOnce(h, f)
        /\ n \in 0 .. Len(h[w]) /\ Moved(h, g, w, y, n)
    BY <1>4, <1>7, <2>1, <2>3, <2>4, HeldAt DEF ParallelData
  <2>6. EachOnce(g, f) BY <2>4, <2>5, MoveKeeps
  <2> QED BY <2>1, <2>2, <2>6 DEF EachOnce, AreFrom, AreThere, AreApart
<1>9. ASSUME NEW v \in N!Workerset, worker'[v] \in Finished
      PROVE  main' \in {"drain", "done"} /\ queue'[1] = <<>> /\ got'[v] = <<>>
  <2>1. v # w BY <1>1, <1>4, <1>9 DEF Finished
  <2>2. worker[v] \in Finished BY <1>1, <1>4, <1>9, <2>1
  <2> QED BY <1>1, <1>5, <2>1, <2>2 DEF ParallelData
<1>10. main' # "done" BY <1>1, <1>2
<1> QED BY <1>8, <1>9, <1>10 DEF ParallelData

LEMMA ParallelLabel ==
  ASSUME Shape, ParallelData, kind = "parallel", NEW w \in N!Workerset,
         N!PopEnded(w) \/ N!LastCall(w) \/ N!FreeIn(w) \/ N!FreeOut(w)
  PROVE  ParallelData'
<1>1. /\ UNCHANGED <<kind, main, at, queue, got, result>> /\ worker[w] # "ended"
      /\ worker \in [N!Workerset -> N!Labels]
  BY DEF N!PopEnded, N!LastCall, N!FreeIn, N!FreeOut, N!At, N!MainRest, N!pipev, Shape, NetTyped,
    PlacesTyped
<1>2. PICK x : /\ worker' = [worker EXCEPT ![w] = x]
               /\ x \in Finished => main \in {"drain", "done"} /\ queue[1] = <<>> /\ got[w] = <<>>
  <2>1. CASE N!PopEnded(w)
    <3>1. /\ worker[w] = "pop" /\ queue[1] = <<>> /\ writers[N!In(w)] = {}
          /\ worker' = [worker EXCEPT ![w] = IF got[w] = <<>> THEN "last" ELSE "call"]
      BY <2>1 DEF N!PopEnded, N!Ended, N!In, N!At, N!Becomes
    <3>2. FeederDone(w) BY <3>1, Upstream DEF Shape
    <3>3. PICK x : x = IF got[w] = <<>> THEN "last" ELSE "call" OBVIOUS
    <3>4. worker' = [worker EXCEPT ![w] = x] BY <3>1, <3>3
    <3>5. x \in Finished => got[w] = <<>> BY <3>3 DEF Finished
    <3> QED BY <3>1, <3>2, <3>4, <3>5 DEF FeederDone
  <2>2. CASE N!LastCall(w) \/ N!FreeIn(w) \/ N!FreeOut(w)
    <3>1. worker[w] \in Finished /\ \E x : worker' = [worker EXCEPT ![w] = x]
      BY <2>2 DEF N!LastCall, N!FreeIn, N!FreeOut, N!At, N!Becomes, Finished
    <3> QED BY <3>1 DEF ParallelData
  <2> QED BY <2>1, <2>2
<1>3. Held' = Held /\ Fed' = Fed BY <1>1, SameHeld DEF Fed
<1>4. EachOnce(Held, Fed)' BY <1>3 DEF ParallelData, EachOnce, AreFrom, AreThere, AreApart
<1>5. \A v \in N!Workerset :
        worker'[v] \in Finished => main' \in {"drain", "done"} /\ queue'[1] = <<>> /\ got'[v] = <<>>
  BY <1>1, <1>2 DEF ParallelData
<1>6. main' = "done" => queue'[2] = <<>> /\ \A v \in N!Workerset : worker'[v] = "ended"
  BY <1>1, <1>2 DEF ParallelData
<1> QED BY <1>4, <1>5, <1>6 DEF ParallelData

LEMMA ParallelDataStep == ASSUME Shape, ParallelData, [N!Next]_netv PROVE ParallelData'
<1>1. CASE UNCHANGED netv
  <2>1. /\ UNCHANGED <<kind, worker, main, at, queue, got, result>> /\ Held' = Held /\ Fed' = Fed
    BY <1>1, SameHeld DEF netv, Fed
  <2> QED BY <2>1 DEF ParallelData, EachOnce, AreFrom, AreThere, AreApart
<1>2. CASE N!Next
  <2>1. kind' = kind BY <1>2, KindKept
  <2>2. SUFFICES ASSUME kind = "parallel" PROVE ParallelData'
    BY <2>1 DEF ParallelData
  <2>3. CASE Building'
    <3>1. Shape' BY <1>2, ShapeStep
    <3>2. Nothing' /\ (Fed = 0)' /\ main' # "done"
      BY <2>3, <3>1 DEF Shape, Early, Building, Nothing, Fed
    <3> QED BY <3>2, NothingParallel
  <2>4. CASE Building /\ ~Building'
    <3>2. Nothing BY <2>4 DEF Shape, Early, Nothing
    <3>3. main' = "feed" /\ at' = 1 /\ UNCHANGED <<queue, worker, got, handled, result>>
      BY <1>2, <2>2, <2>4, NetworkBuilt
    <3>4. Nothing' /\ (Fed = 0)' /\ main' # "done" BY <3>2, <3>3 DEF Nothing, Fed
    <3> QED BY <3>4, NothingParallel
  <2>5. CASE ~Building
    <3>1. ASSUME NEW w \in N!Workerset, N!Worker(w) PROVE ParallelData'
      <4>1. \/ N!PopRound(w) \/ N!Call(w)
            \/ N!PopEnded(w) \/ N!LastCall(w) \/ N!FreeIn(w) \/ N!FreeOut(w)
        BY <2>2, <3>1 DEF N!Worker, N!RingPop, N!RingEnded
      <4> QED BY <2>2, <4>1, ParallelPopRound, ParallelCall, ParallelLabel
    <3> QED BY <1>2, <2>2, <2>5, <3>1, ParallelMain DEF N!Next
  <2> QED BY <2>3, <2>4, <2>5
<1> QED BY <1>1, <1>2

-----------------------------------------------------------------------------
(* What the caller has when everything has come to an end.                 *)
LEMMA PushedIs ==
  /\ N!Pushed \in Seq(Nat) /\ Len(N!Pushed) = Elements
  /\ \A k \in 1 .. Elements : N!Pushed[k] = k
<1>1. Elements \in Nat BY Numbers
<1> QED BY <1>1 DEF N!Pushed

LEMMA CountsIsPushed ==
  ASSUME NEW s \in Seq(Nat), Counts(s, 0)
  PROVE  /\ Len(s) = Elements => s = N!Pushed
         /\ Len(s) <= Elements => N!IsPrefix(s, N!Pushed)
<1>1. Len(s) \in Nat /\ Elements \in Nat /\ \A k \in 1 .. Len(s) : s[k] = k
  <2>1. \A k \in 1 .. Len(s) : 0 + k = k BY LenProperties
  <2> QED BY <2>1, LenProperties, Numbers DEF Counts
<1>2. ASSUME Len(s) = Elements PROVE s = N!Pushed
  <2>1. \A k \in 1 .. Len(s) : s[k] = N!Pushed[k] BY <1>1, <1>2, PushedIs
  <2> QED BY <1>2, <2>1, PushedIs, SeqEqual
<1>3. ASSUME Len(s) <= Elements PROVE N!IsPrefix(s, N!Pushed)
  <2>1. PICK p \in Seq(Nat) : /\ p = N!Pushed /\ Len(p) = Elements
                              /\ \A k \in 1 .. Elements : p[k] = k
    BY PushedIs
  <2>2. PICK n \in Nat : n = Len(s) BY <1>1
  <2>3. /\ SubSeq(p, 1, n) \in Seq(Nat) /\ Len(SubSeq(p, 1, n)) = n
        /\ Counts(SubSeq(p, 1, n), 0)
    <3>1. n \in 0 .. Len(p) BY <1>1, <1>3, <2>1, <2>2
    <3>2. Counts(p, 0) BY <1>1, <2>1 DEF Counts
    <3> QED BY <3>1, <3>2, CountsSplit
  <2>4. PICK t \in Seq(Nat) : t = SubSeq(p, 1, n) BY <2>3
  <2>5. Len(s) = Len(t) /\ \A k \in 1 .. Len(s) : s[k] = t[k]
    BY <2>2, <2>3, <2>4 DEF Counts
  <2>6. s = t BY <2>5, SeqEqual
  <2>7. SubSeq(s, 1, Len(s)) = s OBVIOUS
  <2> QED BY <1>3, <2>1, <2>2, <2>4, <2>6, <2>7 DEF N!IsPrefix
<1> QED BY <1>2, <1>3

LEMMA ParallelResult ==
  ASSUME Shape, ParallelData, kind = "parallel", main = "done"
  PROVE  Len(result) = Elements /\ \A k : (\E j \in 1 .. Len(result) : result[j] = k) <=> k \in 1 .. Elements
<1>1. result \in Seq(Nat) /\ Len(result) \in Nat /\ Elements \in Nat
  BY Lengths, Numbers DEF Shape
<1>2. EachOnce(Held, Elements) BY DEF ParallelData, Fed
<1>3. \A z \in Places : z # Workers + 2 => Held[z] = <<>>
  <2>1. /\ queue[1] = <<>> /\ queue[2] = <<>>
        /\ \A w \in N!Workerset : got[w] = <<>>
    BY Numbers DEF ParallelData, Finished
  <2> QED BY <2>1, HeldAt, PlaceIs
<1>4. Held[Workers + 2] = result /\ Workers + 2 \in Places BY HeldAt, PlacesAre
<1>5. \A j \in 1 .. Len(result) : result[j] \in 1 .. Elements
  BY <1>2, <1>4 DEF EachOnce, AreFrom
<1>6. \A k \in 1 .. Elements : \E j \in 1 .. Len(result) : result[j] = k
  <2>1. TAKE k \in 1 .. Elements
  <2>2. PICK z \in Places : \E j \in 1 .. Len(Held[z]) : Held[z][j] = k
    BY <1>2 DEF EachOnce, AreThere
  <2>3. z = Workers + 2
    <3>1. SUFFICES ASSUME z # Workers + 2 PROVE FALSE OBVIOUS
    <3>2. Held[z] = <<>> /\ Len(<<>>) = 0 /\ 1 .. 0 = {} BY <1>3, <3>1
    <3> QED BY <2>2, <3>2
  <2> QED BY <1>4, <2>2, <2>3
<1>7. \A k, j \in 1 .. Len(result) : result[k] = result[j] => k = j
  BY <1>2, <1>4 DEF EachOnce, AreApart
<1>8. Len(result) = Elements
  <2> DEFINE S == 1 .. Len(result)
             T == 1 .. Elements
             f == [j \in S |-> result[j]]
  <2>1. /\ IsFiniteSet(S) /\ Cardinality(S) = Len(result)
        /\ IsFiniteSet(T) /\ Cardinality(T) = Elements
    <3>1. /\ IsFiniteSet(1 .. Len(result)) /\ IsFiniteSet(1 .. Elements)
          /\ Cardinality(1 .. Len(result)) = IF 1 > Len(result) THEN 0 ELSE (Len(result) - 1) + 1
          /\ Cardinality(1 .. Elements) = IF 1 > Elements THEN 0 ELSE (Elements - 1) + 1
      BY <1>1, FS_Interval
    <3> QED BY <1>1, <3>1
  <2>2. f \in Bijection(S, T)
    <3>1. f \in [S -> T] BY <1>5
    <3>2. \A k, j \in S : f[k] = f[j] => k = j BY <1>7
    <3>3. \A k \in T : \E j \in S : f[j] = k BY <1>6
    <3> HIDE DEF S, T, f
    <3> QED BY <3>1, <3>2, <3>3 DEF Bijection, Injection, Surjection, IsInjective
  <2>3. ExistsBijection(S, T) BY <2>2 DEF ExistsBijection
  <2> HIDE DEF S, T
  <2>4. Cardinality(T) = Cardinality(S) BY <2>1, <2>3, FS_Bijection
  <2> QED BY <2>1, <2>4
<1> QED BY <1>5, <1>6, <1>8

LEMMA Complete == ASSUME Shape, ChainData, ParallelData PROVE ResultComplete
<1>0. result \in Seq(Nat) /\ Len(result) \in Nat /\ Workers \in N!Workerset
      /\ Len(queue[Workers + 1]) \in Nat /\ Elements \in Nat
  BY Lengths, Numbers DEF Shape
<1>1. kind = "chain" => N!IsPrefix(result, N!Pushed)
  <2>1. SUFFICES ASSUME kind = "chain" PROVE N!IsPrefix(result, N!Pushed) OBVIOUS
  <2>2. Counts(result, 0) /\ Len(result) + Len(queue[Workers + 1]) = Len(handled[Workers])
        /\ Len(handled[Workers]) <= Elements
    BY <1>0, <2>1 DEF ChainData, ChainEnd, ChainThread
  <2>3. Len(result) <= Elements BY <1>0, <2>2
  <2> QED BY <1>0, <2>2, <2>3, CountsIsPushed
<1>2. kind \in {"chain", "parallel"} /\ main = "done" =>
        Len(result) = Elements /\ N!ToSet(result) = N!ToSet(N!Pushed)
  <2>1. SUFFICES ASSUME kind \in {"chain", "parallel"}, main = "done"
                 PROVE  Len(result) = Elements /\ N!ToSet(result) = N!ToSet(N!Pushed)
    OBVIOUS
  <2>2. CASE kind = "chain"
    <3>1. Counts(result, 0) /\ Len(result) = Elements BY <2>1, <2>2 DEF ChainData, ChainEnd
    <3> QED BY <1>0, <3>1, CountsIsPushed
  <2>3. CASE kind = "parallel"
    <3>1. Len(result) = Elements
          /\ \A k : (\E j \in 1 .. Len(result) : result[j] = k) <=> k \in 1 .. Elements
      BY <2>1, <2>3, ParallelResult
    <3>2. N!ToSet(result) = {result[j] : j \in 1 .. Len(result)}
          /\ N!ToSet(N!Pushed) = {N!Pushed[j] : j \in 1 .. Elements}
      BY <1>0, PushedIs DEF N!ToSet
    <3>3. \A k : k \in N!ToSet(N!Pushed) <=> k \in 1 .. Elements BY <3>2, PushedIs
    <3>4. \A k : k \in N!ToSet(result) <=> k \in 1 .. Elements BY <3>1, <3>2
    <3> QED BY <3>1, <3>3, <3>4
  <2> QED BY <2>1, <2>2, <2>3
<1>3. kind \in {"chain", "sink"} => \A w \in N!Workerset : N!At(w, "ended") => handled[w] = N!Pushed
  <2>1. SUFFICES ASSUME kind \in {"chain", "sink"}, NEW w \in N!Workerset, worker[w] = "ended"
                 PROVE  handled[w] = N!Pushed
    BY DEF N!At
  <2>2. Counts(handled[w], 0) /\ Len(handled[w]) = Elements /\ handled[w] \in Seq(Nat)
    BY <2>1, Lengths DEF ChainData, ChainThread, Finished, Shape
  <2> QED BY <2>2, CountsIsPushed
<1> QED BY <1>1, <1>2, <1>3 DEF ResultComplete, N!ResultComplete

(* A chain gives its caller what was pushed, in order and, when it is over,*)
(* all of it; parallel instances give all of it once each.                 *)
THEOREM NothingIsLost == AnyFairSpec => []ResultComplete
<1>1. AnyInit => Shape /\ ChainData /\ ParallelData
  <2>1. SUFFICES ASSUME AnyInit PROVE Shape /\ ChainData /\ ParallelData OBVIOUS
  <2>2. Shape /\ main = "new" BY <2>1, NetInit, ShapeInit DEF N!Init
  <2>3. Building /\ Nothing /\ Fed = 0 BY <2>2 DEF Building, Shape, Early, Nothing, Fed
  <2>4. \A w \in N!Workerset : worker[w] \notin Finished BY <2>3 DEF Nothing, Finished
  <2> QED BY <2>2, <2>3, <2>4, StillNothing, NothingHeld DEF ParallelData
<1>2. Shape /\ ChainData /\ ParallelData /\ [AnyNext]_allv => (Shape /\ ChainData /\ ParallelData)'
  BY NetStep, ShapeStep, ChainDataStep, ParallelDataStep
<1> QED BY <1>1, <1>2, Complete, PTL DEF AnyFairSpec
=============================================================================
