------------------------------- MODULE Pipe -------------------------------
(***************************************************************************)
(* The blocking queue of pipe.c: producers push elements, consumers pop    *)
(* them, and the thread that called pipe_new issues the handles and frees  *)
(* its own.  An action is the code a thread runs from one blocking or      *)
(* racing access to the next; a critical section that only touches what    *)
(* its locks guard is one action, and the reads the code makes without the *)
(* guarding lock (a pusher reads `begin`, a popper reads `end`) are kept   *)
(* in `seen` and may be stale when they are used.                          *)
(*                                                                         *)
(* A byte of the pipe is a pair <<producer, position in what it pushed>>.  *)
(***************************************************************************)
EXTENDS PipeBuffer, Sequences, FiniteSets

CONSTANTS
  Producers, Consumers,  \* the threads that own one handle each
  Main,                  \* the thread that owns the pipe_t
  NoThread,              \* the owner of a free lock
  Junk,                  \* what malloc leaves in a byte
  Elements,              \* bound: the elements each producer pushes in all
  PushCounts, PopCounts, \* the `count` arguments of the calls
  ReserveCounts,         \* the `count` arguments of pipe_reserve
  Spurious               \* TRUE if cond_wait may return unasked

ASSUME PipeAssumption ==
  /\ Producers \cap Consumers = {}
  /\ Main \notin Producers \cup Consumers
  /\ NoThread \notin Producers \cup Consumers \cup {Main}
  /\ IsFiniteSet(Producers) /\ IsFiniteSet(Consumers)
  /\ Elements \in Nat
  /\ PushCounts \subseteq Nat \ {0}
  /\ PopCounts \subseteq Nat \ {0}
  /\ ReserveCounts \subseteq Nat
  /\ Spurious \in BOOLEAN

Threads == Producers \cup Consumers \cup {Main}

VARIABLES
  buffer,             \* the memory of the pipe: offset -> byte
  bufend, begin, end, \* the pointers of pipe_t, as offsets from `buffer`
  min_cap,
  producer_refcount,  \* guarded by begin_lock
  consumer_refcount,  \* guarded by end_lock
  begin_lock, end_lock,
  freed,              \* how often deallocate has run
  pc,                 \* where each thread is
  want,               \* bytes left of a thread's call: count, bytes_left
  n,                  \* bytes moved by its last copy: pushed, popped
  seen,               \* the pointer it read without that pointer's lock
  eager,              \* the consumers inside pipe_pop_eager
  new_producer_refcount,  \* pipe_free's local
  budget,             \* elements each producer may still push
  sent,               \* bytes of each producer that went into the pipe
  target,             \* bytes each consumer popped, in order
  eof                 \* the consumers a pop has told that no more will come

shared == <<buffer, bufend, begin, end, min_cap>>
counts == <<producer_refcount, consumer_refcount, freed, new_producer_refcount>>
locks  == <<begin_lock, end_lock>>
locals == <<want, n, seen, eager>>
client == <<budget, sent, target, eof>>
vars   == <<shared, counts, locks, pc, locals, client>>

Byte == Producers \X Int
NULL == [a \in {} |-> Junk]          \* a pointer to no memory

PushPcs == {"push_lock", "push_wait", "push_asleep", "push_grow", "push_copy",
            "push_signal"}
PopPcs == {"pop_lock", "pop_wait", "pop_asleep", "pop_copy", "trim_end",
           "trim_begin", "pop_signal"}
FreePcs == {"pipe_free", "pf_check", "cf_check", "wake_producers",
            "wake_consumers", "deallocate"}
ReservePcs == {"reserve_end", "reserve_begin"}
Pcs == {"unborn", "idle", "done"}
         \cup PushPcs \cup PopPcs \cup FreePcs \cup ReservePcs

TypeOK ==
  /\ bufend \in Nat \ {0} /\ begin \in Int /\ end \in Int /\ min_cap \in Nat
  /\ \/ buffer = NULL
     \/ buffer \in [0 .. bufend - 1 -> Byte \cup {Junk}]
  /\ producer_refcount \in Int /\ consumer_refcount \in Int
  /\ new_producer_refcount \in Int /\ freed \in Nat
  /\ begin_lock \in Threads \cup {NoThread}
  /\ end_lock \in Threads \cup {NoThread}
  /\ pc \in [Threads -> Pcs]
  /\ want \in [Threads -> Nat] /\ n \in [Threads -> Int] /\ seen \in [Threads -> Int]
  /\ eager \subseteq Consumers /\ eof \subseteq Consumers
  /\ budget \in [Producers -> Nat] /\ sent \in [Producers -> Int]
  /\ target \in [Consumers -> Seq(Byte \cup {Junk})]

---------------------------------------------------------------------------
(* Snapshots: the pipe as it is, as a pusher saw it, as a popper saw it.   *)

Pipe == [bufend |-> bufend, begin |-> begin, end |-> end]
PushView(t) == [Pipe EXCEPT !.begin = seen[t]]
PopView(t) == [Pipe EXCEPT !.end = seen[t]]

(* The byte at an address; memory outside the buffer holds anything.       *)
Cell(a) == IF a \in DOMAIN buffer THEN buffer[a] ELSE Junk

(* The bytes pushed and not yet popped, oldest first.                      *)
Contents ==
  IF buffer = NULL THEN <<>>
  ELSE [i \in 1 .. bytes_in_use(Pipe) |-> Cell(LiveAddr(Pipe, i - 1))]

(* What one round of a call moves: as much as fits, as much as is there.   *)
PushedUnbounded(t) == want[t]        \* mutant: max_cap is not looked at
Pushed(t) == MinOf(want[t], max_cap - bytes_in_use(PushView(t)))
Popped(t) == MinOf(want[t], bytes_in_use(PopView(t)))

(* Mutant: bufend is set before the sentinel is added to the size.         *)
resize_buffer_short(new_size, mincap) ==
  IF ~Resizes(new_size, mincap) THEN UNCHANGED <<buffer, bufend, begin, end>>
  ELSE LET kept == bytes_in_use(Pipe) + ElemSize
           size == ResizeTo(new_size) + ElemSize
       IN  /\ buffer' = [a \in 0 .. size - 1 |->
                           IF a < kept THEN Cell((begin + a) % bufend) ELSE Junk]
           /\ bufend' = ResizeTo(new_size)
           /\ begin' = 0
           /\ end' = kept

(* Mutant: a wrapped buffer is copied as if it did not wrap.               *)
resize_buffer_nowrap(new_size, mincap) ==
  IF ~Resizes(new_size, mincap) THEN UNCHANGED <<buffer, bufend, begin, end>>
  ELSE LET kept == bytes_in_use(Pipe) + ElemSize
           size == ResizeTo(new_size) + ElemSize
       IN  /\ buffer' = [a \in 0 .. size - 1 |->
                           IF a < kept THEN Cell(begin + a) ELSE Junk]
           /\ bufend' = size
           /\ begin' = 0
           /\ end' = kept

(***************************************************************************)
(* resize_buffer and copy_pipe_into_new_buf: the sentinel and the elements *)
(* move to the front of a new buffer of new_size bytes and one element.    *)
(***************************************************************************)
resize_buffer(new_size, mincap) ==
  IF ~Resizes(new_size, mincap) THEN UNCHANGED <<buffer, bufend, begin, end>>
  ELSE LET kept == bytes_in_use(Pipe) + ElemSize
           size == ResizeTo(new_size) + ElemSize
       IN  /\ buffer' = [a \in 0 .. size - 1 |->
                           IF a < kept THEN Cell((begin + a) % bufend) ELSE Junk]
           /\ bufend' = size
           /\ begin' = 0
           /\ end' = kept

(***************************************************************************)
(* Condition variables.  The waiters of just_popped are the threads at     *)
(* "push_asleep", those of just_pushed the threads at "pop_asleep".  A     *)
(* signal wakes one waiter if there is one, a broadcast all of them; a     *)
(* woken thread takes its mutex again and repeats its test.                *)
(***************************************************************************)
AwaitingRoom == {t \in Threads : pc[t] = "push_asleep"}
AwaitingElements == {t \in Threads : pc[t] = "pop_asleep"}

cond_signal(waiters) ==
  IF waiters = {} THEN {{}} ELSE {{w} : w \in waiters}
cond_broadcast(waiters) == {waiters}

GoTo(t, next) == pc' = [pc EXCEPT ![t] = next]

GoToWaking(t, next, woken, relock) ==
  pc' = [u \in Threads |-> IF u = t THEN next ELSE IF u \in woken THEN relock ELSE pc[u]]

(* A call returns: its locals are dead.                                    *)
Return(t) ==
  /\ want' = [want EXCEPT ![t] = 0]
  /\ n' = [n EXCEPT ![t] = 0]
  /\ seen' = [seen EXCEPT ![t] = 0]
  /\ eager' = eager \ {t}

---------------------------------------------------------------------------
(* pipe_new, pipe_producer_new and pipe_consumer_new                       *)

Init ==
  /\ buffer = [a \in 0 .. InitialCap - 1 |-> Junk]
  /\ bufend = InitialCap /\ begin = 0 /\ end = ElemSize /\ min_cap = InitialCap
  /\ producer_refcount = 1 /\ consumer_refcount = 1
  /\ new_producer_refcount = 0 /\ freed = 0
  /\ begin_lock = NoThread /\ end_lock = NoThread
  /\ pc = [t \in Threads |-> IF t = Main THEN "idle" ELSE "unborn"]
  /\ want = [t \in Threads |-> 0] /\ n = [t \in Threads |-> 0]
  /\ seen = [t \in Threads |-> 0] /\ eager = {}
  /\ budget = [p \in Producers |-> Elements] /\ sent = [p \in Producers |-> 0]
  /\ target = [c \in Consumers |-> <<>>] /\ eof = {}

(* Mutant: a producer handle is issued without being counted.              *)
pipe_producer_new_uncounted(p) ==
  /\ pc[Main] = "idle" /\ pc[p] = "unborn"
  /\ begin_lock = NoThread
  /\ GoTo(p, "idle")
  /\ UNCHANGED <<shared, counts, locks, locals, client>>

pipe_producer_new(p) ==
  /\ pc[Main] = "idle" /\ pc[p] = "unborn"
  /\ begin_lock = NoThread
  /\ producer_refcount' = producer_refcount + 1
  /\ GoTo(p, "idle")
  /\ UNCHANGED <<shared, consumer_refcount, freed, new_producer_refcount, locks,
                 locals, client>>

pipe_consumer_new(c) ==
  /\ pc[Main] = "idle" /\ pc[c] = "unborn"
  /\ end_lock = NoThread
  /\ consumer_refcount' = consumer_refcount + 1
  /\ GoTo(c, "idle")
  /\ UNCHANGED <<shared, producer_refcount, freed, new_producer_refcount, locks,
                 locals, client>>

---------------------------------------------------------------------------
(* pipe_push                                                               *)

pipe_push(p, count) ==
  /\ pc[p] = "idle" /\ count <= budget[p]
  /\ budget' = [budget EXCEPT ![p] = @ - count]
  /\ want' = [want EXCEPT ![p] = count * ElemSize]
  /\ GoTo(p, "push_lock")
  /\ UNCHANGED <<shared, counts, locks, n, seen, eager, sent, target, eof>>

(* Mutant: wait_for_room does not ask whether consumers are left.          *)
PushFullUnchecked(p) ==
  /\ pc[p] = "push_lock" /\ end_lock = NoThread
  /\ bytes_in_use(Pipe) = max_cap
  /\ end_lock' = p
  /\ GoTo(p, "push_wait")
  /\ UNCHANGED <<shared, counts, begin_lock, locals, client>>

(* Mutant: the early return leaves end_lock locked.                        *)
PushToNobodyLocked(p) ==
  /\ pc[p] = "push_lock" /\ end_lock = NoThread
  /\ consumer_refcount = 0
  /\ end_lock' = p
  /\ GoTo(p, "idle") /\ Return(p)
  /\ UNCHANGED <<shared, counts, begin_lock, client>>

(* end_lock is taken and wait_for_room tests: sleep, give up, grow or copy *)
PushFull(p) ==
  /\ pc[p] = "push_lock" /\ end_lock = NoThread
  /\ bytes_in_use(Pipe) = max_cap /\ consumer_refcount > 0
  /\ end_lock' = p
  /\ GoTo(p, "push_wait")
  /\ UNCHANGED <<shared, counts, begin_lock, locals, client>>

PushToNobody(p) ==
  /\ pc[p] = "push_lock" /\ end_lock = NoThread
  /\ consumer_refcount = 0
  /\ GoTo(p, "idle") /\ Return(p)
  /\ UNCHANGED <<shared, counts, locks, client>>

(* Mutant: the sentinel counts as free room.                               *)
PushFitsOverSentinel(p) == bytes_in_use(Pipe) + want[p] <= capacity(Pipe) + ElemSize
PushFits(p) == bytes_in_use(Pipe) + want[p] <= capacity(Pipe)

PushBegins(p) ==
  /\ pc[p] = "push_lock" /\ end_lock = NoThread
  /\ bytes_in_use(Pipe) # max_cap /\ consumer_refcount > 0
  /\ end_lock' = p
  /\ seen' = [seen EXCEPT ![p] = begin]
  /\ GoTo(p, IF PushFits(p) THEN "push_copy" ELSE "push_grow")
  /\ UNCHANGED <<shared, counts, begin_lock, want, n, eager, client>>

(* cond_wait(just_popped, end_lock)                                        *)
PushSleeps(p) ==
  /\ pc[p] = "push_wait"
  /\ end_lock' = NoThread
  /\ GoTo(p, "push_asleep")
  /\ UNCHANGED <<shared, counts, begin_lock, locals, client>>

(* validate_size upgrades to both locks, looks again and may resize        *)
PushGrows(p) ==
  /\ pc[p] = "push_grow" /\ begin_lock = NoThread
  /\ IF PushFits(p) THEN UNCHANGED <<buffer, bufend, begin, end>>
     ELSE resize_buffer(GrowSize(bytes_in_use(Pipe) + want[p]), min_cap)
  /\ seen' = [seen EXCEPT ![p] = begin']
  /\ GoTo(p, "push_copy")
  /\ UNCHANGED <<min_cap, counts, locks, want, n, eager, client>>

(* process_push, the store to p->end and the unlock                        *)
PushCopies(p) ==
  LET s == PushView(p)
      k == Pushed(p)
      Lands(a) == {i \in 0 .. k - 1 : PushAddr(s, k, i) = a}
  IN
  /\ pc[p] = "push_copy"
  /\ buffer' = [a \in DOMAIN buffer |->
                  IF Lands(a) = {} THEN buffer[a]
                  ELSE <<p, sent[p] + CHOOSE i \in Lands(a) : TRUE>>]
  /\ end' = PushedEnd(s, k)
  /\ end_lock' = NoThread
  /\ sent' = [sent EXCEPT ![p] = @ + k]
  /\ want' = [want EXCEPT ![p] = @ - k]
  /\ n' = [n EXCEPT ![p] = k]
  /\ seen' = [seen EXCEPT ![p] = 0]
  /\ GoTo(p, "push_signal")
  /\ UNCHANGED <<bufend, begin, min_cap, counts, begin_lock, eager, budget, target, eof>>

(* After the unlock: signal for one element, broadcast for more, and start *)
(* over if max_cap cut the push short.                                     *)
PushWakes(p) ==
  IF n[p] = ElemSize THEN cond_signal(AwaitingElements)
  ELSE cond_broadcast(AwaitingElements)

PushSignals(p) ==
  /\ pc[p] = "push_signal" /\ want[p] > 0
  /\ \E woken \in PushWakes(p) : GoToWaking(p, "push_lock", woken, "pop_lock")
  /\ n' = [n EXCEPT ![p] = 0]
  /\ UNCHANGED <<shared, counts, locks, want, seen, eager, client>>

PushReturns(p) ==
  /\ pc[p] = "push_signal" /\ want[p] <= 0
  /\ \E woken \in PushWakes(p) : GoToWaking(p, "idle", woken, "pop_lock")
  /\ Return(p)
  /\ UNCHANGED <<shared, counts, locks, client>>

---------------------------------------------------------------------------
(* pipe_pop and pipe_pop_eager                                             *)

pipe_pop(c, count) ==
  /\ pc[c] = "idle" /\ c \notin eof
  /\ want' = [want EXCEPT ![c] = count * ElemSize]
  /\ GoTo(c, "pop_lock")
  /\ UNCHANGED <<shared, counts, locks, n, seen, eager, client>>

pipe_pop_eager(c, count) ==
  /\ pc[c] = "idle" /\ c \notin eof
  /\ want' = [want EXCEPT ![c] = count * ElemSize]
  /\ eager' = eager \cup {c}
  /\ GoTo(c, "pop_lock")
  /\ UNCHANGED <<shared, counts, locks, n, seen, client>>

(* begin_lock is taken and wait_for_elements tests: sleep, end or copy     *)
PopEmpty(c) ==
  /\ pc[c] = "pop_lock" /\ begin_lock = NoThread
  /\ bytes_in_use(Pipe) = 0 /\ producer_refcount > 0
  /\ begin_lock' = c
  /\ GoTo(c, "pop_wait")
  /\ UNCHANGED <<shared, counts, end_lock, locals, client>>

PopEnds(c) ==
  /\ pc[c] = "pop_lock" /\ begin_lock = NoThread
  /\ bytes_in_use(Pipe) = 0 /\ producer_refcount = 0
  /\ eof' = eof \cup {c}
  /\ GoTo(c, "idle") /\ Return(c)
  /\ UNCHANGED <<shared, counts, locks, budget, sent, target>>

PopBegins(c) ==
  /\ pc[c] = "pop_lock" /\ begin_lock = NoThread
  /\ bytes_in_use(Pipe) # 0
  /\ begin_lock' = c
  /\ seen' = [seen EXCEPT ![c] = end]
  /\ GoTo(c, "pop_copy")
  /\ UNCHANGED <<shared, counts, end_lock, want, n, eager, client>>

(* cond_wait(just_pushed, begin_lock)                                      *)
PopSleeps(c) ==
  /\ pc[c] = "pop_wait"
  /\ begin_lock' = NoThread
  /\ GoTo(c, "pop_asleep")
  /\ UNCHANGED <<shared, counts, end_lock, locals, client>>

(* pop_without_locking, the first test of trim_buffer and its unlock       *)
Sparse(s) == bytes_in_use(s) <= capacity(s) \div 4

PopCopies(c) ==
  LET s == PopView(c)
      k == Popped(c)
      left == [s EXCEPT !.begin = PoppedBegin(s, k)]
  IN
  /\ pc[c] = "pop_copy"
  /\ target' = [target EXCEPT ![c] =
                  @ \o [i \in 1 .. k |-> Cell(PopAddr(s, k, i - 1))]]
  /\ begin' = left.begin
  /\ begin_lock' = NoThread
  /\ want' = [want EXCEPT ![c] = @ - k]
  /\ n' = [n EXCEPT ![c] = k]
  /\ seen' = [seen EXCEPT ![c] = 0]
  /\ GoTo(c, IF Sparse(left) THEN "trim_end" ELSE "pop_signal")
  /\ UNCHANGED <<buffer, bufend, end, min_cap, counts, end_lock, eager, budget, sent, eof>>

(* trim_buffer takes both locks, end_lock first, looks again and may shrink *)
TrimLocksEnd(c) ==
  /\ pc[c] = "trim_end" /\ end_lock = NoThread
  /\ end_lock' = c
  /\ GoTo(c, "trim_begin")
  /\ UNCHANGED <<shared, counts, begin_lock, locals, client>>

(* Mutant: the pipe is trimmed under end_lock alone.                       *)
TrimShrinksUnlocked(c) ==
  /\ pc[c] = "trim_begin"
  /\ IF Sparse(Pipe) THEN resize_buffer(capacity(Pipe) \div 2, min_cap)
     ELSE UNCHANGED <<buffer, bufend, begin, end>>
  /\ end_lock' = NoThread
  /\ GoTo(c, "pop_signal")
  /\ UNCHANGED <<min_cap, counts, begin_lock, locals, client>>

(* Mutant: the early way out of trim_buffer keeps end_lock.                *)
TrimShrinksLocked(c) ==
  /\ pc[c] = "trim_begin" /\ begin_lock = NoThread
  /\ IF Sparse(Pipe) THEN resize_buffer(capacity(Pipe) \div 2, min_cap)
     ELSE UNCHANGED <<buffer, bufend, begin, end>>
  /\ GoTo(c, "pop_signal")
  /\ UNCHANGED <<min_cap, counts, locks, locals, client>>

TrimShrinks(c) ==
  /\ pc[c] = "trim_begin" /\ begin_lock = NoThread
  /\ IF Sparse(Pipe) THEN resize_buffer(capacity(Pipe) \div 2, min_cap)
     ELSE UNCHANGED <<buffer, bufend, begin, end>>
  /\ end_lock' = NoThread
  /\ GoTo(c, "pop_signal")
  /\ UNCHANGED <<min_cap, counts, begin_lock, locals, client>>

PopWakes(c) ==
  IF n[c] = ElemSize THEN cond_signal(AwaitingRoom) ELSE cond_broadcast(AwaitingRoom)

PopSignals(c) ==
  /\ pc[c] = "pop_signal" /\ c \notin eager /\ want[c] > 0
  /\ \E woken \in PopWakes(c) : GoToWaking(c, "pop_lock", woken, "push_lock")
  /\ n' = [n EXCEPT ![c] = 0]
  /\ UNCHANGED <<shared, counts, locks, want, seen, eager, client>>

PopReturns(c) ==
  /\ pc[c] = "pop_signal" /\ (c \in eager \/ want[c] <= 0)
  /\ \E woken \in PopWakes(c) : GoToWaking(c, "idle", woken, "push_lock")
  /\ Return(c)
  /\ UNCHANGED <<shared, counts, locks, client>>

---------------------------------------------------------------------------
(* pipe_reserve, by a thread whose handle keeps consumer_refcount above 0  *)

pipe_reserve(t, count) ==
  /\ pc[t] = "idle"
  /\ want' = [want EXCEPT ![t] = IF count = 0 THEN DefaultMincap ELSE count * ElemSize]
  /\ GoTo(t, "reserve_end")
  /\ UNCHANGED <<shared, counts, locks, n, seen, eager, client>>

ReserveLocksEnd(t) ==
  /\ pc[t] = "reserve_end" /\ end_lock = NoThread
  /\ end_lock' = t
  /\ GoTo(t, "reserve_begin")
  /\ UNCHANGED <<shared, counts, begin_lock, locals, client>>

ReserveSets(t) ==
  /\ pc[t] = "reserve_begin" /\ begin_lock = NoThread
  /\ IF want[t] <= bytes_in_use(Pipe)
     THEN UNCHANGED shared
     ELSE /\ min_cap' = MinOf(want[t], max_cap)
          /\ resize_buffer(want[t], MinOf(want[t], max_cap))
  /\ end_lock' = NoThread
  /\ GoTo(t, "idle") /\ Return(t)
  /\ UNCHANGED <<counts, begin_lock, client>>

---------------------------------------------------------------------------
(* pipe_producer_free, pipe_consumer_free, pipe_free and deallocate        *)

pipe_producer_free(p) ==
  /\ pc[p] = "idle" /\ begin_lock = NoThread
  /\ producer_refcount' = producer_refcount - 1
  /\ GoTo(p, IF producer_refcount' = 0 THEN "pf_check" ELSE "done")
  /\ UNCHANGED <<shared, consumer_refcount, freed, new_producer_refcount, locks,
                 locals, client>>

ProducerFreeChecks(p) ==
  /\ pc[p] = "pf_check" /\ end_lock = NoThread
  /\ GoTo(p, IF consumer_refcount > 0 THEN "wake_consumers" ELSE "deallocate")
  /\ UNCHANGED <<shared, counts, locks, locals, client>>

pipe_consumer_free(c) ==
  /\ pc[c] = "idle" /\ end_lock = NoThread
  /\ consumer_refcount' = consumer_refcount - 1
  /\ GoTo(c, IF consumer_refcount' = 0 THEN "cf_check" ELSE "done")
  /\ UNCHANGED <<shared, producer_refcount, freed, new_producer_refcount, locks,
                 locals, client>>

ConsumerFreeChecks(c) ==
  /\ pc[c] = "cf_check" /\ begin_lock = NoThread
  /\ GoTo(c, IF producer_refcount > 0 THEN "wake_producers" ELSE "deallocate")
  /\ UNCHANGED <<shared, counts, locks, locals, client>>

(* pipe_free gives up both counts, under one lock after the other, and     *)
(* decides on the two values it read.                                      *)
pipe_free ==
  /\ pc[Main] = "idle" /\ begin_lock = NoThread
  /\ producer_refcount' = producer_refcount - 1
  /\ new_producer_refcount' = producer_refcount'
  /\ GoTo(Main, "pipe_free")
  /\ UNCHANGED <<shared, consumer_refcount, freed, locks, locals, client>>

(* Mutant: pipe_free has no branch for the last producer handle.           *)
PipeFreeDecidesForRoom ==
  /\ pc[Main] = "pipe_free" /\ end_lock = NoThread
  /\ consumer_refcount' = consumer_refcount - 1
  /\ new_producer_refcount' = 0
  /\ buffer' = IF consumer_refcount' = 0 THEN NULL ELSE buffer
  /\ GoTo(Main, CASE consumer_refcount' # 0 -> "done"
                  [] consumer_refcount' = 0 /\ new_producer_refcount > 0 -> "wake_producers"
                  [] OTHER -> "deallocate")
  /\ UNCHANGED <<bufend, begin, end, min_cap, producer_refcount, freed, locks, locals, client>>

PipeFreeDecides ==
  /\ pc[Main] = "pipe_free" /\ end_lock = NoThread
  /\ consumer_refcount' = consumer_refcount - 1
  /\ new_producer_refcount' = 0
  /\ buffer' = IF consumer_refcount' = 0 THEN NULL ELSE buffer
  /\ GoTo(Main, CASE consumer_refcount' = 0 /\ new_producer_refcount > 0 -> "wake_producers"
                  [] consumer_refcount' = 0 /\ new_producer_refcount <= 0 -> "deallocate"
                  [] consumer_refcount' # 0 /\ new_producer_refcount = 0 -> "wake_consumers"
                  [] OTHER -> "done")
  /\ UNCHANGED <<bufend, begin, end, min_cap, producer_refcount, freed, locks, locals, client>>

(* Mutant: the last producer signals where it must broadcast.              *)
WakeOneConsumer(t) ==
  /\ pc[t] = "wake_consumers"
  /\ \E woken \in cond_signal(AwaitingElements) : GoToWaking(t, "done", woken, "pop_lock")
  /\ UNCHANGED <<shared, counts, locks, locals, client>>

WakeConsumers(t) ==
  /\ pc[t] = "wake_consumers"
  /\ GoToWaking(t, "done", AwaitingElements, "pop_lock")
  /\ UNCHANGED <<shared, counts, locks, locals, client>>

WakeProducers(t) ==
  /\ pc[t] = "wake_producers"
  /\ GoToWaking(t, "done", AwaitingRoom, "push_lock")
  /\ UNCHANGED <<shared, counts, locks, locals, client>>

deallocate(t) ==
  /\ pc[t] = "deallocate"
  /\ buffer' = NULL
  /\ freed' = freed + 1
  /\ GoTo(t, "done")
  /\ UNCHANGED <<bufend, begin, end, min_cap, producer_refcount, consumer_refcount,
                 new_producer_refcount, locks, locals, client>>

---------------------------------------------------------------------------
(* cond_wait may return though nobody signalled.                           *)
SpuriousWakeup(t) ==
  /\ Spurious
  /\ pc[t] \in {"push_asleep", "pop_asleep"}
  /\ GoTo(t, IF pc[t] = "push_asleep" THEN "push_lock" ELSE "pop_lock")
  /\ UNCHANGED <<shared, counts, locks, locals, client>>

(* The steps of a call that has begun.                                     *)
Pushing(p) ==
  \/ PushFull(p) \/ PushToNobody(p) \/ PushBegins(p) \/ PushSleeps(p)
  \/ PushGrows(p) \/ PushCopies(p) \/ PushSignals(p) \/ PushReturns(p)

Popping(c) ==
  \/ PopEmpty(c) \/ PopEnds(c) \/ PopBegins(c) \/ PopSleeps(c) \/ PopCopies(c)
  \/ TrimLocksEnd(c) \/ TrimShrinks(c) \/ PopSignals(c) \/ PopReturns(c)

Freeing(t) ==
  \/ WakeConsumers(t) \/ WakeProducers(t) \/ deallocate(t)

Producer(p) ==
  \/ \E count \in PushCounts : pipe_push(p, count)
  \/ Pushing(p)
  \/ pipe_producer_free(p) \/ ProducerFreeChecks(p)

Consumer(c) ==
  \/ \E count \in PopCounts : pipe_pop(c, count) \/ pipe_pop_eager(c, count)
  \/ Popping(c)
  \/ pipe_consumer_free(c) \/ ConsumerFreeChecks(c)

Owner ==
  \/ \E p \in Producers : pipe_producer_new(p)
  \/ \E c \in Consumers : pipe_consumer_new(c)
  \/ \E count \in ReserveCounts : pipe_reserve(Main, count)
  \/ ReserveLocksEnd(Main) \/ ReserveSets(Main)
  \/ pipe_free \/ PipeFreeDecides

(* Every handle that was issued has been freed: the program may stop.      *)
Terminated == \A t \in Threads : pc[t] \in {"unborn", "done"}

Next ==
  \/ \E p \in Producers : Producer(p)
  \/ \E c \in Consumers : Consumer(c)
  \/ Owner
  \/ \E t \in Threads : Freeing(t) \/ SpuriousWakeup(t)
  \/ Terminated /\ UNCHANGED vars

Spec == Init /\ [][Next]_vars
===========================================================================
