----------------------------- MODULE PipeProps -----------------------------
(***************************************************************************)
(* What must be true of the pipe of Pipe.tla: invariants, the abstract     *)
(* queue it implements, liveness, and the statements of pipe.h that the    *)
(* code does not keep.                                                     *)
(***************************************************************************)
EXTENDS Pipe

---------------------------------------------------------------------------
(* Safety                                                                  *)

HoldsEnd == {"push_wait", "push_grow", "push_copy", "trim_begin", "reserve_begin"}
HoldsBegin == {"pop_wait", "pop_copy"}

(***************************************************************************)
(* Each lock is owned exactly by the thread whose code is between its      *)
(* mutex_lock and mutex_unlock, through every early return, every return   *)
(* from cond_wait and the lock upgrade of trim_buffer: no two threads are  *)
(* in a critical section of the same lock, and none leaves with it.        *)
(***************************************************************************)
LockOwnership ==
  \A t \in Threads : /\ end_lock = t <=> pc[t] \in HoldsEnd
                     /\ begin_lock = t <=> pc[t] \in HoldsBegin

(* The element `begin` points at, which no push may touch.                 *)
Sentinel == {(begin + i) % bufend : i \in 0 .. ElemSize - 1}

WriteSafe(p) ==
  LET k == Pushed(p)
      written == {PushAddr(PushView(p), k, i) : i \in 0 .. k - 1}
  IN  /\ k > 0 /\ Cardinality(written) = k
      /\ written \subseteq DOMAIN buffer
      /\ written \cap (LiveAddrs(Pipe) \cup Sentinel) = {}

ReadSafe(c) ==
  LET k == Popped(c)
  IN  /\ k > 0 /\ k <= bytes_in_use(Pipe)
      /\ \A i \in 0 .. k - 1 : PopAddr(PopView(c), k, i) = LiveAddr(Pipe, i)

(***************************************************************************)
(* A pusher decides where to write on a `begin` it read before consumers   *)
(* moved it, a popper where to read on an `end` producers have moved.  The *)
(* bytes a pusher is about to write are distinct, inside the buffer, and   *)
(* none of them is the sentinel or a byte not yet popped; the bytes a      *)
(* popper is about to read are the oldest in the pipe, in order.           *)
(***************************************************************************)
BufferSafe ==
  /\ \A p \in Producers : pc[p] = "push_copy" => WriteSafe(p)
  /\ \A c \in Consumers : pc[c] = "pop_copy" => ReadSafe(c)

SnapshotKept(t) ==
  /\ pc[t] = "push_copy" /\ pc'[t] = "push_copy" => bufend' = bufend /\ end' = end
  /\ pc[t] = "pop_copy" /\ pc'[t] = "pop_copy" => bufend' = bufend /\ begin' = begin

(***************************************************************************)
(* pipe.c:282-289: what a pusher or popper has read stays usable though it *)
(* holds one lock only.  While a pusher has a snapshot nobody replaces the *)
(* buffer or moves `end`, while a popper has one nobody replaces it or     *)
(* moves `begin`: growing, trimming and reserving wait for both.           *)
(***************************************************************************)
SnapshotsStayValid == [][\A t \in Threads : SnapshotKept(t)]_vars

(* The amounts, in bytes, that one call of pipe_reserve may ask for.       *)
ReserveSizes ==
  {IF count = 0 THEN DefaultMincap ELSE count * ElemSize : count \in ReserveCounts}

(* Where check_invariants runs: pipe.c:527, 532, 739, 761, 1059 and 1066.  *)
Checking == {"push_grow", "pop_copy", "trim_begin", "reserve_begin"}

(***************************************************************************)
(* check_invariants (pipe.c:483-519), line by line.  Where it runs there   *)
(* is a buffer and a consumer handle (490-498).  The rest is in every      *)
(* state: the pointers stay inside the buffer and on element boundaries    *)
(* through every wrap, growth and shrinking, and equal pointers mean a     *)
(* full buffer and never an empty one (508-515).  Of the two bounds that   *)
(* follow this says what the code keeps, which is less: min_cap is below   *)
(* DEFAULT_MINCAP elements only if pipe_reserve was asked for less (517,   *)
(* whole in MinCapInBounds), and the buffer is within min_cap and max_cap  *)
(* except that one grown to the limit has an element more (518, whole in   *)
(* SizeInBounds).                                                          *)
(***************************************************************************)
CheckInvariants ==
  /\ \A t \in Threads : pc[t] \in Checking => buffer # NULL /\ consumer_refcount > 0
  /\ begin \in 0 .. bufend - 1 /\ end \in 0 .. bufend - 1
  /\ \A x \in {begin, end, bufend} : x % ElemSize = 0
  /\ bytes_in_use(Pipe) \in 0 .. capacity(Pipe)
  /\ begin = end => bytes_in_use(Pipe) = capacity(Pipe)
  /\ buffer # NULL => DOMAIN buffer = 0 .. bufend - 1
  /\ min_cap <= max_cap
  /\ min_cap < InitialCap => min_cap \in ReserveSizes
  /\ min_cap <= capacity(Pipe) + ElemSize
  /\ capacity(Pipe) + ElemSize <= max_cap \/ capacity(Pipe) = max_cap

(***************************************************************************)
(* The holders of handles: a handle is gone once its free has decremented  *)
(* the count.                                                              *)
(***************************************************************************)
Gone == {"unborn", "done"} \cup FreePcs
ProducerHandles == {t \in Producers \cup {Main} : pc[t] \notin Gone}
ConsumerHandles ==
  {c \in Consumers : pc[c] \notin Gone}
    \cup {t \in {Main} : pc[t] \notin Gone \ {"pipe_free"}}

(***************************************************************************)
(* The two counts are the handles in use, at every step of every free: on  *)
(* this the decision who wakes the sleepers and who deallocates rests.     *)
(***************************************************************************)
RefCounts ==
  /\ producer_refcount = Cardinality(ProducerHandles)
  /\ consumer_refcount = Cardinality(ConsumerHandles)

WillWakeConsumers(t) ==
  pc[t] \in {"pf_check", "wake_consumers"} \/ (pc[t] = "pipe_free" /\ new_producer_refcount = 0)

(***************************************************************************)
(* The thread that frees the last producer handle decrements the count     *)
(* under begin_lock and broadcasts just_pushed later, without it.  Unless  *)
(* that broadcast is still to come, no consumer sleeps in a pipe without   *)
(* producers: nobody would ever wake it.                                   *)
(***************************************************************************)
CloseWakesConsumers ==
  producer_refcount = 0 /\ (\A t \in Threads : ~WillWakeConsumers(t))
    => AwaitingElements = {}

(* The same for producers asleep in a full pipe without consumers.         *)
CloseWakesProducers ==
  consumer_refcount = 0 /\ (\A t \in Threads : pc[t] \notin {"cf_check", "wake_producers"})
    => AwaitingRoom = {}

(***************************************************************************)
(* pipe.h:204-205: a pop that comes up short means that no element will    *)
(* come.  Once one consumer was told so the pipe is empty and no producer  *)
(* is left, whatever the other consumers and the frees are doing.          *)
(***************************************************************************)
EofIsFinal == eof # {} => Contents = <<>> /\ producer_refcount = 0

(***************************************************************************)
(* The pipe implements the queue of PipeFifo: its bytes in address order   *)
(* from the sentinel on, whatever the buffer's size and wrap.              *)
(***************************************************************************)
Fifo == INSTANCE PipeFifo WITH
          queue <- Contents, writers <- ProducerHandles, readers <- ConsumerHandles,
          Cap <- max_cap

(* Every step of the pipe is a step of that queue or leaves it alone: pushed *)
(* elements stay whole, in order and unduplicated (pipe.h:130-132), pops     *)
(* split them between consumers, 0 means the end (pipe.h:197-205).           *)
ImplementsFifo == Fifo!Spec

---------------------------------------------------------------------------
(* What pipe.h says and the code does not keep.                            *)

OnItsWay(t) == pc[t] \notin {"unborn", "done", "idle", "pop_asleep", "push_asleep"}

(***************************************************************************)
(* pipe.h:215-219: pipe_pop_eager blocks until there is at least one       *)
(* element in the pipe.  A consumer does not stay asleep beside elements   *)
(* that no thread is on its way to wake it for.                            *)
(***************************************************************************)
SleepersHaveNothingToPop ==
  (\E c \in Consumers : pc[c] = "pop_asleep") /\ Contents # <<>>
    => \E t \in Threads : OnItsWay(t)

(***************************************************************************)
(* README:64 and 68: on overflow a push blocks until there is room, on an  *)
(* empty queue a pop blocks until elements arrive.  Never are a producer   *)
(* asleep for room and a consumer asleep for elements with nobody on the   *)
(* way to wake either.                                                     *)
(***************************************************************************)
SomebodyAwake ==
  AwaitingRoom # {} /\ AwaitingElements # {} => \E t \in Threads : OnItsWay(t)

(***************************************************************************)
(* pipe.h:134: the underlying pipe exists until all the handles have been  *)
(* freed; no thread is still inside a call on a pipe that deallocate has   *)
(* given back.                                                             *)
(***************************************************************************)
PipeOutlivesItsUsers == freed > 0 => Terminated

(***************************************************************************)
(* pipe.c:676-678 and 703-705: the thread that frees a count's last handle *)
(* and finds the other count at 0 deallocates "since we're the last handle *)
(* altogether".  There is one such thread: nobody decides to deallocate a  *)
(* pipe that another thread has decided to deallocate or deallocated.      *)
(***************************************************************************)
DeallocatedOnce == Cardinality({t \in Threads : pc[t] = "deallocate"}) + freed <= 1

(***************************************************************************)
(* pipe.c:517, the assertion that min_cap is at least DEFAULT_MINCAP       *)
(* elements, at unlock_pipe, the next place that evaluates it after        *)
(* pipe_reserve has set min_cap.                                           *)
(***************************************************************************)
MinCapInBounds == InitialCap <= min_cap /\ min_cap <= max_cap

(***************************************************************************)
(* pipe.c:518, the assertion that the whole buffer, sentinel included, is  *)
(* not larger than max_cap.  resize_buffer evaluates it after every        *)
(* resize (line 761).                                                      *)
(***************************************************************************)
SizeInBounds == min_cap <= capacity(Pipe) + ElemSize /\ capacity(Pipe) + ElemSize <= max_cap

BytesOf(seq) == {seq[i] : i \in 1 .. Len(seq)}

(***************************************************************************)
(* pipe.h:177: pipe_push copies `count' elements into the pipe.  While     *)
(* there are consumers, a byte that was pushed is in the pipe or popped.   *)
(***************************************************************************)
NothingLost ==
  consumer_refcount > 0 =>
    \A p \in Producers : \A i \in 0 .. sent[p] - 1 :
      \/ <<p, i>> \in BytesOf(Contents)
      \/ \E c \in Consumers : <<p, i>> \in BytesOf(target[c])

---------------------------------------------------------------------------
(* Liveness: the scheduler runs every thread, calls that began go on, and  *)
(* producers and the owner free their handles in the end.  A call itself   *)
(* need never be made.                                                     *)

Fairness ==
  /\ \A p \in Producers :
       /\ WF_vars(Pushing(p)) /\ WF_vars(ProducerFreeChecks(p))
       /\ WF_vars(pipe_producer_free(p))
  /\ \A c \in Consumers : WF_vars(Popping(c)) /\ WF_vars(ConsumerFreeChecks(c))
  /\ WF_vars(ReserveLocksEnd(Main)) /\ WF_vars(ReserveSets(Main))
  /\ WF_vars(pipe_free) /\ WF_vars(PipeFreeDecides)
  /\ \A t \in Threads : WF_vars(Freeing(t))

FairSpec == Spec /\ Fairness

(* In a pipe without a limit every pipe_push returns.                      *)
PushesReturn == \A p \in Producers : pc[p] = "push_lock" ~> pc[p] = "idle"

(* Every pop returns once the producers are gone: the broadcast of the last *)
(* free makes up for the signals a consumer missed.                         *)
PopsReturn == \A c \in Consumers : pc[c] = "pop_lock" ~> pc[c] = "idle"
===========================================================================
