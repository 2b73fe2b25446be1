-------------------------- MODULE PipeQueueProofs --------------------------
(***************************************************************************)
(* The circular buffer under all interleavings: its pointers, its size and *)
(* what the pushers and poppers have read of it, for any threads and for   *)
(* the sizes that PipeSizes.tla asks for.                                  *)
(***************************************************************************)
EXTENDS PipeCloseProofs, PipeSizes

(* Room for a power of two of elements, unless it is the buffer of         *)
(* pipe_new; never less than that one, never more than max_cap.            *)
Shape ==
  /\ \/ bufend = InitialCap
     \/ \E p \in PowersOfTwo : bufend = p * ElemSize + ElemSize
  /\ bufend >= InitialCap /\ bufend - ElemSize <= max_cap
  /\ InitialCap <= 2 * min_cap /\ min_cap <= InitialCap
  /\ min_cap = InitialCap \/ min_cap \in ReserveSizes

(* What is left of a call, and of what its producer may push.              *)
Wants ==
  /\ \A t \in Producers \cup Consumers : Aligned(want[t])
  /\ \A p \in Producers :
       /\ pc[p] \in PushPcs \ {"push_signal"} => want[p] > 0
       /\ sent[p] >= 0 /\ sent[p] + want[p] + budget[p] * ElemSize <= Elements * ElemSize
  /\ \A c \in Consumers : pc[c] \in {"pop_lock", "pop_wait", "pop_asleep", "pop_copy"} =>
       want[c] > 0
  /\ pc[Main] \in ReservePcs => want[Main] \in ReserveSizes

(* What a pusher has read of `begin` is older than what `begin` is now:    *)
(* the pipe looks fuller to it than it is.                                 *)
PushersSee ==
  \A p \in Producers :
    /\ pc[p] \in {"push_grow", "push_copy"} =>
         /\ Ring(bufend, seen[p], end) /\ consumer_refcount > 0
         /\ Used(bufend, begin, end) <= Used(bufend, seen[p], end)
         /\ Used(bufend, seen[p], end) < max_cap
    /\ pc[p] = "push_copy" =>
         \/ Used(bufend, seen[p], end) + want[p] <= bufend - ElemSize
         \/ bufend - ElemSize = max_cap

(* What a popper has read of `end`: the pipe looks emptier.                *)
PoppersSee ==
  \A c \in Consumers : pc[c] = "pop_copy" =>
    /\ Ring(bufend, begin, seen[c])
    /\ 0 < Used(bufend, begin, seen[c])
    /\ Used(bufend, begin, seen[c]) <= Used(bufend, begin, end)

(* The buffer is given back only when no consumer handle is left.          *)
Memory ==
  /\ buffer = NULL => consumer_refcount = 0
  /\ \A t \in Threads : pc[t] \in {"cf_check", "deallocate"} => consumer_refcount = 0

(* No more bytes are in the pipe than were pushed.                         *)
SentBytes == UNION {{p} \X (0 .. sent[p] - 1) : p \in Producers}
FewEnough == Used(bufend, begin, end) <= Cardinality(SentBytes)

QueueInv ==
  /\ Ring(bufend, begin, end) /\ Shape /\ Wants /\ PushersSee /\ PoppersSee /\ Memory
  /\ FewEnough

(* Everything known of a reachable state.                                  *)
PipeInv == CloseInv /\ QueueInv

---------------------------------------------------------------------------
(* The snapshots in terms of the ring.                                     *)
LEMMA Views ==
  /\ Pipe = View(bufend, begin, end)
  /\ \A t : PushView(t) = View(bufend, seen[t], end)
  /\ \A t : PopView(t) = View(bufend, begin, seen[t])
BY DEF Pipe, PushView, PopView, View

LEMMA Usages ==
  /\ bytes_in_use(Pipe) = Used(bufend, begin, end)
  /\ \A t : bytes_in_use(PushView(t)) = Used(bufend, seen[t], end)
  /\ \A t : bytes_in_use(PopView(t)) = Used(bufend, begin, seen[t])
  /\ capacity(Pipe) = bufend - ElemSize
<1>1. capacity(View(bufend, begin, end)) = bufend - ElemSize
  BY DEF capacity, View
<1>. QED  BY Views, <1>1 DEF Used

(* What a pusher about to copy will write: whole elements, not more than   *)
(* it wants, as many as there is room for whatever has been popped since.  *)
LEMMA PushAmount ==
  ASSUME PipeInv, NEW p \in Producers, pc[p] = "push_copy"
  PROVE  /\ Pushed(p) \in Int /\ 0 < Pushed(p) /\ Aligned(Pushed(p)) /\ Pushed(p) <= want[p]
         /\ Used(bufend, seen[p], end) + Pushed(p) <= bufend - ElemSize
         /\ Used(bufend, begin, end) + Pushed(p) <= bufend - ElemSize
<1>. DEFINE u == Used(bufend, seen[p], end)
<1>1. /\ u \in Int /\ Aligned(u) /\ Used(bufend, begin, end) \in Int
      /\ bufend \in Int /\ Aligned(bufend) /\ want[p] \in Int /\ Aligned(want[p])
      /\ max_cap \in Int /\ ElemSize \in Int
  <2>1. Ring(bufend, begin, end) /\ Ring(bufend, seen[p], end)
    BY DEF PipeInv, QueueInv, PushersSee
  <2>2. want[p] \in Int /\ Aligned(want[p])
    BY DEF PipeInv, CloseInv, TypeOK, Threads, QueueInv, Wants
  <2>3. bufend \in Int /\ Aligned(bufend)
    BY <2>1 DEF Ring
  <2>4. u \in Int /\ Aligned(u) /\ Used(bufend, begin, end) \in Int
    BY <2>1, UsedRange
  <2>. QED  BY <2>2, <2>3, <2>4, PipeNewType, BufferAssumption
<1>2. /\ want[p] > 0 /\ u < max_cap /\ Used(bufend, begin, end) <= u
      /\ (u + want[p] <= bufend - ElemSize \/ bufend - ElemSize = max_cap)
      /\ bufend - ElemSize <= max_cap
  BY DEF PipeInv, QueueInv, Wants, PushersSee, PushPcs, Shape
<1>3. Pushed(p) = MinOf(want[p], max_cap - u)
  BY Usages DEF Pushed
<1>4. bufend - ElemSize = max_cap => Aligned(max_cap - u)
  BY <1>1, AlignedSum, AlignedZero
<1>. HIDE DEF u
<1>5. Aligned(Pushed(p))
  <2>1. CASE bufend - ElemSize = max_cap
    BY <2>1, <1>1, <1>3, <1>4 DEF MinOf
  <2>2. CASE bufend - ElemSize # max_cap
    BY <2>2, <1>1, <1>2, <1>3 DEF MinOf
  <2>. QED  BY <2>1, <2>2
<1>6. /\ Pushed(p) \in Int /\ 0 < Pushed(p) /\ Pushed(p) <= want[p]
      /\ u + Pushed(p) <= bufend - ElemSize
  BY <1>1, <1>2, <1>3 DEF MinOf
<1>. QED  BY <1>1, <1>2, <1>5, <1>6 DEF u

(* What a popper about to copy will read: whole elements, not more than it *)
(* wants, no more than it has seen.                                        *)
LEMMA PopAmount ==
  ASSUME PipeInv, NEW c \in Consumers, pc[c] = "pop_copy"
  PROVE  /\ Popped(c) \in Int /\ 0 < Popped(c) /\ Aligned(Popped(c)) /\ Popped(c) <= want[c]
         /\ Popped(c) <= Used(bufend, begin, seen[c])
         /\ Popped(c) <= Used(bufend, begin, end)
<1>. DEFINE u == Used(bufend, begin, seen[c])
<1>1. /\ u \in Int /\ Aligned(u) /\ Used(bufend, begin, end) \in Int
      /\ want[c] \in Int /\ Aligned(want[c])
  <2>1. Ring(bufend, begin, end) /\ Ring(bufend, begin, seen[c])
    BY DEF PipeInv, QueueInv, PoppersSee
  <2>2. want[c] \in Int /\ Aligned(want[c])
    BY DEF PipeInv, CloseInv, TypeOK, Threads, QueueInv, Wants
  <2>. QED  BY <2>1, <2>2, UsedRange
<1>2. want[c] > 0 /\ 0 < u /\ u <= Used(bufend, begin, end)
  BY DEF PipeInv, QueueInv, Wants, PoppersSee
<1>3. Popped(c) = MinOf(want[c], u)
  BY Usages DEF Popped
<1>. HIDE DEF u
<1>. QED  BY <1>1, <1>2, <1>3 DEF MinOf, u

---------------------------------------------------------------------------
(* A run of k consecutive positions.                                       *)
LEMMA RunOfBytes ==
  ASSUME NEW a \in Int, NEW k \in Int, 0 <= k
  PROVE  IsFiniteSet(a .. a + k - 1) /\ Cardinality(a .. a + k - 1) = k
<1>1. PICK b \in Int : b = a + k - 1
  OBVIOUS
<1>2. IsFiniteSet(a .. b) /\ Cardinality(a .. b) = IF a > b THEN 0 ELSE b - a + 1
  BY FS_Interval
<1>. QED  BY <1>1, <1>2

(* The bytes pushed so far, with those a producer still wants to push in   *)
(* its call, are among all the bytes the producers may ever push.          *)
NextSent(p, k) == {p} \X (sent[p] .. sent[p] + k - 1)

LEMMA MoreSent ==
  ASSUME PipeInv, NEW p \in Producers, NEW k \in Int, 0 <= k, k <= want[p]
  PROVE  /\ IsFiniteSet(SentBytes \cup NextSent(p, k))
         /\ Cardinality(SentBytes \cup NextSent(p, k)) = Cardinality(SentBytes) + k
         /\ Cardinality(SentBytes \cup NextSent(p, k)) <= TotalBytes
         /\ Cardinality(SentBytes) \in Nat
<1>. DEFINE more == {p} \X (sent[p] .. sent[p] + k - 1)
            all  == Producers \X (0 .. Elements * ElemSize - 1)
<1>1. \A q \in Producers :
        /\ sent[q] \in Int /\ 0 <= sent[q] /\ want[q] \in Nat /\ budget[q] * ElemSize \in Nat
        /\ sent[q] + want[q] + budget[q] * ElemSize <= Elements * ElemSize
  <2>1. ASSUME NEW q \in Producers PROVE budget[q] * ElemSize \in Nat
    <3>1. budget[q] \in Nat
      BY DEF PipeInv, CloseInv, TypeOK
    <3>. QED  BY <3>1, BufferAssumption
  <2>. QED  BY <2>1 DEF PipeInv, CloseInv, TypeOK, Threads, QueueInv, Wants
<1>2. Elements * ElemSize \in Nat
  BY BufferAssumption, PipeAssumption
<1>3. IsFiniteSet(all) /\ Cardinality(all) = TotalBytes
  <2>1. IsFiniteSet(0 .. Elements * ElemSize - 1)
        /\ Cardinality(0 .. Elements * ElemSize - 1) = Elements * ElemSize
    <3>. DEFINE b == Elements * ElemSize
    <3>1. b \in Nat
      BY <1>2
    <3>. HIDE DEF b
    <3>2. IsFiniteSet(0 .. b - 1) /\ Cardinality(0 .. b - 1) = b
      BY <3>1, FS_Interval
    <3>. QED  BY <3>2 DEF b
  <2>. QED  BY <2>1, PipeAssumption, FS_Product DEF TotalBytes
<1>4. SentBytes \in SUBSET all
  <2>. SUFFICES ASSUME NEW q \in Producers, NEW i \in 0 .. sent[q] - 1
                PROVE  i \in 0 .. Elements * ElemSize - 1
    BY DEF SentBytes
  <2>. QED  BY <1>1, <1>2
<1>5. more \in SUBSET all
  <2>. SUFFICES ASSUME NEW i \in sent[p] .. sent[p] + k - 1
                PROVE  i \in 0 .. Elements * ElemSize - 1
    OBVIOUS
  <2>. QED  BY <1>1, <1>2
<1>6. IsFiniteSet(more) /\ Cardinality(more) = k
  <2>. DEFINE positions == sent[p] .. sent[p] + k - 1
  <2>1. sent[p] \in Int
    BY <1>1
  <2>2. IsFiniteSet(positions) /\ Cardinality(positions) = k
    BY <2>1, RunOfBytes
  <2>3. IsFiniteSet({p}) /\ Cardinality({p}) = 1
    BY FS_Singleton
  <2>. HIDE DEF positions
  <2>4. IsFiniteSet({p} \X positions) /\ Cardinality({p} \X positions) = 1 * k
    BY <2>2, <2>3, FS_Product
  <2>. QED  BY <2>4 DEF positions
<1>7. SentBytes \cap more = {}
  <2>1. SUFFICES ASSUME NEW x \in SentBytes, x \in more PROVE FALSE
    OBVIOUS
  <2>2. PICK q \in Producers : x \in {q} \X (0 .. sent[q] - 1)
    BY DEF SentBytes
  <2>3. x[1] = q /\ x[2] \in 0 .. sent[q] - 1
    BY <2>2
  <2>4. x[1] = p /\ x[2] \in sent[p] .. sent[p] + k - 1
    BY <2>1
  <2>. QED  BY <2>3, <2>4, <1>1
<1>8. IsFiniteSet(SentBytes) /\ Cardinality(SentBytes) \in Nat
  BY <1>3, <1>4, FS_Subset, FS_CardinalityType
<1>9. IsFiniteSet(SentBytes \cup more)
      /\ Cardinality(SentBytes \cup more) = Cardinality(SentBytes) + k
  <2>1. Cardinality(SentBytes \cap more) = 0
    BY <1>7, FS_EmptySet
  <2>. HIDE DEF more
  <2>2. Cardinality(SentBytes \cup more)
          = Cardinality(SentBytes) + Cardinality(more) - Cardinality(SentBytes \cap more)
        /\ IsFiniteSet(SentBytes \cup more)
    BY <1>6, <1>8, FS_Union
  <2>. QED  BY <1>6, <1>8, <2>1, <2>2
<1>10. Cardinality(SentBytes \cup more) <= TotalBytes
  <2>1. (SentBytes \cup more) \in SUBSET all
    BY <1>4, <1>5
  <2>. HIDE DEF all, more
  <2>. QED  BY <1>3, <2>1, FS_Subset
<1>. QED  BY <1>8, <1>9, <1>10 DEF NextSent

(* The bytes pushed so far are finitely many.                              *)
LEMMA SentCounted ==
  ASSUME PipeInv
  PROVE  Cardinality(SentBytes) \in Nat
<1>1. CASE Producers = {}
  BY <1>1, FS_EmptySet DEF SentBytes
<1>2. ASSUME NEW p \in Producers PROVE Cardinality(SentBytes) \in Nat
  <2>1. want[p] \in Nat
    BY DEF PipeInv, CloseInv, TypeOK, Threads
  <2>2. 0 \in Int /\ 0 <= 0 /\ 0 <= want[p]
    BY <2>1
  <2>. QED  BY <2>2, MoreSent, Zenon
<1>. QED  BY <1>1, <1>2

(* There is room in a size_t for what a push needs.                        *)
LEMMA NeededBounded ==
  ASSUME PipeInv, NEW p \in Producers
  PROVE  Used(bufend, begin, end) + want[p] <= TotalBytes
<1>1. want[p] \in Int /\ 0 <= want[p] /\ want[p] <= want[p]
  BY DEF PipeInv, CloseInv, TypeOK, Threads
<1>2. Used(bufend, begin, end) \in Int
  BY UsedRange DEF PipeInv, QueueInv
<1>3. Used(bufend, begin, end) <= Cardinality(SentBytes)
  BY DEF PipeInv, QueueInv, FewEnough
<1>4. Cardinality(SentBytes) + want[p] <= TotalBytes /\ Cardinality(SentBytes) \in Int
  <2>1. /\ Cardinality(SentBytes \cup NextSent(p, want[p])) = Cardinality(SentBytes) + want[p]
        /\ Cardinality(SentBytes \cup NextSent(p, want[p])) <= TotalBytes
        /\ Cardinality(SentBytes) \in Nat
    BY <1>1, MoreSent, Zenon
  <2>. QED  BY <2>1
<1>5. TotalBytes \in Int
  <2>1. Cardinality(Producers) \in Nat /\ Elements * ElemSize \in Nat
    BY PipeAssumption, BufferAssumption, FS_CardinalityType
  <2>. QED  BY <2>1 DEF TotalBytes
<1>. QED  BY <1>1, <1>2, <1>3, <1>4, <1>5

---------------------------------------------------------------------------
(* Resizing.                                                               *)

(* A resize puts the sentinel and the elements at the front of the new     *)
(* buffer.                                                                 *)
LEMMA ResizeRing ==
  ASSUME PipeInv, NEW size, NEW mincap, resize_buffer(size, mincap), Resizes(size, mincap),
         ResizeTo(size) \in Int, Aligned(ResizeTo(size)),
         Used(bufend, begin, end) < ResizeTo(size), ResizeTo(size) + ElemSize <= SizeMax
  PROVE  /\ Ring(bufend', begin', end')
         /\ Used(bufend', begin', end') = Used(bufend, begin, end)
         /\ bufend' = ResizeTo(size) + ElemSize /\ begin' = 0
         /\ end' = Used(bufend, begin, end) + ElemSize
<1>. DEFINE u == Used(bufend, begin, end)
<1>1. u \in Int /\ Aligned(u) /\ 0 <= u /\ ElemSize \in Int /\ ElemSize > 0
  BY UsedRange, BufferAssumption DEF PipeInv, QueueInv
<1>2. bufend' = ResizeTo(size) + ElemSize /\ begin' = 0 /\ end' = u + ElemSize
  BY Usages DEF resize_buffer
<1>3. Aligned(u + ElemSize) /\ Aligned(ResizeTo(size) + ElemSize) /\ Aligned(0)
  BY <1>1, AlignedSum, AlignedZero
<1>. HIDE DEF u
<1>4. Used(ResizeTo(size) + ElemSize, 0, u + ElemSize) = u
  BY <1>1 DEF Used, View, bytes_in_use, wraps_around
<1>5. Ring(ResizeTo(size) + ElemSize, 0, u + ElemSize)
  BY <1>1, <1>3 DEF Ring, u
<1>. QED  BY <1>2, <1>4, <1>5 DEF u

(* A limit is a power of two of whole elements above the initial buffer.   *)
LEMMA MaxCapElements ==
  ASSUME Limit # 0
  PROVE  /\ \E r \in PowersOfTwo : max_cap = r * ElemSize
         /\ InitialCap + ElemSize <= max_cap /\ max_cap + ElemSize <= SizeMax
<1>1. /\ Limit >= DefaultMincap /\ ElemSize \in PowersOfTwo /\ max_cap \in PowersOfTwo
      /\ max_cap + ElemSize <= SizeMax
  BY SizesAssumption
<1>2. ElemSize <= max_cap
  BY PipeNewType, BufferAssumption
<1>3. \E r \in PowersOfTwo : max_cap = r * ElemSize
  BY <1>1, <1>2, PowerDivides
<1>4. (Limit + 1) * ElemSize \in Nat /\ (Limit + 1) * ElemSize >= InitialCap + ElemSize
  <2>1. (Limit + 1) * ElemSize = Limit * ElemSize + ElemSize
    BY BufferAssumption
  <2>2. Limit * ElemSize >= DefaultMincap * ElemSize
    BY <1>1, BufferAssumption
  <2>3. Limit * ElemSize \in Nat /\ DefaultMincap * ElemSize \in Nat
    BY BufferAssumption
  <2>. QED  BY <2>1, <2>2, <2>3, BufferAssumption DEF InitialCap
<1>5. max_cap >= MaxOf((Limit + 1) * ElemSize, InitialCap)
      /\ MaxOf((Limit + 1) * ElemSize, InitialCap) >= (Limit + 1) * ElemSize
      /\ MaxOf((Limit + 1) * ElemSize, InitialCap) \in Nat
  BY <1>4, PipeNewType, NextPow2Type DEF max_cap, MaxOf
<1>. QED  BY <1>1, <1>3, <1>4, <1>5, PipeNewType, BufferAssumption

(* validate_size allocates when elements do not fit, a power of two of     *)
(* elements, enough for the call or all that the limit allows.             *)
LEMMA GrowTo ==
  ASSUME PipeInv, NEW p \in Producers, pc[p] = "push_grow", ~ PushFits(p)
  PROVE  LET size == GrowSize(bytes_in_use(Pipe) + want[p])
             used == Used(bufend, begin, end)
         IN  /\ Resizes(size, min_cap)
             /\ \E q \in PowersOfTwo : ResizeTo(size) = q * ElemSize
             /\ ResizeTo(size) \in Int
             /\ InitialCap <= ResizeTo(size) /\ ResizeTo(size) <= max_cap
             /\ ResizeTo(size) + ElemSize <= SizeMax
             /\ used < ResizeTo(size)
             /\ used + want[p] <= ResizeTo(size) \/ ResizeTo(size) = max_cap
<1>. DEFINE used == Used(bufend, begin, end)
            needed == used + want[p]
            size == GrowSize(needed)
<1>1. /\ used \in Int /\ Aligned(used) /\ 0 <= used
      /\ want[p] \in Int /\ Aligned(want[p]) /\ 0 < want[p]
      /\ bufend \in Int /\ Aligned(bufend) /\ min_cap \in Int
      /\ InitialCap \in Int /\ max_cap \in Int /\ ElemSize \in Int /\ 0 < ElemSize
  <2>1. Ring(bufend, begin, end)
    BY DEF PipeInv, QueueInv
  <2>2. want[p] \in Int /\ Aligned(want[p]) /\ 0 < want[p]
    BY DEF PipeInv, CloseInv, TypeOK, Threads, QueueInv, Wants, PushPcs
  <2>3. bufend \in Int /\ Aligned(bufend) /\ min_cap \in Int
    BY <2>1 DEF Ring, PipeInv, CloseInv, TypeOK
  <2>4. used \in Int /\ Aligned(used) /\ 0 <= used
    BY <2>1, UsedRange
  <2>. QED  BY <2>2, <2>3, <2>4, PipeNewType, BufferAssumption
<1>2. /\ InitialCap <= bufend /\ bufend - ElemSize <= max_cap
      /\ min_cap <= InitialCap /\ used < max_cap
  <2>1. /\ used <= Used(bufend, seen[p], end) /\ Used(bufend, seen[p], end) < max_cap
        /\ Ring(bufend, seen[p], end)
    BY DEF PipeInv, QueueInv, PushersSee
  <2>2. Used(bufend, seen[p], end) \in Int
    BY <2>1, UsedRange
  <2>3. used < max_cap
    BY <1>1, <2>1, <2>2
  <2>. QED  BY <2>3 DEF PipeInv, QueueInv, Shape
<1>3. bytes_in_use(Pipe) + want[p] = needed /\ bufend - ElemSize < needed
  <2>. HIDE DEF used
  <2>1. bytes_in_use(Pipe) = used /\ capacity(Pipe) = bufend - ElemSize
    BY Usages DEF used
  <2>. QED  BY <1>1, <2>1 DEF PushFits
<1>. HIDE DEF used
<1>4. bufend <= needed /\ Aligned(needed) /\ needed \in Int /\ 0 < needed
  <2>1. Aligned(needed) /\ needed \in Int
    <3>1. Aligned(used + want[p])
      BY <1>1, AlignedSum
    <3>. QED  BY <1>1, <3>1
  <2>2. Aligned(bufend - ElemSize) /\ bufend - ElemSize \in Int
    BY <1>1, AlignedSum, AlignedZero
  <2>. HIDE DEF needed
  <2>3. bufend - ElemSize + ElemSize <= needed
    BY <1>3, <2>1, <2>2, AlignedGap
  <2>. QED  BY <1>1, <2>1, <2>3 DEF needed
<1>5. PICK m \in Int : needed = m * ElemSize
  BY <1>4 DEF Aligned
<1>6. m \in Nat /\ needed \div ElemSize = m
  <2>1. m >= 0
    <3>1. SUFFICES ASSUME m < 0 PROVE FALSE
      OBVIOUS
    <3>2. m * ElemSize <= 0
      BY <3>1, <1>1
    <3>. QED  BY <3>2, <1>4, <1>5
  <2>2. (m * ElemSize) \div ElemSize = m
    BY <1>1
  <2>. QED  BY <2>1, <2>2, <1>5
<1>. DEFINE q == next_pow2(m + 1)
<1>7. size = q * ElemSize /\ q \in Nat /\ q >= m + 1
  BY <1>6, NextPow2Type DEF GrowSize
<1>. HIDE DEF needed, q, size
<1>8. needed + ElemSize <= size /\ size \in Int
  <2>1. (m + 1) * ElemSize <= q * ElemSize /\ (m + 1) * ElemSize = m * ElemSize + ElemSize
        /\ q * ElemSize \in Int /\ m * ElemSize \in Int
    BY <1>1, <1>6, <1>7
  <2>. QED  BY <2>1, <1>5, <1>7
<1>9. CASE Limit = 0
  <2>1. needed \in 1 .. TotalBytes
    <3>1. needed <= TotalBytes
      BY NeededBounded DEF needed, used
    <3>2. TotalBytes \in Int
      <4>1. Cardinality(Producers) \in Nat /\ Elements * ElemSize \in Nat
        BY PipeAssumption, BufferAssumption, FS_CardinalityType
      <4>. QED  BY <4>1 DEF TotalBytes
    <3>. QED  BY <1>4, <3>1, <3>2
  <2>2. q \in PowersOfTwo /\ size + ElemSize <= SizeMax
    BY <1>9, <2>1, <1>6, SizesAssumption DEF q, size
  <2>3. max_cap = SizeMax
    BY <1>9 DEF max_cap
  <2>4. ResizeTo(size) = size
    BY <2>2, <2>3, <1>1, <1>8 DEF ResizeTo, MinOf
  <2>5. needed = used + want[p]
    BY DEF needed
  <2>6. /\ Resizes(size, min_cap) /\ InitialCap <= size /\ size <= max_cap
        /\ used < size /\ used + want[p] <= size
    BY <1>1, <1>2, <1>4, <1>8, <2>2, <2>3, <2>4, <2>5 DEF Resizes
  <2>. QED
    BY <1>3, <1>7, <1>8, <2>2, <2>4, <2>6 DEF used, size
<1>10. CASE Limit # 0
  <2>1. PICK r \in PowersOfTwo : max_cap = r * ElemSize
    BY <1>10, MaxCapElements
  <2>2. InitialCap + ElemSize <= max_cap /\ max_cap + ElemSize <= SizeMax
    BY <1>10, MaxCapElements
  <2>3. needed = used + want[p]
    BY DEF needed
  <2>4. CASE size <= max_cap
    <3>1. ResizeTo(size) = size
      BY <2>4 DEF ResizeTo, MinOf
    <3>2. m + 1 <= r /\ r \in Nat
      <4>1. r \in Nat
        BY BufferAssumption DEF PowersOfTwo
      <4>2. SUFFICES ASSUME r < m + 1 PROVE FALSE
        BY <4>1, <1>6
      <4>3. r * ElemSize <= m * ElemSize
        BY <4>1, <4>2, <1>1, <1>6
      <4>4. r * ElemSize \in Int /\ m * ElemSize \in Int
        BY <4>1, <1>1, <1>6
      <4>. QED  BY <4>3, <4>4, <2>1, <2>4, <1>1, <1>5, <1>8
    <3>3. q \in PowersOfTwo
      BY <3>2, <1>6, NextPow2Power DEF q
    <3>4. /\ Resizes(size, min_cap) /\ InitialCap <= size /\ size <= max_cap
          /\ used < size /\ used + want[p] <= size /\ size + ElemSize <= SizeMax
      BY <1>1, <1>2, <1>4, <1>8, <2>2, <2>3, <2>4, <3>1, BufferAssumption DEF Resizes
    <3>. QED
      BY <1>3, <1>7, <1>8, <3>1, <3>3, <3>4 DEF used, size
  <2>5. CASE ~ (size <= max_cap)
    <3>1. ResizeTo(size) = max_cap
      BY <2>5 DEF ResizeTo, MinOf
    <3>2. Resizes(size, min_cap) /\ InitialCap <= max_cap
      BY <1>1, <1>2, <2>2, <3>1 DEF Resizes
    <3>. QED
      BY <1>1, <1>2, <1>3, <2>1, <2>2, <3>1, <3>2 DEF used, size
  <2>. QED  BY <2>4, <2>5
<1>. QED  BY <1>9, <1>10

(* trim_buffer halves a power of two of elements, and never the buffer of  *)
(* pipe_new.                                                               *)
LEMMA TrimTo ==
  ASSUME PipeInv, Sparse(Pipe), Resizes(capacity(Pipe) \div 2, min_cap)
  PROVE  LET size == capacity(Pipe) \div 2
         IN  \E h \in PowersOfTwo :
               /\ ResizeTo(size) = h * ElemSize /\ h * ElemSize \in Int
               /\ InitialCap <= h * ElemSize /\ h * ElemSize <= max_cap
               /\ h * ElemSize + ElemSize <= SizeMax
               /\ Used(bufend, begin, end) < h * ElemSize
<1>. DEFINE used == Used(bufend, begin, end)
            cap == bufend - ElemSize
<1>1. /\ used \in Int /\ 0 <= used /\ bufend \in Int /\ bufend <= SizeMax
      /\ min_cap \in Int /\ InitialCap \in Int /\ max_cap \in Int /\ SizeMax \in Int
      /\ ElemSize \in Int /\ 0 < ElemSize /\ DefaultMincap \in Int
  <2>1. Ring(bufend, begin, end)
    BY DEF PipeInv, QueueInv
  <2>2. bufend \in Int /\ bufend <= SizeMax /\ min_cap \in Int
    BY <2>1 DEF Ring, PipeInv, CloseInv, TypeOK
  <2>3. used \in Int /\ 0 <= used
    BY <2>1, UsedRange
  <2>. QED  BY <2>2, <2>3, PipeNewType, BufferAssumption
<1>2. /\ bufend = InitialCap \/ \E p \in PowersOfTwo : bufend = p * ElemSize + ElemSize
      /\ InitialCap <= bufend /\ cap <= max_cap /\ InitialCap <= 2 * min_cap
  BY DEF PipeInv, QueueInv, Shape
<1>3. capacity(Pipe) = cap /\ bytes_in_use(Pipe) = used
  BY Usages
<1>4. used <= cap \div 4
  BY <1>3 DEF Sparse
<1>. HIDE DEF used
<1>5. InitialCap >= 2 * ElemSize /\ DefaultMincap \in PowersOfTwo /\ DefaultMincap > 1
      /\ InitialCap = DefaultMincap * ElemSize
  <2>1. DefaultMincap >= 2
    BY SizesAssumption, BufferAssumption
  <2>2. DefaultMincap * ElemSize >= 2 * ElemSize
    BY <2>1, <1>1
  <2>. QED  BY <2>2, SizesAssumption DEF InitialCap
<1>6. cap \in Int /\ 0 <= cap
  BY <1>1, <1>2, <1>5
<1>7. ResizeTo(cap \div 2) = cap \div 2 /\ cap \div 2 > min_cap /\ cap \div 2 \in Int
  BY <1>1, <1>2, <1>3, <1>6 DEF Resizes, ResizeTo, MinOf
<1>8. bufend # InitialCap
  BY <1>1, <1>2, <1>7
<1>9. PICK p \in PowersOfTwo : bufend = p * ElemSize + ElemSize
  BY <1>2, <1>8
<1>10. p \in Nat /\ p > 0 /\ p * ElemSize \in Int /\ cap = p * ElemSize
  <2>1. p \in Nat /\ p > 0
    BY BufferAssumption DEF PowersOfTwo
  <2>2. p * ElemSize \in Int
    BY <2>1, <1>1
  <2>. QED  BY <2>1, <2>2, <1>1, <1>9
<1>. HIDE DEF cap
<1>11. p # 1
  <2>1. SUFFICES ASSUME p = 1 PROVE FALSE
    OBVIOUS
  <2>2. cap = ElemSize
    BY <2>1, <1>1, <1>10
  <2>. QED  BY <2>2, <1>1, <1>2, <1>5, <1>7
<1>12. PICK h \in PowersOfTwo : p = 2 * h
  BY <1>11, HalfOfPower
<1>. DEFINE half == h * ElemSize
<1>13. h \in Nat /\ h > 0 /\ half \in Int /\ cap = 2 * half
  <2>1. h \in Nat /\ h > 0
    BY BufferAssumption DEF PowersOfTwo
  <2>2. half \in Int /\ (2 * h) * ElemSize = 2 * half
    BY <2>1, <1>1
  <2>. QED  BY <2>1, <2>2, <1>10, <1>12
<1>14. DefaultMincap < p
  <2>1. SUFFICES ASSUME p <= DefaultMincap PROVE FALSE
    BY <1>1, <1>10
  <2>2. p * ElemSize <= DefaultMincap * ElemSize
    BY <2>1, <1>1, <1>10
  <2>3. cap <= InitialCap
    BY <2>2, <1>5, <1>10
  <2>. QED  BY <2>3, <1>1, <1>2, <1>6, <1>7
<1>15. DefaultMincap <= h
  <2>1. PICK r \in PowersOfTwo : p = r * DefaultMincap
    BY <1>5, <1>14, <1>10, <1>1, PowerDivides
  <2>2. r # 1
    BY <2>1, <1>1, <1>14
  <2>3. PICK g \in PowersOfTwo : r = 2 * g
    BY <2>2, HalfOfPower
  <2>4. g \in Nat /\ g >= 1
    BY BufferAssumption DEF PowersOfTwo
  <2>5. (2 * g) * DefaultMincap = 2 * (g * DefaultMincap) /\ g * DefaultMincap \in Int
        /\ g * DefaultMincap >= DefaultMincap
    BY <2>4, BufferAssumption
  <2>. QED  BY <2>1, <2>3, <2>5, <1>12, <1>13, <1>1
<1>16. InitialCap <= half
  BY <1>1, <1>5, <1>13, <1>15
<1>17. used < half /\ cap \div 2 = half
  <2>. HIDE DEF half
  <2>1. 0 < half
    BY <1>1, <1>13, <1>16, PipeNewType
  <2>. QED  BY <2>1, <1>1, <1>4, <1>13
<1>18. half <= max_cap /\ half + ElemSize <= SizeMax
  <2>. HIDE DEF half
  <2>. QED  BY <1>1, <1>2, <1>6, <1>9, <1>10, <1>13
<1>. QED  BY <1>3, <1>7, <1>13, <1>16, <1>17, <1>18 DEF used

(* Who has a handle is counted.                                            *)
LEMMA HandlesHeld ==
  ASSUME CloseInv
  PROVE  /\ consumer_refcount \in Nat /\ producer_refcount \in Nat
         /\ \A t \in ConsumerHandles : consumer_refcount > 0
         /\ \A t \in ProducerHandles : producer_refcount > 0
<1>1. /\ consumer_refcount = Cardinality(ConsumerHandles)
      /\ producer_refcount = Cardinality(ProducerHandles)
  BY DEF CloseInv, RefCounts
<1>2. consumer_refcount \in Nat /\ producer_refcount \in Nat
  BY <1>1, HandlesCounted
<1>3. /\ consumer_refcount = 0 => ConsumerHandles = {}
      /\ producer_refcount = 0 => ProducerHandles = {}
  BY <1>1, HandlesFinite, FS_EmptySet
<1>. QED  BY <1>2, <1>3

LEMMA ConsumersCounted ==
  ASSUME CloseInv
  PROVE  /\ consumer_refcount \in Nat
         /\ \A c \in Consumers : pc[c] \notin Gone => consumer_refcount > 0
         /\ pc[Main] \notin Gone \ {"pipe_free"} => consumer_refcount > 0
BY HandlesHeld DEF ConsumerHandles

---------------------------------------------------------------------------
(* Who changes what.                                                       *)

(* Only five actions move the pointers, change the size or send bytes.     *)
LEMMA PointersMove ==
  ASSUME [Next]_vars
  PROVE  \/ UNCHANGED <<bufend, begin, end, min_cap, sent>>
         \/ \E p \in Producers : PushGrows(p) \/ PushCopies(p)
         \/ \E c \in Consumers : PopCopies(c) \/ TrimShrinks(c)
         \/ ReserveSets(Main)
<1>. DEFINE Still == UNCHANGED <<bufend, begin, end, min_cap, sent>>
<1>1. UNCHANGED vars => Still
  BY DEF vars, shared, client
<1>2. ASSUME NEW p \in Producers, Producer(p) PROVE Still \/ PushGrows(p) \/ PushCopies(p)
  BY <1>2 DEF Producer, Pushing, pipe_push, PushFull, PushToNobody, PushBegins, PushSleeps,
     PushSignals, PushReturns, pipe_producer_free, ProducerFreeChecks, shared, client
<1>3. ASSUME NEW c \in Consumers, Consumer(c) PROVE Still \/ PopCopies(c) \/ TrimShrinks(c)
  BY <1>3 DEF Consumer, Popping, pipe_pop, pipe_pop_eager, PopEmpty, PopEnds, PopBegins,
     PopSleeps, TrimLocksEnd, PopSignals, PopReturns, pipe_consumer_free,
     ConsumerFreeChecks, shared, client
<1>4. Owner => Still \/ ReserveSets(Main)
  BY DEF Owner, pipe_producer_new, pipe_consumer_new, pipe_reserve, ReserveLocksEnd,
     pipe_free, PipeFreeDecides, shared, client
<1>5. ASSUME NEW t \in Threads, Freeing(t) \/ SpuriousWakeup(t) PROVE Still
  BY <1>5 DEF Freeing, WakeConsumers, WakeProducers, deallocate, SpuriousWakeup, shared,
     client
<1>. QED  BY <1>1, <1>2, <1>3, <1>4, <1>5 DEF Next

(* Only three change the number of consumer handles, under end_lock.       *)
LEMMA ConsumersChange ==
  ASSUME [Next]_vars
  PROVE  consumer_refcount' = consumer_refcount \/ end_lock = NoThread
<1>. DEFINE Still == consumer_refcount' = consumer_refcount \/ end_lock = NoThread
<1>1. UNCHANGED vars => Still
  BY DEF vars, counts
<1>2. ASSUME NEW p \in Producers, Producer(p) PROVE Still
  BY <1>2 DEF Producer, Pushing, pipe_push, PushFull, PushToNobody, PushBegins, PushSleeps,
     PushGrows, PushCopies, PushSignals, PushReturns, pipe_producer_free,
     ProducerFreeChecks, counts
<1>3. ASSUME NEW c \in Consumers, Consumer(c) PROVE Still
  BY <1>3 DEF Consumer, Popping, pipe_pop, pipe_pop_eager, PopEmpty, PopEnds, PopBegins,
     PopSleeps, PopCopies, TrimLocksEnd, TrimShrinks, PopSignals, PopReturns,
     pipe_consumer_free, ConsumerFreeChecks, counts
<1>4. Owner => Still
  BY DEF Owner, pipe_producer_new, pipe_consumer_new, pipe_reserve, ReserveLocksEnd,
     ReserveSets, pipe_free, PipeFreeDecides, counts
<1>5. ASSUME NEW t \in Threads, Freeing(t) \/ SpuriousWakeup(t) PROVE Still
  BY <1>5 DEF Freeing, WakeConsumers, WakeProducers, deallocate, SpuriousWakeup, counts
<1>. QED  BY <1>1, <1>2, <1>3, <1>4, <1>5 DEF Next

(* A thread that is about to copy, or to look again before it grows the    *)
(* buffer, has just taken its snapshot or has kept it since the last step. *)
SameCall(u) == pc'[u] = pc[u] /\ seen'[u] = seen[u] /\ want'[u] = want[u]
FromSnapshot(u) ==
  /\ pc'[u] \in {"push_grow", "push_copy"} =>
       SameCall(u) \/ (u \in Producers /\ (PushBegins(u) \/ PushGrows(u)))
  /\ pc'[u] = "pop_copy" => SameCall(u) \/ (u \in Consumers /\ PopBegins(u))

LEMMA SnapshotTaken ==
  ASSUME PipeInv, [Next]_vars, NEW u \in Threads
  PROVE  FromSnapshot(u)
<1>0. /\ pc \in [Threads -> Pcs] /\ want \in [Threads -> Nat] /\ seen \in [Threads -> Int]
      /\ Main \in Threads /\ NoThread \notin Threads
      /\ Producers \subseteq Threads /\ Consumers \subseteq Threads
      /\ Main \notin Producers /\ Main \notin Consumers /\ Producers \cap Consumers = {}
  BY PipeAssumption DEF TypeOK, Threads, PipeInv, CloseInv
<1>1. ASSUME UNCHANGED vars
      PROVE  FromSnapshot(u)
  BY <1>1, <1>0 DEF vars, locals, FromSnapshot, SameCall
<1>2. ASSUME NEW p \in Producers, NEW count \in PushCounts, pipe_push(p, count)
      PROVE  FromSnapshot(u)
  BY <1>2, <1>0 DEF pipe_push, GoTo, FromSnapshot, SameCall
<1>3. ASSUME NEW p \in Producers, PushFull(p)
      PROVE  FromSnapshot(u)
  BY <1>3, <1>0 DEF PushFull, GoTo, locals, FromSnapshot, SameCall
<1>4. ASSUME NEW p \in Producers, PushToNobody(p)
      PROVE  FromSnapshot(u)
  BY <1>4, <1>0 DEF PushToNobody, GoTo, Return, FromSnapshot, SameCall
<1>5. ASSUME NEW p \in Producers, PushBegins(p)
      PROVE  FromSnapshot(u)
  BY <1>5, <1>0 DEF PushBegins, GoTo, FromSnapshot, SameCall
<1>6. ASSUME NEW p \in Producers, PushSleeps(p)
      PROVE  FromSnapshot(u)
  BY <1>6, <1>0 DEF PushSleeps, GoTo, locals, FromSnapshot, SameCall
<1>7. ASSUME NEW p \in Producers, PushGrows(p)
      PROVE  FromSnapshot(u)
  BY <1>7, <1>0 DEF PushGrows, GoTo, FromSnapshot, SameCall
<1>8. ASSUME NEW p \in Producers, PushCopies(p)
      PROVE  FromSnapshot(u)
  BY <1>8, <1>0 DEF PushCopies, GoTo, FromSnapshot, SameCall
<1>9. ASSUME NEW p \in Producers, PushSignals(p)
      PROVE  FromSnapshot(u)
  BY <1>9, <1>0, PushWokenAsleep DEF PushSignals, GoToWaking, AwaitingElements,
     AwaitingRoom, FromSnapshot, SameCall
<1>10. ASSUME NEW p \in Producers, PushReturns(p)
      PROVE  FromSnapshot(u)
  BY <1>10, <1>0, PushWokenAsleep DEF PushReturns, GoToWaking, AwaitingElements,
     AwaitingRoom, Return, FromSnapshot, SameCall
<1>11. ASSUME NEW p \in Producers, pipe_producer_free(p)
      PROVE  FromSnapshot(u)
  BY <1>11, <1>0 DEF pipe_producer_free, GoTo, locals, FromSnapshot, SameCall
<1>12. ASSUME NEW p \in Producers, ProducerFreeChecks(p)
      PROVE  FromSnapshot(u)
  BY <1>12, <1>0 DEF ProducerFreeChecks, GoTo, locals, FromSnapshot, SameCall
<1>13. ASSUME NEW c \in Consumers, NEW count \in PopCounts, pipe_pop(c, count)
      PROVE  FromSnapshot(u)
  BY <1>13, <1>0 DEF pipe_pop, GoTo, FromSnapshot, SameCall
<1>14. ASSUME NEW c \in Consumers, NEW count \in PopCounts, pipe_pop_eager(c, count)
      PROVE  FromSnapshot(u)
  BY <1>14, <1>0 DEF pipe_pop_eager, GoTo, FromSnapshot, SameCall
<1>15. ASSUME NEW c \in Consumers, PopEmpty(c)
      PROVE  FromSnapshot(u)
  BY <1>15, <1>0 DEF PopEmpty, GoTo, locals, FromSnapshot, SameCall
<1>16. ASSUME NEW c \in Consumers, PopEnds(c)
      PROVE  FromSnapshot(u)
  BY <1>16, <1>0 DEF PopEnds, GoTo, Return, FromSnapshot, SameCall
<1>17. ASSUME NEW c \in Consumers, PopBegins(c)
      PROVE  FromSnapshot(u)
  BY <1>17, <1>0 DEF PopBegins, GoTo, FromSnapshot, SameCall
<1>18. ASSUME NEW c \in Consumers, PopSleeps(c)
      PROVE  FromSnapshot(u)
  BY <1>18, <1>0 DEF PopSleeps, GoTo, locals, FromSnapshot, SameCall
<1>19. ASSUME NEW c \in Consumers, PopCopies(c)
      PROVE  FromSnapshot(u)
  BY <1>19, <1>0 DEF PopCopies, GoTo, FromSnapshot, SameCall
<1>20. ASSUME NEW c \in Consumers, TrimLocksEnd(c)
      PROVE  FromSnapshot(u)
  BY <1>20, <1>0 DEF TrimLocksEnd, GoTo, locals, FromSnapshot, SameCall
<1>21. ASSUME NEW c \in Consumers, TrimShrinks(c)
      PROVE  FromSnapshot(u)
  BY <1>21, <1>0 DEF TrimShrinks, GoTo, locals, FromSnapshot, SameCall
<1>22. ASSUME NEW c \in Consumers, PopSignals(c)
      PROVE  FromSnapshot(u)
  BY <1>22, <1>0, PopWokenAsleep DEF PopSignals, GoToWaking, AwaitingElements,
     AwaitingRoom, FromSnapshot, SameCall
<1>23. ASSUME NEW c \in Consumers, PopReturns(c)
      PROVE  FromSnapshot(u)
  BY <1>23, <1>0, PopWokenAsleep DEF PopReturns, GoToWaking, AwaitingElements,
     AwaitingRoom, Return, FromSnapshot, SameCall
<1>24. ASSUME NEW c \in Consumers, pipe_consumer_free(c)
      PROVE  FromSnapshot(u)
  BY <1>24, <1>0 DEF pipe_consumer_free, GoTo, locals, FromSnapshot, SameCall
<1>25. ASSUME NEW c \in Consumers, ConsumerFreeChecks(c)
      PROVE  FromSnapshot(u)
  BY <1>25, <1>0 DEF ConsumerFreeChecks, GoTo, locals, FromSnapshot, SameCall
<1>26. ASSUME NEW p \in Producers, pipe_producer_new(p)
      PROVE  FromSnapshot(u)
  BY <1>26, <1>0 DEF pipe_producer_new, GoTo, locals, FromSnapshot, SameCall
<1>27. ASSUME NEW c \in Consumers, pipe_consumer_new(c)
      PROVE  FromSnapshot(u)
  BY <1>27, <1>0 DEF pipe_consumer_new, GoTo, locals, FromSnapshot, SameCall
<1>28. ASSUME NEW count \in ReserveCounts, pipe_reserve(Main, count)
      PROVE  FromSnapshot(u)
  BY <1>28, <1>0 DEF pipe_reserve, GoTo, FromSnapshot, SameCall
<1>29. ASSUME ReserveLocksEnd(Main)
      PROVE  FromSnapshot(u)
  BY <1>29, <1>0 DEF ReserveLocksEnd, GoTo, locals, FromSnapshot, SameCall
<1>30. ASSUME ReserveSets(Main)
      PROVE  FromSnapshot(u)
  BY <1>30, <1>0 DEF ReserveSets, GoTo, Return, FromSnapshot, SameCall
<1>31. ASSUME pipe_free
      PROVE  FromSnapshot(u)
  BY <1>31, <1>0 DEF pipe_free, GoTo, locals, FromSnapshot, SameCall
<1>32. ASSUME PipeFreeDecides
      PROVE  FromSnapshot(u)
  BY <1>32, <1>0 DEF PipeFreeDecides, GoTo, locals, FromSnapshot, SameCall
<1>33. ASSUME NEW t \in Threads, WakeConsumers(t)
      PROVE  FromSnapshot(u)
  BY <1>33, <1>0 DEF WakeConsumers, GoToWaking, AwaitingElements, AwaitingRoom,
     locals, FromSnapshot, SameCall
<1>34. ASSUME NEW t \in Threads, WakeProducers(t)
      PROVE  FromSnapshot(u)
  BY <1>34, <1>0 DEF WakeProducers, GoToWaking, AwaitingElements, AwaitingRoom,
     locals, FromSnapshot, SameCall
<1>35. ASSUME NEW t \in Threads, deallocate(t)
      PROVE  FromSnapshot(u)
  BY <1>35, <1>0 DEF deallocate, GoTo, locals, FromSnapshot, SameCall
<1>36. ASSUME NEW t \in Threads, SpuriousWakeup(t)
      PROVE  FromSnapshot(u)
  BY <1>36, <1>0 DEF SpuriousWakeup, GoTo, locals, FromSnapshot, SameCall
<1>. QED
  BY <1>1, <1>2, <1>3, <1>4, <1>5, <1>6, <1>7, <1>8, <1>9, <1>10, <1>11, <1>12, <1>13,
     <1>14, <1>15, <1>16, <1>17, <1>18, <1>19, <1>20, <1>21, <1>22, <1>23, <1>24,
     <1>25, <1>26, <1>27, <1>28, <1>29, <1>30, <1>31, <1>32, <1>33, <1>34, <1>35,
     <1>36
  DEF Next, Producer, Consumer, Owner, Pushing, Popping, Freeing

(* Every step keeps what is left of the calls whole, within what their      *)
(* producers may push.                                                     *)
LEMMA WantsStep ==
  ASSUME PipeInv, [Next]_vars
  PROVE  Wants'
<1>0. /\ pc \in [Threads -> Pcs] /\ want \in [Threads -> Nat] /\ seen \in [Threads -> Int]
      /\ Main \in Threads /\ NoThread \notin Threads
      /\ Producers \subseteq Threads /\ Consumers \subseteq Threads
      /\ Main \notin Producers /\ Main \notin Consumers /\ Producers \cap Consumers = {}
  BY PipeAssumption DEF TypeOK, Threads, PipeInv, CloseInv
<1>a. /\ Wants /\ budget \in [Producers -> Nat] /\ sent \in [Producers -> Int]
      /\ ElemSize \in Nat /\ ElemSize > 0
      /\ PushCounts \subseteq Nat \ {0} /\ PopCounts \subseteq Nat \ {0} /\ Aligned(0)
  BY BufferAssumption, PipeAssumption, AlignedZero DEF PipeInv, CloseInv, QueueInv, TypeOK
<1>1. ASSUME UNCHANGED vars
      PROVE  Wants'
  BY <1>1, <1>0, <1>a DEF vars, locals, client, Wants, PushPcs, ReservePcs
<1>2. ASSUME NEW p \in Producers, NEW count \in PushCounts, pipe_push(p, count)
      PROVE  Wants'
  <2>. DEFINE bytes == count * ElemSize
              left == budget[p] * ElemSize
  <2>1. bytes > 0 /\ Aligned(bytes) /\ bytes \in Nat /\ count \in Nat
    BY <1>a, AlignedTimes
  <2>2. (budget[p] - count) * ElemSize = left - bytes /\ left \in Nat
    BY <1>a, <2>1
  <2>3. want[p] >= 0 /\ sent[p] + want[p] + left <= Elements * ElemSize /\ sent[p] >= 0
    BY <1>0, <1>a DEF Wants
  <2>4. Elements * ElemSize \in Nat
    BY BufferAssumption, PipeAssumption
  <2>5. /\ want' = [want EXCEPT ![p] = bytes] /\ sent' = sent
        /\ budget' = [budget EXCEPT ![p] = @ - count]
    BY <1>2 DEF pipe_push
  <2>6. budget'[p] * ElemSize = left - bytes /\ want'[p] = bytes
    BY <1>0, <1>a, <2>2, <2>5
  <2>. HIDE DEF bytes, left
  <2>7. sent'[p] + want'[p] + budget'[p] * ElemSize <= Elements * ElemSize
    BY <2>1, <2>2, <2>3, <2>4, <2>5, <2>6, <1>0, <1>a
  <2>8. \A q \in Producers : q # p => want'[q] = want[q] /\ budget'[q] = budget[q]
    BY <1>0, <1>a, <2>5
  <2>9. \A q \in Producers :
          sent'[q] >= 0 /\ sent'[q] + want'[q] + budget'[q] * ElemSize <= Elements * ElemSize
    BY <2>5, <2>7, <2>8, <1>a DEF Wants
  <2>. QED
    BY <1>2, <1>0, <1>a, <2>1, <2>5, <2>9 DEF pipe_push, GoTo, Wants, PushPcs, ReservePcs
<1>3. ASSUME NEW p \in Producers, PushFull(p)
      PROVE  Wants'
  BY <1>3, <1>0, <1>a DEF PushFull, GoTo, locals, client, Wants, PushPcs, ReservePcs
<1>4. ASSUME NEW p \in Producers, PushToNobody(p)
      PROVE  Wants'
  <2>1. ASSUME NEW q \in Producers
        PROVE  sent'[q] >= 0 /\ sent'[q] + want'[q] + budget'[q] * ElemSize <= Elements * ElemSize
    <3>. DEFINE left == budget[q] * ElemSize
                most == Elements * ElemSize
    <3>1. left \in Nat /\ most \in Nat
      BY <1>a, BufferAssumption, PipeAssumption
    <3>2. /\ sent[q] >= 0 /\ sent[q] + want[q] + left <= most
          /\ sent[q] \in Int /\ want[q] \in Nat
      BY <1>0, <1>a DEF Wants
    <3>3. sent' = sent /\ budget' = budget /\ want'[q] \in {0, want[q]}
      BY <1>4, <1>0 DEF PushToNobody, Return, client
    <3>4. budget'[q] * ElemSize = left
      BY <3>3
    <3>. HIDE DEF left, most
    <3>5. sent'[q] >= 0 /\ sent'[q] + want'[q] + left <= most
      BY <3>1, <3>2, <3>3
    <3>. QED  BY <3>4, <3>5 DEF most
  <2>. QED
    BY <1>4, <1>0, <1>a, <2>1 DEF PushToNobody, Return, GoTo, client, Wants, PushPcs, ReservePcs
<1>5. ASSUME NEW p \in Producers, PushBegins(p)
      PROVE  Wants'
  BY <1>5, <1>0, <1>a DEF PushBegins, GoTo, client, Wants, PushPcs, ReservePcs
<1>6. ASSUME NEW p \in Producers, PushSleeps(p)
      PROVE  Wants'
  BY <1>6, <1>0, <1>a DEF PushSleeps, GoTo, locals, client, Wants, PushPcs, ReservePcs
<1>7. ASSUME NEW p \in Producers, PushGrows(p)
      PROVE  Wants'
  BY <1>7, <1>0, <1>a DEF PushGrows, GoTo, client, Wants, PushPcs, ReservePcs
<1>8. ASSUME NEW p \in Producers, PushCopies(p)
      PROVE  Wants'
  <2>. DEFINE k == Pushed(p)
  <2>1. pc[p] = "push_copy" /\ want' = [want EXCEPT ![p] = @ - k]
        /\ sent' = [sent EXCEPT ![p] = @ + k] /\ budget' = budget
        /\ pc' = [pc EXCEPT ![p] = "push_signal"]
    BY <1>8 DEF PushCopies, GoTo
  <2>2. k \in Int /\ 0 < k /\ Aligned(k) /\ k <= want[p]
    BY <2>1, PushAmount
  <2>. HIDE DEF k
  <2>3. Aligned(want[p] - k)
    BY <1>0, <1>a, <2>2, AlignedSum DEF Wants
  <2>4. /\ want'[p] = want[p] - k /\ sent'[p] = sent[p] + k
        /\ \A q \in Threads : q # p => want'[q] = want[q]
        /\ \A q \in Producers : q # p => sent'[q] = sent[q]
    BY <1>0, <1>a, <2>1
  <2>5. ASSUME NEW q \in Producers
        PROVE  /\ sent'[q] >= 0
               /\ sent'[q] + want'[q] + budget'[q] * ElemSize <= Elements * ElemSize
    <3>. DEFINE left == budget[q] * ElemSize
                most == Elements * ElemSize
    <3>1. left \in Nat /\ most \in Nat
      BY <1>a, BufferAssumption, PipeAssumption
    <3>2. /\ sent[q] >= 0 /\ sent[q] + want[q] + left <= most
          /\ sent[q] \in Int /\ want[q] \in Int
      BY <1>0, <1>a DEF Wants
    <3>. HIDE DEF left, most
    <3>3. sent'[q] >= 0 /\ sent'[q] + want'[q] + left <= most
      BY <3>1, <3>2, <2>2, <2>4, <1>0
    <3>. QED  BY <3>3, <2>1 DEF left, most
  <2>. QED
    BY <1>0, <1>a, <2>1, <2>3, <2>4, <2>5 DEF Wants, PushPcs, ReservePcs
<1>9. ASSUME NEW p \in Producers, PushSignals(p)
      PROVE  Wants'
  BY <1>9, <1>0, <1>a, PushWokenAsleep DEF PushSignals, GoToWaking, AwaitingElements,
     AwaitingRoom, client, Wants, PushPcs, ReservePcs
<1>10. ASSUME NEW p \in Producers, PushReturns(p)
      PROVE  Wants'
  BY <1>10, <1>0, <1>a, PushWokenAsleep DEF PushReturns, GoToWaking, AwaitingElements,
     AwaitingRoom, Return, client, Wants, PushPcs, ReservePcs
<1>11. ASSUME NEW p \in Producers, pipe_producer_free(p)
      PROVE  Wants'
  BY <1>11, <1>0, <1>a DEF pipe_producer_free, GoTo, locals, client, Wants, PushPcs,
     ReservePcs
<1>12. ASSUME NEW p \in Producers, ProducerFreeChecks(p)
      PROVE  Wants'
  BY <1>12, <1>0, <1>a DEF ProducerFreeChecks, GoTo, locals, client, Wants, PushPcs,
     ReservePcs
<1>13. ASSUME NEW c \in Consumers, NEW count \in PopCounts, pipe_pop(c, count)
      PROVE  Wants'
  <2>1. count * ElemSize > 0 /\ Aligned(count * ElemSize) /\ count * ElemSize \in Nat
    BY <1>a, AlignedTimes
  <2>. DEFINE bytes == count * ElemSize
  <2>2. want' = [want EXCEPT ![c] = bytes]
    BY <1>13 DEF pipe_pop
  <2>. HIDE DEF bytes
  <2>. QED
    BY <1>13, <1>0, <1>a, <2>1, <2>2 DEF pipe_pop, GoTo, client, Wants, PushPcs, ReservePcs, bytes
<1>14. ASSUME NEW c \in Consumers, NEW count \in PopCounts, pipe_pop_eager(c, count)
      PROVE  Wants'
  <2>1. count * ElemSize > 0 /\ Aligned(count * ElemSize) /\ count * ElemSize \in Nat
    BY <1>a, AlignedTimes
  <2>. DEFINE bytes == count * ElemSize
  <2>2. want' = [want EXCEPT ![c] = bytes]
    BY <1>14 DEF pipe_pop_eager
  <2>. HIDE DEF bytes
  <2>. QED
    BY <1>14, <1>0, <1>a, <2>1, <2>2 DEF pipe_pop_eager, GoTo, client, Wants, PushPcs, ReservePcs, bytes
<1>15. ASSUME NEW c \in Consumers, PopEmpty(c)
      PROVE  Wants'
  BY <1>15, <1>0, <1>a DEF PopEmpty, GoTo, locals, client, Wants, PushPcs, ReservePcs
<1>16. ASSUME NEW c \in Consumers, PopEnds(c)
      PROVE  Wants'
  BY <1>16, <1>0, <1>a DEF PopEnds, GoTo, Return, Wants, PushPcs, ReservePcs
<1>17. ASSUME NEW c \in Consumers, PopBegins(c)
      PROVE  Wants'
  BY <1>17, <1>0, <1>a DEF PopBegins, GoTo, client, Wants, PushPcs, ReservePcs
<1>18. ASSUME NEW c \in Consumers, PopSleeps(c)
      PROVE  Wants'
  BY <1>18, <1>0, <1>a DEF PopSleeps, GoTo, locals, client, Wants, PushPcs, ReservePcs
<1>19. ASSUME NEW c \in Consumers, PopCopies(c)
      PROVE  Wants'
  <2>. DEFINE k == Popped(c)
  <2>1. /\ pc[c] = "pop_copy" /\ want' = [want EXCEPT ![c] = @ - k]
        /\ sent' = sent /\ budget' = budget
        /\ pc'[c] \in {"trim_end", "pop_signal"} /\ \A t \in Threads : t # c => pc'[t] = pc[t]
    BY <1>19, <1>0 DEF PopCopies, GoTo
  <2>2. k \in Int /\ 0 < k /\ Aligned(k) /\ k <= want[c]
    BY <2>1, PopAmount
  <2>. HIDE DEF k
  <2>3. Aligned(want[c] - k)
    BY <1>0, <1>a, <2>2, AlignedSum DEF Wants
  <2>. QED
    BY <1>0, <1>a, <2>1, <2>3 DEF Wants, PushPcs, ReservePcs
<1>20. ASSUME NEW c \in Consumers, TrimLocksEnd(c)
      PROVE  Wants'
  BY <1>20, <1>0, <1>a DEF TrimLocksEnd, GoTo, locals, client, Wants, PushPcs,
     ReservePcs
<1>21. ASSUME NEW c \in Consumers, TrimShrinks(c)
      PROVE  Wants'
  BY <1>21, <1>0, <1>a DEF TrimShrinks, GoTo, locals, client, Wants, PushPcs,
     ReservePcs
<1>22. ASSUME NEW c \in Consumers, PopSignals(c)
      PROVE  Wants'
  BY <1>22, <1>0, <1>a, PopWokenAsleep DEF PopSignals, GoToWaking, AwaitingElements,
     AwaitingRoom, client, Wants, PushPcs, ReservePcs
<1>23. ASSUME NEW c \in Consumers, PopReturns(c)
      PROVE  Wants'
  BY <1>23, <1>0, <1>a, PopWokenAsleep DEF PopReturns, GoToWaking, AwaitingElements,
     AwaitingRoom, Return, client, Wants, PushPcs, ReservePcs
<1>24. ASSUME NEW c \in Consumers, pipe_consumer_free(c)
      PROVE  Wants'
  BY <1>24, <1>0, <1>a DEF pipe_consumer_free, GoTo, locals, client, Wants, PushPcs,
     ReservePcs
<1>25. ASSUME NEW c \in Consumers, ConsumerFreeChecks(c)
      PROVE  Wants'
  BY <1>25, <1>0, <1>a DEF ConsumerFreeChecks, GoTo, locals, client, Wants, PushPcs,
     ReservePcs
<1>26. ASSUME NEW p \in Producers, pipe_producer_new(p)
      PROVE  Wants'
  BY <1>26, <1>0, <1>a DEF pipe_producer_new, GoTo, locals, client, Wants, PushPcs,
     ReservePcs
<1>27. ASSUME NEW c \in Consumers, pipe_consumer_new(c)
      PROVE  Wants'
  BY <1>27, <1>0, <1>a DEF pipe_consumer_new, GoTo, locals, client, Wants, PushPcs,
     ReservePcs
<1>28. ASSUME NEW count \in ReserveCounts, pipe_reserve(Main, count)
      PROVE  Wants'
  <2>1. (IF count = 0 THEN DefaultMincap ELSE count * ElemSize) \in ReserveSizes
    BY DEF ReserveSizes
  <2>. QED
    BY <1>28, <1>0, <1>a, <2>1 DEF pipe_reserve, GoTo, client, Wants, PushPcs
<1>29. ASSUME ReserveLocksEnd(Main)
      PROVE  Wants'
  BY <1>29, <1>0, <1>a DEF ReserveLocksEnd, GoTo, locals, client, Wants, PushPcs,
     ReservePcs
<1>30. ASSUME ReserveSets(Main)
      PROVE  Wants'
  BY <1>30, <1>0, <1>a DEF ReserveSets, GoTo, Return, client, Wants, PushPcs,
     ReservePcs
<1>31. ASSUME pipe_free
      PROVE  Wants'
  BY <1>31, <1>0, <1>a DEF pipe_free, GoTo, locals, client, Wants, PushPcs, ReservePcs
<1>32. ASSUME PipeFreeDecides
      PROVE  Wants'
  BY <1>32, <1>0, <1>a DEF PipeFreeDecides, GoTo, locals, client, Wants, PushPcs,
     ReservePcs
<1>33. ASSUME NEW t \in Threads, WakeConsumers(t)
      PROVE  Wants'
  BY <1>33, <1>0, <1>a DEF WakeConsumers, GoToWaking, AwaitingElements, AwaitingRoom,
     locals, client, Wants, PushPcs, ReservePcs
<1>34. ASSUME NEW t \in Threads, WakeProducers(t)
      PROVE  Wants'
  BY <1>34, <1>0, <1>a DEF WakeProducers, GoToWaking, AwaitingElements, AwaitingRoom,
     locals, client, Wants, PushPcs, ReservePcs
<1>35. ASSUME NEW t \in Threads, deallocate(t)
      PROVE  Wants'
  BY <1>35, <1>0, <1>a DEF deallocate, GoTo, locals, client, Wants, PushPcs,
     ReservePcs
<1>36. ASSUME NEW t \in Threads, SpuriousWakeup(t)
      PROVE  Wants'
  BY <1>36, <1>0, <1>a DEF SpuriousWakeup, GoTo, locals, client, Wants, PushPcs,
     ReservePcs
<1>. QED
  BY <1>1, <1>2, <1>3, <1>4, <1>5, <1>6, <1>7, <1>8, <1>9, <1>10, <1>11, <1>12, <1>13,
     <1>14, <1>15, <1>16, <1>17, <1>18, <1>19, <1>20, <1>21, <1>22, <1>23, <1>24,
     <1>25, <1>26, <1>27, <1>28, <1>29, <1>30, <1>31, <1>32, <1>33, <1>34, <1>35,
     <1>36
  DEF Next, Producer, Consumer, Owner, Pushing, Popping, Freeing

(* resize_buffer never gives the memory back.                              *)
LEMMA ResizeKeepsMemory ==
  ASSUME TypeOK, NEW size \in Int, NEW mincap \in Nat, resize_buffer(size, mincap)
  PROVE  buffer' = NULL => buffer = NULL
<1>1. CASE Resizes(size, mincap)
  <2>. DEFINE bytes == ResizeTo(size) + ElemSize
  <2>1. bytes \in Int /\ 0 < bytes
    BY <1>1, ResizeToType, BufferAssumption
  <2>2. DOMAIN buffer' = 0 .. bytes - 1
    BY <1>1 DEF resize_buffer
  <2>. HIDE DEF bytes
  <2>3. 0 \in DOMAIN buffer'
    BY <2>1, <2>2
  <2>. QED  BY <2>3 DEF NULL
<1>2. CASE ~ Resizes(size, mincap)
  BY <1>2 DEF resize_buffer
<1>. QED  BY <1>1, <1>2

(* pipe_reserve raises min_cap to what it then asks resize_buffer for, so  *)
(* nothing is allocated.                                                   *)
LEMMA ReserveNeverResizes ==
  ASSUME NEW size, resize_buffer(size, MinOf(size, max_cap)), size \in Int
  PROVE  UNCHANGED <<buffer, bufend, begin, end>>
BY PipeNewType DEF resize_buffer, Resizes, ResizeTo, MinOf

(* Every step keeps the memory while there are consumers.                  *)
LEMMA MemoryStep ==
  ASSUME PipeInv, [Next]_vars
  PROVE  Memory'
<1>0. /\ pc \in [Threads -> Pcs] /\ want \in [Threads -> Nat] /\ seen \in [Threads -> Int]
      /\ Main \in Threads /\ NoThread \notin Threads
      /\ Producers \subseteq Threads /\ Consumers \subseteq Threads
      /\ Main \notin Producers /\ Main \notin Consumers /\ Producers \cap Consumers = {}
  BY PipeAssumption DEF TypeOK, Threads, PipeInv, CloseInv
<1>a. /\ Memory /\ consumer_refcount \in Int /\ consumer_refcount >= 0
      /\ pc[Main] \in {"idle", "pipe_free"} => consumer_refcount > 0
      /\ \A c \in Consumers : pc[c] = "idle" => consumer_refcount > 0
  BY ConsumersCounted DEF PipeInv, QueueInv, Gone, FreePcs
<1>b. /\ TypeOK /\ want \in [Threads -> Nat] /\ min_cap \in Nat
  BY DEF PipeInv, CloseInv, TypeOK
<1>1. ASSUME UNCHANGED vars
      PROVE  Memory'
  BY <1>1, <1>0, <1>a DEF vars, shared, counts, Memory
<1>2. ASSUME NEW p \in Producers, NEW count \in PushCounts, pipe_push(p, count)
      PROVE  Memory'
  BY <1>2, <1>0, <1>a DEF pipe_push, GoTo, shared, counts, Memory
<1>3. ASSUME NEW p \in Producers, PushFull(p)
      PROVE  Memory'
  BY <1>3, <1>0, <1>a DEF PushFull, GoTo, shared, counts, Memory
<1>4. ASSUME NEW p \in Producers, PushToNobody(p)
      PROVE  Memory'
  BY <1>4, <1>0, <1>a DEF PushToNobody, GoTo, Return, shared, counts, Memory
<1>5. ASSUME NEW p \in Producers, PushBegins(p)
      PROVE  Memory'
  BY <1>5, <1>0, <1>a DEF PushBegins, GoTo, shared, counts, Memory
<1>6. ASSUME NEW p \in Producers, PushSleeps(p)
      PROVE  Memory'
  BY <1>6, <1>0, <1>a DEF PushSleeps, GoTo, shared, counts, Memory
<1>7. ASSUME NEW p \in Producers, PushGrows(p)
      PROVE  Memory'
  <2>1. buffer' = NULL => buffer = NULL
    <3>1. CASE PushFits(p)
      BY <1>7, <3>1 DEF PushGrows
    <3>2. CASE ~ PushFits(p)
      <4>1. GrowSize(bytes_in_use(Pipe) + want[p]) \in Int
        BY <3>2, <1>0, <1>b, GrowType
      <4>. QED  BY <1>7, <3>2, <4>1, <1>b, ResizeKeepsMemory DEF PushGrows
    <3>. QED  BY <3>1, <3>2
  <2>. QED  BY <1>7, <1>0, <1>a, <2>1 DEF PushGrows, GoTo, counts, Memory
<1>8. ASSUME NEW p \in Producers, PushCopies(p)
      PROVE  Memory'
  <2>1. DOMAIN buffer' = DOMAIN buffer /\ pc[p] = "push_copy"
    BY <1>8 DEF PushCopies
  <2>2. consumer_refcount > 0
    BY <2>1 DEF PipeInv, QueueInv, PushersSee
  <2>3. buffer \in [0 .. bufend - 1 -> Byte \cup {Junk}] /\ bufend \in Nat \ {0}
    BY <2>2, <1>a, <1>b DEF Memory, TypeOK
  <2>4. 0 \in DOMAIN buffer
    BY <2>3
  <2>5. buffer' # NULL
    BY <2>1, <2>4 DEF NULL
  <2>. QED  BY <1>8, <1>0, <1>a, <2>5 DEF PushCopies, GoTo, counts, Memory
<1>9. ASSUME NEW p \in Producers, PushSignals(p)
      PROVE  Memory'
  BY <1>9, <1>0, <1>a, PushWokenAsleep DEF PushSignals, GoToWaking, AwaitingElements,
     AwaitingRoom, shared, counts, Memory
<1>10. ASSUME NEW p \in Producers, PushReturns(p)
      PROVE  Memory'
  BY <1>10, <1>0, <1>a, PushWokenAsleep DEF PushReturns, GoToWaking, AwaitingElements,
     AwaitingRoom, Return, shared, counts, Memory
<1>11. ASSUME NEW p \in Producers, pipe_producer_free(p)
      PROVE  Memory'
  BY <1>11, <1>0, <1>a DEF pipe_producer_free, GoTo, shared, Memory
<1>12. ASSUME NEW p \in Producers, ProducerFreeChecks(p)
      PROVE  Memory'
  BY <1>12, <1>0, <1>a DEF ProducerFreeChecks, GoTo, shared, counts, Memory
<1>13. ASSUME NEW c \in Consumers, NEW count \in PopCounts, pipe_pop(c, count)
      PROVE  Memory'
  BY <1>13, <1>0, <1>a DEF pipe_pop, GoTo, shared, counts, Memory
<1>14. ASSUME NEW c \in Consumers, NEW count \in PopCounts, pipe_pop_eager(c, count)
      PROVE  Memory'
  BY <1>14, <1>0, <1>a DEF pipe_pop_eager, GoTo, shared, counts, Memory
<1>15. ASSUME NEW c \in Consumers, PopEmpty(c)
      PROVE  Memory'
  BY <1>15, <1>0, <1>a DEF PopEmpty, GoTo, shared, counts, Memory
<1>16. ASSUME NEW c \in Consumers, PopEnds(c)
      PROVE  Memory'
  BY <1>16, <1>0, <1>a DEF PopEnds, GoTo, Return, shared, counts, Memory
<1>17. ASSUME NEW c \in Consumers, PopBegins(c)
      PROVE  Memory'
  BY <1>17, <1>0, <1>a DEF PopBegins, GoTo, shared, counts, Memory
<1>18. ASSUME NEW c \in Consumers, PopSleeps(c)
      PROVE  Memory'
  BY <1>18, <1>0, <1>a DEF PopSleeps, GoTo, shared, counts, Memory
<1>19. ASSUME NEW c \in Consumers, PopCopies(c)
      PROVE  Memory'
  BY <1>19, <1>0, <1>a DEF PopCopies, GoTo, counts, Memory
<1>20. ASSUME NEW c \in Consumers, TrimLocksEnd(c)
      PROVE  Memory'
  BY <1>20, <1>0, <1>a DEF TrimLocksEnd, GoTo, shared, counts, Memory
<1>21. ASSUME NEW c \in Consumers, TrimShrinks(c)
      PROVE  Memory'
  <2>1. buffer' = NULL => buffer = NULL
    <3>1. CASE Sparse(Pipe)
      <4>1. capacity(Pipe) \div 2 \in Int
        BY <1>b, ViewTypes, SnapshotTypes
      <4>. QED  BY <1>21, <3>1, <4>1, <1>b, ResizeKeepsMemory DEF TrimShrinks
    <3>2. CASE ~ Sparse(Pipe)
      BY <1>21, <3>2 DEF TrimShrinks
    <3>. QED  BY <3>1, <3>2
  <2>. QED  BY <1>21, <1>0, <1>a, <2>1 DEF TrimShrinks, GoTo, counts, Memory
<1>22. ASSUME NEW c \in Consumers, PopSignals(c)
      PROVE  Memory'
  BY <1>22, <1>0, <1>a, PopWokenAsleep DEF PopSignals, GoToWaking, AwaitingElements,
     AwaitingRoom, shared, counts, Memory
<1>23. ASSUME NEW c \in Consumers, PopReturns(c)
      PROVE  Memory'
  BY <1>23, <1>0, <1>a, PopWokenAsleep DEF PopReturns, GoToWaking, AwaitingElements,
     AwaitingRoom, Return, shared, counts, Memory
<1>24. ASSUME NEW c \in Consumers, pipe_consumer_free(c)
      PROVE  Memory'
  BY <1>24, <1>0, <1>a DEF pipe_consumer_free, GoTo, shared, Memory
<1>25. ASSUME NEW c \in Consumers, ConsumerFreeChecks(c)
      PROVE  Memory'
  BY <1>25, <1>0, <1>a DEF ConsumerFreeChecks, GoTo, shared, counts, Memory
<1>26. ASSUME NEW p \in Producers, pipe_producer_new(p)
      PROVE  Memory'
  BY <1>26, <1>0, <1>a DEF pipe_producer_new, GoTo, shared, Memory
<1>27. ASSUME NEW c \in Consumers, pipe_consumer_new(c)
      PROVE  Memory'
  BY <1>27, <1>0, <1>a DEF pipe_consumer_new, GoTo, shared, Memory
<1>28. ASSUME NEW count \in ReserveCounts, pipe_reserve(Main, count)
      PROVE  Memory'
  BY <1>28, <1>0, <1>a DEF pipe_reserve, GoTo, shared, counts, Memory
<1>29. ASSUME ReserveLocksEnd(Main)
      PROVE  Memory'
  BY <1>29, <1>0, <1>a DEF ReserveLocksEnd, GoTo, shared, counts, Memory
<1>30. ASSUME ReserveSets(Main)
      PROVE  Memory'
  <2>1. buffer' = buffer
    <3>1. CASE want[Main] <= bytes_in_use(Pipe)
      BY <1>30, <3>1 DEF ReserveSets, shared
    <3>2. CASE ~ (want[Main] <= bytes_in_use(Pipe))
      BY <1>30, <3>2, <1>0, ReserveNeverResizes DEF ReserveSets
    <3>. QED  BY <3>1, <3>2
  <2>. QED  BY <1>30, <1>0, <1>a, <2>1 DEF ReserveSets, GoTo, counts, Memory
<1>31. ASSUME pipe_free
      PROVE  Memory'
  BY <1>31, <1>0, <1>a DEF pipe_free, GoTo, shared, Memory
<1>32. ASSUME PipeFreeDecides
      PROVE  Memory'
  <2>1. /\ pc[Main] = "pipe_free" /\ consumer_refcount' = consumer_refcount - 1
        /\ buffer' = IF consumer_refcount' = 0 THEN NULL ELSE buffer
        /\ \A t \in Threads : t # Main => pc'[t] = pc[t]
        /\ pc'[Main] # "cf_check" /\ (pc'[Main] = "deallocate" => consumer_refcount' = 0)
    BY <1>32, <1>0 DEF PipeFreeDecides, GoTo
  <2>. QED  BY <1>0, <1>a, <2>1 DEF Memory
<1>33. ASSUME NEW t \in Threads, WakeConsumers(t)
      PROVE  Memory'
  BY <1>33, <1>0, <1>a DEF WakeConsumers, GoToWaking, AwaitingElements, AwaitingRoom,
     shared, counts, Memory
<1>34. ASSUME NEW t \in Threads, WakeProducers(t)
      PROVE  Memory'
  BY <1>34, <1>0, <1>a DEF WakeProducers, GoToWaking, AwaitingElements, AwaitingRoom,
     shared, counts, Memory
<1>35. ASSUME NEW t \in Threads, deallocate(t)
      PROVE  Memory'
  BY <1>35, <1>0, <1>a DEF deallocate, GoTo, Memory
<1>36. ASSUME NEW t \in Threads, SpuriousWakeup(t)
      PROVE  Memory'
  BY <1>36, <1>0, <1>a DEF SpuriousWakeup, GoTo, shared, counts, Memory
<1>. QED
  BY <1>1, <1>2, <1>3, <1>4, <1>5, <1>6, <1>7, <1>8, <1>9, <1>10, <1>11, <1>12, <1>13,
     <1>14, <1>15, <1>16, <1>17, <1>18, <1>19, <1>20, <1>21, <1>22, <1>23, <1>24,
     <1>25, <1>26, <1>27, <1>28, <1>29, <1>30, <1>31, <1>32, <1>33, <1>34, <1>35,
     <1>36
  DEF Next, Producer, Consumer, Owner, Pushing, Popping, Freeing

---------------------------------------------------------------------------
(* The steps that move the pointers or change the size.                    *)

(* What is known of the pointers, the size and how much is in use.         *)
RingAndShape ==
  Ring(bufend, begin, end) /\ Shape /\ FewEnough

(* Nothing moved: what was true of the pointers still is.                  *)
LEMMA StillRing ==
  ASSUME PipeInv, UNCHANGED <<bufend, begin, end, sent>>,
         \/ UNCHANGED min_cap
         \/ /\ InitialCap <= 2 * min_cap' /\ min_cap' <= InitialCap
            /\ min_cap' \in ReserveSizes
  PROVE  RingAndShape'
<1>1. RingAndShape
  BY DEF PipeInv, QueueInv, RingAndShape
<1>2. SentBytes' = SentBytes
  BY DEF SentBytes
<1>3. Ring(bufend, begin, end)' /\ FewEnough'
  BY <1>1, <1>2 DEF RingAndShape, Ring, FewEnough, Used, View, bytes_in_use, wraps_around
<1>4. Shape'
  BY <1>1 DEF RingAndShape, Shape
<1>. QED  BY <1>3, <1>4 DEF RingAndShape

(* Growing keeps the pipe's contents and makes the room the caller wants,  *)
(* or all that the limit allows.                                           *)
LEMMA Grown ==
  ASSUME PipeInv, NEW p \in Producers, PushGrows(p)
  PROVE  /\ RingAndShape'
         /\ Used(bufend', begin', end') = Used(bufend, begin, end)
         /\ \/ Used(bufend, begin, end) + want[p] <= bufend' - ElemSize
            \/ bufend' - ElemSize = max_cap
<1>. DEFINE used == Used(bufend, begin, end)
            size == GrowSize(bytes_in_use(Pipe) + want[p])
<1>1. pc[p] = "push_grow" /\ sent' = sent /\ min_cap' = min_cap
  BY DEF PushGrows, client
<1>2. CASE PushFits(p)
  <2>1. UNCHANGED <<bufend, begin, end>>
    BY <1>2 DEF PushGrows
  <2>2. used + want[p] <= bufend - ElemSize
    BY <1>2, Usages DEF PushFits
  <2>. QED  BY <1>1, <2>1, <2>2, StillRing
<1>3. CASE ~ PushFits(p)
  <2>1. resize_buffer(size, min_cap)
    BY <1>3 DEF PushGrows
  <2>2. /\ Resizes(size, min_cap)
        /\ \E q \in PowersOfTwo : ResizeTo(size) = q * ElemSize
        /\ ResizeTo(size) \in Int
        /\ InitialCap <= ResizeTo(size) /\ ResizeTo(size) <= max_cap
        /\ ResizeTo(size) + ElemSize <= SizeMax
        /\ used < ResizeTo(size)
        /\ used + want[p] <= ResizeTo(size) \/ ResizeTo(size) = max_cap
    BY <1>1, <1>3, GrowTo
  <2>. HIDE DEF size
  <2>3. PICK q \in PowersOfTwo : ResizeTo(size) = q * ElemSize
    BY <2>2
  <2>4. Aligned(ResizeTo(size))
    <3>1. q \in Int
      BY BufferAssumption DEF PowersOfTwo
    <3>. QED  BY <2>3, <3>1, AlignedTimes
  <2>5. /\ Ring(bufend', begin', end')
        /\ Used(bufend', begin', end') = used
        /\ bufend' = ResizeTo(size) + ElemSize
    BY <2>1, <2>2, <2>4, ResizeRing
  <2>6. Shape'
    <3>1. /\ InitialCap <= 2 * min_cap /\ min_cap <= InitialCap
          /\ min_cap = InitialCap \/ min_cap \in ReserveSizes
      BY DEF PipeInv, QueueInv, Shape
    <3>2. \E r \in PowersOfTwo : bufend' = r * ElemSize + ElemSize
      BY <2>3, <2>5
    <3>3. bufend' >= InitialCap /\ bufend' - ElemSize <= max_cap
      BY <2>2, <2>5, PipeNewType, BufferAssumption
    <3>. QED  BY <1>1, <3>1, <3>2, <3>3 DEF Shape
  <2>7. FewEnough'
    <3>1. SentBytes' = SentBytes
      BY <1>1 DEF SentBytes
    <3>. QED  BY <3>1, <2>5 DEF FewEnough, PipeInv, QueueInv, Used, View
  <2>8. bufend' - ElemSize = ResizeTo(size)
    BY <2>2, <2>5, BufferAssumption
  <2>9. Ring(bufend, begin, end)'
    BY <2>5 DEF Ring, Aligned
  <2>. QED  BY <2>2, <2>5, <2>6, <2>7, <2>8, <2>9 DEF RingAndShape
<1>. QED  BY <1>2, <1>3

(* Copying into the pipe moves `end` on by what was copied.                *)
LEMMA CopiedIn ==
  ASSUME PipeInv, NEW p \in Producers, PushCopies(p)
  PROVE  /\ RingAndShape'
         /\ end' = Wrap(end + Pushed(p), bufend)
         /\ UNCHANGED <<bufend, begin, min_cap>>
         /\ Used(bufend, begin, end') = Used(bufend, begin, end) + Pushed(p)
<1>. DEFINE k == Pushed(p)
<1>1. /\ pc[p] = "push_copy" /\ UNCHANGED <<bufend, begin, min_cap>>
      /\ end' = PushedEnd(PushView(p), k) /\ sent' = [sent EXCEPT ![p] = @ + k]
  BY DEF PushCopies
<1>2. /\ k \in Int /\ 0 < k /\ Aligned(k) /\ k <= want[p]
      /\ Used(bufend, seen[p], end) + k <= bufend - ElemSize
      /\ Used(bufend, begin, end) + k <= bufend - ElemSize
  BY <1>1, PushAmount
<1>. HIDE DEF k
<1>3. Ring(bufend, seen[p], end) /\ Ring(bufend, begin, end)
  BY <1>1 DEF PipeInv, QueueInv, PushersSee
<1>4. end' = Wrap(end + k, bufend)
  BY <1>1, <1>2, <1>3, Views, PushLayout
<1>5. /\ Ring(bufend, begin, end')
      /\ Used(bufend, begin, end') = Used(bufend, begin, end) + k
  <2>1. /\ Ring(bufend, begin, Wrap(end + k, bufend))
        /\ Used(bufend, begin, Wrap(end + k, bufend)) = Used(bufend, begin, end) + k
    BY <1>2, <1>3, WrapEnd
  <2>. QED  BY <1>4, <2>1
<1>6. Shape'
  BY <1>1 DEF PipeInv, QueueInv, Shape
<1>7. FewEnough'
  <2>1. sent \in [Producers -> Int] /\ sent[p] \in Int /\ sent[p] >= 0
    BY DEF PipeInv, CloseInv, TypeOK, QueueInv, Wants
  <2>2. sent' = [sent EXCEPT ![p] = sent[p] + k] /\ sent'[p] = sent[p] + k
    BY <1>1, <2>1
  <2>3. SentBytes' = SentBytes \cup NextSent(p, k)
    <3>1. \A q \in Producers : q # p => sent'[q] = sent[q]
      BY <2>1, <2>2
    <3>2. 0 .. sent'[p] - 1 = (0 .. sent[p] - 1) \cup (sent[p] .. sent[p] + k - 1)
      BY <1>2, <2>1, <2>2
    <3>3. {p} \X (0 .. sent'[p] - 1) = ({p} \X (0 .. sent[p] - 1)) \cup NextSent(p, k)
      BY <3>2 DEF NextSent
    <3>4. SentBytes' = UNION {{q} \X (0 .. sent'[q] - 1) : q \in Producers}
      BY DEF SentBytes
    <3>5. ASSUME NEW x \in SentBytes' PROVE x \in SentBytes \cup NextSent(p, k)
      <4>1. PICK q \in Producers : x \in {q} \X (0 .. sent'[q] - 1)
        BY <3>4
      <4>. QED  BY <3>1, <3>3, <4>1 DEF SentBytes
    <3>6. ASSUME NEW x \in SentBytes PROVE x \in SentBytes'
      <4>1. PICK q \in Producers : x \in {q} \X (0 .. sent[q] - 1)
        BY DEF SentBytes
      <4>. QED  BY <3>1, <3>3, <3>4, <4>1
    <3>7. NextSent(p, k) \subseteq SentBytes'
      BY <3>3, <3>4
    <3>. QED  BY <3>5, <3>6, <3>7
  <2>4. Cardinality(SentBytes') = Cardinality(SentBytes) + k /\ Cardinality(SentBytes) \in Nat
    <3>1. /\ Cardinality(SentBytes \cup NextSent(p, k)) = Cardinality(SentBytes) + k
          /\ Cardinality(SentBytes) \in Nat
      <4>1. k \in Int /\ 0 <= k /\ k <= want[p]
        BY <1>2
      <4>. QED  BY <4>1, MoreSent, Zenon
    <3>. QED  BY <3>1, <2>3
  <2>5. Used(bufend, begin, end) <= Cardinality(SentBytes) /\ Used(bufend, begin, end) \in Int
    BY <1>3, UsedRange DEF PipeInv, QueueInv, FewEnough
  <2>. QED
    BY <1>1, <1>2, <1>5, <2>4, <2>5 DEF FewEnough, Used, View
<1>8. Ring(bufend, begin, end)'
  BY <1>1, <1>5 DEF Ring, Aligned
<1>. QED  BY <1>1, <1>4, <1>5, <1>6, <1>7, <1>8 DEF RingAndShape, k

(* Copying out of the pipe moves `begin` on by what was copied.            *)
LEMMA CopiedOut ==
  ASSUME PipeInv, NEW c \in Consumers, PopCopies(c)
  PROVE  /\ RingAndShape'
         /\ begin' = Wrap(begin + Popped(c), bufend)
         /\ UNCHANGED <<bufend, end, min_cap>>
         /\ Used(bufend, begin', end) = Used(bufend, begin, end) - Popped(c)
<1>. DEFINE k == Popped(c)
<1>1. /\ pc[c] = "pop_copy" /\ UNCHANGED <<bufend, end, min_cap, sent>>
      /\ begin' = PoppedBegin(PopView(c), k)
  BY DEF PopCopies, PopView, Pipe
<1>2. /\ k \in Int /\ 0 < k /\ Aligned(k)
      /\ k <= Used(bufend, begin, seen[c]) /\ k <= Used(bufend, begin, end)
  BY <1>1, PopAmount
<1>. HIDE DEF k
<1>3. Ring(bufend, begin, seen[c]) /\ Ring(bufend, begin, end)
  BY <1>1 DEF PipeInv, QueueInv, PoppersSee
<1>4. begin' = Wrap(begin + k, bufend)
  BY <1>1, <1>2, <1>3, Views, PopLayout
<1>5. /\ Ring(bufend, begin', end)
      /\ Used(bufend, begin', end) = Used(bufend, begin, end) - k
  <2>1. /\ Ring(bufend, Wrap(begin + k, bufend), end)
        /\ Used(bufend, Wrap(begin + k, bufend), end) = Used(bufend, begin, end) - k
    BY <1>2, <1>3, WrapBegin
  <2>. QED  BY <1>4, <2>1
<1>6. Shape'
  BY <1>1 DEF PipeInv, QueueInv, Shape
<1>7. FewEnough'
  <2>1. SentBytes' = SentBytes
    BY <1>1 DEF SentBytes
  <2>2. Used(bufend, begin, end) <= Cardinality(SentBytes) /\ Used(bufend, begin, end) \in Int
    BY <1>3, UsedRange DEF PipeInv, QueueInv, FewEnough
  <2>3. Cardinality(SentBytes) \in Nat
    BY SentCounted
  <2>. QED
    BY <1>1, <1>2, <1>5, <2>1, <2>2, <2>3 DEF FewEnough, Used, View
<1>8. Ring(bufend, begin, end)'
  BY <1>1, <1>5 DEF Ring, Aligned
<1>. QED  BY <1>1, <1>4, <1>5, <1>6, <1>7, <1>8 DEF RingAndShape, k

(* Trimming keeps the pipe's contents.                                     *)
LEMMA Trimmed ==
  ASSUME PipeInv, NEW c \in Consumers, TrimShrinks(c)
  PROVE  RingAndShape' /\ Used(bufend', begin', end') = Used(bufend, begin, end)
<1>. DEFINE used == Used(bufend, begin, end)
            size == capacity(Pipe) \div 2
<1>1. sent' = sent /\ min_cap' = min_cap
  BY DEF TrimShrinks, client
<1>2. CASE ~ (Sparse(Pipe) /\ Resizes(size, min_cap))
  <2>1. UNCHANGED <<bufend, begin, end>>
    BY <1>2 DEF TrimShrinks, resize_buffer
  <2>. QED  BY <1>1, <2>1, StillRing
<1>3. CASE Sparse(Pipe) /\ Resizes(size, min_cap)
  <2>1. resize_buffer(size, min_cap)
    BY <1>3 DEF TrimShrinks
  <2>2. PICK h \in PowersOfTwo :
          /\ ResizeTo(size) = h * ElemSize /\ h * ElemSize \in Int
          /\ InitialCap <= h * ElemSize /\ h * ElemSize <= max_cap
          /\ h * ElemSize + ElemSize <= SizeMax
          /\ used < h * ElemSize
    BY <1>3, TrimTo
  <2>. HIDE DEF size
  <2>3. Aligned(ResizeTo(size)) /\ ResizeTo(size) \in Int
    <3>1. h \in Int
      BY BufferAssumption DEF PowersOfTwo
    <3>. QED  BY <2>2, <3>1, AlignedTimes
  <2>4. /\ Ring(bufend', begin', end')
        /\ Used(bufend', begin', end') = used
        /\ bufend' = ResizeTo(size) + ElemSize
    BY <1>3, <2>1, <2>2, <2>3, ResizeRing
  <2>5. Shape'
    <3>1. /\ InitialCap <= 2 * min_cap /\ min_cap <= InitialCap
          /\ min_cap = InitialCap \/ min_cap \in ReserveSizes
      BY DEF PipeInv, QueueInv, Shape
    <3>2. bufend' = h * ElemSize + ElemSize
      BY <2>2, <2>4
    <3>3. bufend' >= InitialCap /\ bufend' - ElemSize <= max_cap
      BY <2>2, <2>3, <2>4, PipeNewType, BufferAssumption
    <3>. QED  BY <1>1, <3>1, <3>2, <3>3 DEF Shape
  <2>6. FewEnough'
    <3>1. SentBytes' = SentBytes
      BY <1>1 DEF SentBytes
    <3>. QED  BY <3>1, <2>4 DEF FewEnough, PipeInv, QueueInv, Used, View
  <2>7. Ring(bufend, begin, end)'
    BY <2>4 DEF Ring, Aligned
  <2>. QED  BY <2>4, <2>5, <2>6, <2>7 DEF RingAndShape
<1>. QED  BY <1>2, <1>3

(* Every step keeps the pointers in order.                                 *)
LEMMA RingStep ==
  ASSUME PipeInv, [Next]_vars
  PROVE  RingAndShape'
<1>1. CASE UNCHANGED <<bufend, begin, end, min_cap, sent>>
  BY <1>1, StillRing
<1>2. CASE ReserveSets(Main)
  <2>1. /\ pc[Main] = "reserve_begin" /\ sent' = sent /\ want[Main] \in Int
    BY <1>2 DEF ReserveSets, client, PipeInv, CloseInv, TypeOK, Threads
  <2>2. /\ want[Main] \in ReserveSizes
        /\ InitialCap <= 2 * want[Main] /\ want[Main] <= InitialCap
    <3>1. want[Main] \in ReserveSizes
      BY <2>1 DEF PipeInv, QueueInv, Wants, ReservePcs
    <3>. QED  BY <3>1, SizesAssumption
  <2>3. CASE want[Main] <= bytes_in_use(Pipe)
    BY <1>2, <2>1, <2>3, StillRing DEF ReserveSets, shared
  <2>4. CASE ~ (want[Main] <= bytes_in_use(Pipe))
    <3>1. min_cap' = MinOf(want[Main], max_cap) /\ UNCHANGED <<bufend, begin, end>>
      BY <1>2, <2>1, <2>4, ReserveNeverResizes DEF ReserveSets
    <3>2. InitialCap <= max_cap
      BY PipeNewType, SizesAssumption DEF max_cap
    <3>3. /\ InitialCap <= 2 * min_cap' /\ min_cap' <= InitialCap
          /\ min_cap' \in ReserveSizes
      <4>1. min_cap' = want[Main]
        BY <2>1, <2>2, <3>1, <3>2, PipeNewType DEF MinOf
      <4>. QED  BY <2>2, <4>1
    <3>. QED  BY <2>1, <3>1, <3>3, StillRing
  <2>. QED  BY <2>3, <2>4
<1>. QED  BY <1>1, <1>2, Grown, CopiedIn, CopiedOut, Trimmed, PointersMove

(* Every step keeps what the pushers have seen older than what is.         *)
LEMMA PushersStep ==
  ASSUME PipeInv, [Next]_vars
  PROVE  PushersSee'
<1>0. /\ pc \in [Threads -> Pcs] /\ want \in [Threads -> Nat] /\ seen \in [Threads -> Int]
      /\ NoThread \notin Threads /\ Producers \subseteq Threads /\ Consumers \subseteq Threads
      /\ Producers \cap Consumers = {} /\ Main \notin Producers
  BY PipeAssumption DEF TypeOK, Threads, PipeInv, CloseInv
<1>1. Ring(bufend, begin, end) /\ PushersSee /\ LockOwnership
  BY DEF PipeInv, CloseInv, QueueInv
<1>. DEFINE used == Used(bufend, begin, end)
            Sees(p) ==
              /\ pc[p] \in {"push_grow", "push_copy"} =>
                   /\ Ring(bufend, seen[p], end) /\ consumer_refcount > 0
                   /\ used <= Used(bufend, seen[p], end)
                   /\ Used(bufend, seen[p], end) < max_cap
              /\ pc[p] = "push_copy" =>
                   \/ Used(bufend, seen[p], end) + want[p] <= bufend - ElemSize
                   \/ bufend - ElemSize = max_cap
<1>2. SUFFICES ASSUME NEW p \in Producers, pc'[p] \in {"push_grow", "push_copy"}
               PROVE  Sees(p)'
  BY DEF PushersSee
<1>3. CASE PushBegins(p)
  <2>1. /\ UNCHANGED <<bufend, begin, end, want, consumer_refcount>>
        /\ seen' = [seen EXCEPT ![p] = begin]
        /\ consumer_refcount > 0 /\ bytes_in_use(Pipe) # max_cap
        /\ pc'[p] = "push_copy" => PushFits(p)
    BY <1>3, <1>0 DEF PushBegins, GoTo, shared, counts
  <2>2. seen'[p] = begin
    BY <2>1, <1>0
  <2>3. used \in Int /\ used <= bufend - ElemSize /\ bufend \in Int
    BY <1>1, UsedRange DEF Ring
  <2>4. bufend - ElemSize <= max_cap /\ max_cap \in Int /\ ElemSize \in Int
    BY PipeNewType, BufferAssumption DEF PipeInv, QueueInv, Shape
  <2>5. used < max_cap
    <3>1. used # max_cap
      BY <2>1, Usages
    <3>. HIDE DEF used
    <3>. QED  BY <2>3, <2>4, <3>1
  <2>6. pc'[p] = "push_copy" => used + want[p] <= bufend - ElemSize
    BY <2>1, Usages DEF PushFits
  <2>7. Ring(bufend, seen[p], end)' /\ Used(bufend, seen[p], end)' = used
    BY <1>1, <2>1, <2>2 DEF Ring, Aligned, Used, View, bytes_in_use, wraps_around
  <2>8. used' = used
    BY <2>1 DEF Used, View, bytes_in_use, wraps_around
  <2>. QED
    BY <2>1, <2>3, <2>5, <2>6, <2>7, <2>8
<1>4. CASE PushGrows(p)
  <2>1. /\ pc[p] = "push_grow" /\ seen' = [seen EXCEPT ![p] = begin']
        /\ UNCHANGED <<want, consumer_refcount>>
    BY <1>4 DEF PushGrows, counts
  <2>2. seen'[p] = begin'
    BY <2>1, <1>0
  <2>3. /\ RingAndShape' /\ used' = used
        /\ used + want[p] <= bufend' - ElemSize \/ bufend' - ElemSize = max_cap
    BY <1>4, Grown DEF Used, View, bytes_in_use, wraps_around
  <2>4. used \in Int /\ Used(bufend, seen[p], end) \in Int
    BY <1>1, <2>1, UsedRange DEF PushersSee
  <2>5. used < max_cap /\ consumer_refcount > 0
    BY <1>1, <2>1, <2>4, PipeNewType DEF PushersSee
  <2>6. Ring(bufend, seen[p], end)' /\ Used(bufend, seen[p], end)' = used'
    BY <2>2, <2>3 DEF RingAndShape, Ring, Aligned, Used, View, bytes_in_use, wraps_around
  <2>. QED  BY <2>1, <2>3, <2>4, <2>5, <2>6
<1>5. CASE SameCall(p)
  <2>1. pc[p] \in {"push_grow", "push_copy"} /\ seen'[p] = seen[p] /\ want'[p] = want[p]
    BY <1>2, <1>5 DEF SameCall
  <2>2. end_lock = p /\ p # NoThread
    BY <1>0, <1>1, <2>1 DEF LockOwnership, HoldsEnd
  <2>3. consumer_refcount' = consumer_refcount
    BY <2>2, ConsumersChange
  <2>4. /\ Ring(bufend, seen[p], end) /\ consumer_refcount > 0
        /\ used <= Used(bufend, seen[p], end) /\ Used(bufend, seen[p], end) < max_cap
        /\ pc[p] = "push_copy" =>
             \/ Used(bufend, seen[p], end) + want[p] <= bufend - ElemSize
             \/ bufend - ElemSize = max_cap
    BY <1>1, <2>1 DEF PushersSee
  <2>5. ASSUME bufend' = bufend, end' = end, used' <= used, used' \in Int
        PROVE  Sees(p)'
    <3>1. Ring(bufend, seen[p], end)' /\ Used(bufend, seen[p], end)' = Used(bufend, seen[p], end)
      BY <2>1, <2>4, <2>5 DEF Ring, Aligned, Used, View, bytes_in_use, wraps_around
    <3>2. used \in Int /\ Used(bufend, seen[p], end) \in Int
      BY <1>1, <2>4, UsedRange
    <3>3. used' <= Used(bufend, seen[p], end)
      BY <2>4, <2>5, <3>2
    <3>. HIDE DEF used
    <3>. QED  BY <1>5, <2>1, <2>3, <2>4, <2>5, <3>1, <3>3 DEF SameCall
  <2>6. CASE UNCHANGED <<bufend, begin, end, min_cap, sent>>
    <3>1. used' = used
      BY <2>6 DEF Used, View, bytes_in_use, wraps_around
    <3>2. used \in Int
      BY <1>1, UsedRange
    <3>. QED  BY <2>5, <2>6, <3>1, <3>2
  <2>7. ASSUME NEW q \in Producers, PushGrows(q) \/ PushCopies(q) PROVE FALSE
    <3>1. pc[q] \in {"push_grow", "push_copy"} /\ pc'[q] # pc[q]
      BY <1>0, <2>7 DEF PushGrows, PushCopies, GoTo
    <3>2. end_lock = q
      BY <1>0, <1>1, <3>1 DEF LockOwnership, HoldsEnd
    <3>. QED  BY <1>5, <2>2, <3>1, <3>2 DEF SameCall
  <2>8. ASSUME NEW c \in Consumers, PopCopies(c) PROVE Sees(p)'
    <3>1. pc[c] = "pop_copy" /\ UNCHANGED <<bufend, end>>
          /\ Used(bufend, begin', end) = used - Popped(c)
      BY <2>8, CopiedOut DEF PopCopies
    <3>2. Popped(c) \in Int /\ 0 < Popped(c) /\ used \in Int
      BY <1>1, <3>1, PopAmount, UsedRange
    <3>3. used' = Used(bufend, begin', end)
      BY <3>1 DEF Used, View, bytes_in_use, wraps_around
    <3>. QED  BY <2>5, <3>1, <3>2, <3>3
  <2>9. ASSUME NEW c \in Consumers, TrimShrinks(c) PROVE FALSE
    <3>1. pc[c] = "trim_begin"
      BY <2>9 DEF TrimShrinks
    <3>. QED  BY <1>0, <1>1, <2>2, <3>1 DEF LockOwnership, HoldsEnd
  <2>10. ASSUME ReserveSets(Main) PROVE FALSE
    <3>1. pc[Main] = "reserve_begin" /\ Main \in Threads
      BY <2>10 DEF ReserveSets, Threads
    <3>. QED  BY <1>0, <1>1, <2>2, <3>1 DEF LockOwnership, HoldsEnd
  <2>. QED  BY <2>6, <2>7, <2>8, <2>9, <2>10, PointersMove
<1>. QED
  BY <1>0, <1>2, <1>3, <1>4, <1>5, SnapshotTaken DEF FromSnapshot

(* Every step keeps what the poppers have seen older than what is.         *)
LEMMA PoppersStep ==
  ASSUME PipeInv, [Next]_vars
  PROVE  PoppersSee'
<1>0. /\ pc \in [Threads -> Pcs] /\ want \in [Threads -> Nat] /\ seen \in [Threads -> Int]
      /\ NoThread \notin Threads /\ Producers \subseteq Threads /\ Consumers \subseteq Threads
      /\ Producers \cap Consumers = {} /\ Main \notin Producers
  BY PipeAssumption DEF TypeOK, Threads, PipeInv, CloseInv
<1>1. Ring(bufend, begin, end) /\ PoppersSee /\ LockOwnership
  BY DEF PipeInv, CloseInv, QueueInv
<1>. DEFINE used == Used(bufend, begin, end)
            Sees(c) ==
              /\ Ring(bufend, begin, seen[c])
              /\ 0 < Used(bufend, begin, seen[c])
              /\ Used(bufend, begin, seen[c]) <= used
<1>2. SUFFICES ASSUME NEW c \in Consumers, pc'[c] = "pop_copy"
               PROVE  Sees(c)'
  BY DEF PoppersSee
<1>3. CASE PopBegins(c)
  <2>1. /\ UNCHANGED <<bufend, begin, end>> /\ seen' = [seen EXCEPT ![c] = end]
        /\ bytes_in_use(Pipe) # 0
    BY <1>3 DEF PopBegins, shared
  <2>2. seen'[c] = end
    BY <2>1, <1>0
  <2>3. used \in Int /\ 0 <= used /\ used # 0
    BY <1>1, <2>1, UsedRange, Usages
  <2>4. Ring(bufend, begin, seen[c])' /\ Used(bufend, begin, seen[c])' = used
    BY <1>1, <2>1, <2>2 DEF Ring, Aligned, Used, View, bytes_in_use, wraps_around
  <2>5. used' = used
    BY <2>1 DEF Used, View, bytes_in_use, wraps_around
  <2>. QED  BY <2>3, <2>4, <2>5
<1>4. CASE SameCall(c)
  <2>1. pc[c] = "pop_copy" /\ seen'[c] = seen[c]
    BY <1>2, <1>4 DEF SameCall
  <2>2. begin_lock = c /\ begin_lock # NoThread
    BY <1>0, <1>1, <2>1 DEF LockOwnership, HoldsBegin
  <2>3. /\ Ring(bufend, begin, seen[c]) /\ 0 < Used(bufend, begin, seen[c])
        /\ Used(bufend, begin, seen[c]) <= used
    BY <1>1, <2>1 DEF PoppersSee
  <2>4. ASSUME bufend' = bufend, begin' = begin, used <= used', used' \in Int
        PROVE  Sees(c)'
    <3>1. Ring(bufend, begin, seen[c])'
          /\ Used(bufend, begin, seen[c])' = Used(bufend, begin, seen[c])
      BY <2>1, <2>3, <2>4 DEF Ring, Aligned, Used, View, bytes_in_use, wraps_around
    <3>2. used \in Int /\ Used(bufend, begin, seen[c]) \in Int
      BY <1>1, <2>3, UsedRange
    <3>. QED  BY <2>3, <2>4, <3>1, <3>2
  <2>5. CASE UNCHANGED <<bufend, begin, end, min_cap, sent>>
    <3>1. used' = used
      BY <2>5 DEF Used, View, bytes_in_use, wraps_around
    <3>2. used \in Int
      BY <1>1, UsedRange
    <3>. QED  BY <2>4, <2>5, <3>1, <3>2
  <2>6. ASSUME NEW p \in Producers, PushCopies(p) PROVE Sees(c)'
    <3>1. pc[p] = "push_copy" /\ UNCHANGED <<bufend, begin>>
          /\ Used(bufend, begin, end') = used + Pushed(p)
      BY <2>6, CopiedIn DEF PushCopies
    <3>2. Pushed(p) \in Int /\ 0 < Pushed(p) /\ used \in Int
      BY <1>1, <3>1, PushAmount, UsedRange
    <3>3. used' = Used(bufend, begin, end')
      BY <3>1 DEF Used, View, bytes_in_use, wraps_around
    <3>. QED  BY <2>4, <3>1, <3>2, <3>3
  <2>7. ASSUME NEW d \in Consumers, PopCopies(d) PROVE FALSE
    <3>1. pc[d] = "pop_copy" /\ pc'[d] # "pop_copy"
      BY <1>0, <2>7 DEF PopCopies, GoTo
    <3>2. begin_lock = d
      BY <1>0, <1>1, <3>1 DEF LockOwnership, HoldsBegin
    <3>. QED  BY <1>2, <2>2, <3>1, <3>2
  <2>8. ~ (\E p \in Producers : PushGrows(p)) /\ ~ (\E d \in Consumers : TrimShrinks(d))
        /\ ~ ReserveSets(Main)
    BY <2>2 DEF PushGrows, TrimShrinks, ReserveSets
  <2>. QED  BY <2>5, <2>6, <2>7, <2>8, PointersMove
<1>. QED
  BY <1>0, <1>2, <1>3, <1>4, SnapshotTaken DEF FromSnapshot

---------------------------------------------------------------------------
(* The buffer pipe_new makes: empty, with the sentinel in front.           *)
LEMMA QueueInit == Init => QueueInv
<1>. SUFFICES ASSUME Init PROVE QueueInv
  OBVIOUS
<1>1. /\ InitialCap \in Int /\ InitialCap >= 2 * ElemSize /\ Aligned(InitialCap)
      /\ InitialCap <= SizeMax /\ InitialCap <= max_cap /\ ElemSize \in Int /\ 0 < ElemSize
  <2>1. DefaultMincap >= 2
    BY SizesAssumption, BufferAssumption
  <2>2. DefaultMincap * ElemSize >= 2 * ElemSize
    BY <2>1, BufferAssumption
  <2>3. Aligned(DefaultMincap * ElemSize)
    BY AlignedTimes, BufferAssumption
  <2>4. InitialCap <= max_cap
    BY PipeNewType, SizesAssumption DEF max_cap
  <2>. QED  BY <2>2, <2>3, <2>4, PipeNewType, SizesAssumption, BufferAssumption DEF InitialCap
<1>2. /\ bufend = InitialCap /\ begin = 0 /\ end = ElemSize /\ min_cap = InitialCap
      /\ pc = [t \in Threads |-> IF t = Main THEN "idle" ELSE "unborn"]
      /\ want = [t \in Threads |-> 0] /\ consumer_refcount = 1
      /\ budget = [p \in Producers |-> Elements] /\ sent = [p \in Producers |-> 0]
      /\ buffer = [a \in 0 .. InitialCap - 1 |-> Junk]
  BY DEF Init
<1>3. Ring(bufend, begin, end) /\ Used(bufend, begin, end) = 0
  <2>1. Used(InitialCap, 0, ElemSize) = 0
    BY <1>1 DEF Used, View, bytes_in_use, wraps_around
  <2>. QED  BY <1>1, <1>2, <2>1, AlignedZero DEF Ring
<1>4. Shape
  BY <1>1, <1>2, PipeNewType DEF Shape
<1>5. \A t \in Threads : pc[t] \in {"idle", "unborn"}
  BY <1>2
<1>6. Wants
  <2>1. \A p \in Producers : budget[p] = Elements /\ sent[p] = 0 /\ want[p] = 0
    BY <1>2 DEF Threads
  <2>2. \A t \in Producers \cup Consumers : Aligned(want[t])
    BY <1>2, AlignedZero DEF Threads
  <2>3. Elements * ElemSize \in Nat
    BY PipeAssumption, BufferAssumption
  <2>. QED
    BY <1>5, <2>1, <2>2, <2>3 DEF Wants, PushPcs, ReservePcs, Threads
<1>7. PushersSee /\ PoppersSee
  BY <1>5 DEF PushersSee, PoppersSee, Threads
<1>8. Memory
  <2>1. 0 \in DOMAIN buffer
    BY <1>1, <1>2
  <2>2. buffer # NULL
    BY <2>1 DEF NULL
  <2>. QED  BY <1>5, <2>2 DEF Memory
<1>9. FewEnough
  <2>1. SentBytes = {}
    BY <1>2 DEF SentBytes
  <2>. QED  BY <1>3, <2>1, FS_EmptySet DEF FewEnough
<1>. QED  BY <1>3, <1>4, <1>6, <1>7, <1>8, <1>9 DEF QueueInv

(* The inductive invariant of the pipe.                                    *)
LEMMA PipeInit == Init => PipeInv
BY CloseInit, QueueInit DEF PipeInv

LEMMA PipeStep == PipeInv /\ [Next]_vars => PipeInv'
<1>. SUFFICES ASSUME PipeInv, [Next]_vars PROVE PipeInv'
  OBVIOUS
<1>1. CloseInv'
  BY CloseStep DEF PipeInv
<1>2. RingAndShape' /\ Wants' /\ PushersSee' /\ PoppersSee' /\ Memory'
  BY RingStep, WantsStep, PushersStep, PoppersStep, MemoryStep
<1>. QED  BY <1>1, <1>2 DEF PipeInv, QueueInv, RingAndShape

---------------------------------------------------------------------------
(* What the invariant says of the copies.                                  *)

(* A pusher writes each of its bytes to an address of its own, in memory,  *)
(* and never over the sentinel or a byte that has not been popped.         *)
LEMMA WritesAreSafe ==
  ASSUME PipeInv, NEW p \in Producers, pc[p] = "push_copy"
  PROVE  WriteSafe(p)
<1>. DEFINE k == Pushed(p)
            addr == [i \in 0 .. k - 1 |-> Wrap(end + i, bufend)]
            written == {PushAddr(PushView(p), k, i) : i \in 0 .. k - 1}
<1>1. /\ k \in Int /\ 0 < k /\ Used(bufend, seen[p], end) + k <= bufend - ElemSize
      /\ Used(bufend, begin, end) + k <= bufend - ElemSize
  BY PushAmount
<1>2. Ring(bufend, seen[p], end) /\ Ring(bufend, begin, end) /\ consumer_refcount > 0
  BY DEF PipeInv, QueueInv, PushersSee
<1>. HIDE DEF k
<1>3. \A i \in 0 .. k - 1 : PushAddr(PushView(p), k, i) = Wrap(end + i, bufend)
  BY <1>1, <1>2, Views, PushLayout
<1>4. written = {addr[i] : i \in 0 .. k - 1}
  BY <1>3
<1>5. ASSUME NEW i \in 0 .. k - 1
      PROVE  /\ addr[i] \in 0 .. bufend - 1
             /\ \A j \in 0 .. ElemSize - 1 : addr[i] # begin + j
             /\ \A j \in 0 .. Used(bufend, begin, end) - 1 :
                  addr[i] # Wrap(begin + ElemSize + j, bufend)
             /\ \A j \in 0 .. k - 1 : addr[i] = addr[j] => i = j
  BY <1>1, <1>2, FreeRoom
<1>. HIDE DEF addr
<1>6. Cardinality(written) = k
  <2>1. IsFiniteSet(0 .. k - 1) /\ Cardinality(0 .. k - 1) = k
    <3>1. PICK b \in Int : b = k - 1
      BY <1>1
    <3>2. IsFiniteSet(0 .. b) /\ Cardinality(0 .. b) = IF 0 > b THEN 0 ELSE b - 0 + 1
      BY FS_Interval
    <3>3. (IF 0 > b THEN 0 ELSE b - 0 + 1) = k
      BY <1>1, <3>1
    <3>. QED  BY <3>1, <3>2, <3>3
  <2>2. addr \in [0 .. k - 1 -> written]
    BY <1>4 DEF addr
  <2>3. \A i, j \in 0 .. k - 1 : addr[i] = addr[j] => i = j
    BY <1>5
  <2>4. \A a \in written : \E i \in 0 .. k - 1 : addr[i] = a
    BY <1>4
  <2>. HIDE DEF written
  <2>5. ExistsBijection(0 .. k - 1, written)
    BY <2>2, <2>3, <2>4 DEF ExistsBijection, Bijection, Injection, Surjection, IsInjective
  <2>. QED  BY <2>1, <2>5, FS_Bijection
<1>7. written \subseteq DOMAIN buffer
  <2>1. DOMAIN buffer = 0 .. bufend - 1
    BY <1>2 DEF PipeInv, CloseInv, TypeOK, QueueInv, Memory
  <2>. QED  BY <1>4, <1>5, <2>1
<1>8. \A x \in LiveAddrs(Pipe) :
        \E j \in 0 .. Used(bufend, begin, end) - 1 : x = Wrap(begin + ElemSize + j, bufend)
  <2>1. /\ Used(bufend, begin, end) \in Int /\ bufend \in Int /\ ElemSize \in Int
        /\ 0 < ElemSize /\ Used(bufend, begin, end) <= bufend - ElemSize
    BY <1>2, UsedRange, BufferAssumption DEF Ring
  <2>2. \A j \in 0 .. Used(bufend, begin, end) - 1 :
          LiveAddr(Pipe, j) = Wrap(begin + ElemSize + j, bufend)
    BY <1>2, <2>1, Views, LiveLayout
  <2>. QED  BY <2>2, Usages DEF LiveAddrs
<1>9. \A x \in Sentinel : \E j \in 0 .. ElemSize - 1 : x = begin + j
  BY <1>2, LiveLayout DEF Sentinel
<1>10. written \cap (LiveAddrs(Pipe) \cup Sentinel) = {}
  <2>1. SUFFICES ASSUME NEW x \in written, x \in LiveAddrs(Pipe) \cup Sentinel
                 PROVE  FALSE
    OBVIOUS
  <2>2. PICK i \in 0 .. k - 1 : x = addr[i]
    BY <1>4
  <2>. QED  BY <1>5, <1>8, <1>9, <2>1, <2>2
<1>. QED  BY <1>1, <1>6, <1>7, <1>10 DEF WriteSafe, k

(* A popper reads the oldest bytes of the pipe, in order.                  *)
LEMMA ReadsAreSafe ==
  ASSUME PipeInv, NEW c \in Consumers, pc[c] = "pop_copy"
  PROVE  ReadSafe(c)
<1>. DEFINE k == Popped(c)
<1>1. /\ k \in Int /\ 0 < k /\ k <= Used(bufend, begin, seen[c])
      /\ k <= Used(bufend, begin, end)
  BY PopAmount
<1>2. Ring(bufend, begin, seen[c]) /\ Ring(bufend, begin, end)
  BY DEF PipeInv, QueueInv, PoppersSee
<1>. HIDE DEF k
<1>3. \A i \in 0 .. k - 1 : PopAddr(PopView(c), k, i) = Wrap(begin + ElemSize + i, bufend)
  BY <1>1, <1>2, Views, PopLayout
<1>4. \A i \in 0 .. k - 1 : LiveAddr(Pipe, i) = Wrap(begin + ElemSize + i, bufend)
  <2>1. /\ Used(bufend, begin, end) \in Int /\ bufend \in Int /\ ElemSize \in Int
        /\ 0 < ElemSize /\ Used(bufend, begin, end) <= bufend - ElemSize
    BY <1>2, UsedRange, BufferAssumption DEF Ring
  <2>. QED  BY <1>1, <1>2, <2>1, Views, LiveLayout
<1>. QED  BY <1>1, <1>3, <1>4, Usages DEF ReadSafe, k

(* However pushes, pops, growth and trimming interleave, no copy touches a *)
(* byte that is not its own.                                               *)
THEOREM CopiesAreSafe == Spec => []BufferSafe
<1>1. PipeInv => BufferSafe
  BY WritesAreSafe, ReadsAreSafe DEF BufferSafe
<1>. QED  BY <1>1, PipeInit, PipeStep, PTL DEF Spec

(* A buffer smaller than max_cap has room for the sentinel within it.      *)
LEMMA WithinLimit ==
  ASSUME PipeInv
  PROVE  bufend <= max_cap \/ bufend - ElemSize = max_cap
<1>1. /\ bufend \in Int /\ Aligned(bufend) /\ bufend <= SizeMax
      /\ bufend - ElemSize <= max_cap
  BY DEF PipeInv, QueueInv, Ring, Shape
<1>2. max_cap \in Int /\ ElemSize \in Int
  BY PipeNewType, BufferAssumption
<1>3. CASE Limit = 0
  BY <1>1, <1>3 DEF max_cap
<1>4. CASE Limit # 0
  <2>1. PICK r \in PowersOfTwo : max_cap = r * ElemSize
    BY <1>4, MaxCapElements
  <2>2. Aligned(max_cap)
    <3>1. r \in Int
      BY BufferAssumption DEF PowersOfTwo
    <3>. QED  BY <2>1, <3>1, AlignedTimes
  <2>3. Aligned(bufend - ElemSize) /\ bufend - ElemSize \in Int
    BY <1>1, <1>2, AlignedSum, AlignedZero
  <2>4. CASE bufend - ElemSize < max_cap
    <3>1. bufend - ElemSize + ElemSize <= max_cap
      BY <1>2, <2>2, <2>3, <2>4, AlignedGap
    <3>. QED  BY <1>1, <1>2, <3>1
  <2>5. CASE ~ (bufend - ElemSize < max_cap)
    BY <1>1, <1>2, <2>3, <2>5
  <2>. QED  BY <2>4, <2>5
<1>. QED  BY <1>3, <1>4

(* Who runs check_invariants has a handle that keeps the buffer: consumers *)
(* and the owner their own, a pusher one it has seen and that cannot go    *)
(* while it holds end_lock.                                                *)
LEMMA CheckedWithConsumers ==
  ASSUME PipeInv, NEW t \in Threads, pc[t] \in Checking
  PROVE  buffer # NULL /\ consumer_refcount > 0
<1>1. consumer_refcount > 0
  <2>1. CASE t \in Producers
    <3>1. pc[t] = "push_grow"
      BY <2>1, PipeAssumption DEF PipeInv, CloseInv, Roles, Checking, PushPcs
    <3>. QED  BY <2>1, <3>1 DEF PipeInv, QueueInv, PushersSee
  <2>2. CASE t \in Consumers \cup {Main}
    <3>1. t \in ConsumerHandles
      BY <2>2 DEF Checking, ConsumerHandles, Gone, FreePcs
    <3>2. IsFiniteSet(ConsumerHandles)
      BY HandlesFinite
    <3>. QED  BY <3>1, <3>2, FS_EmptySet, FS_CardinalityType DEF PipeInv, CloseInv, RefCounts
  <2>. QED  BY <2>1, <2>2 DEF Threads
<1>. QED  BY <1>1 DEF PipeInv, QueueInv, Memory

(* check_invariants in every state, not only where it is called, as far as *)
(* the code keeps it: what lines 517 and 518 say beyond this is false.     *)
THEOREM InvariantsAreKept == Spec => []CheckInvariants
<1>1. ASSUME PipeInv PROVE CheckInvariants
  <2>. DEFINE used == Used(bufend, begin, end)
  <2>1. Ring(bufend, begin, end)
    BY <1>1 DEF PipeInv, QueueInv
  <2>2. used \in Int /\ 0 <= used /\ used <= bufend - ElemSize
    BY <2>1, UsedRange
  <2>3. begin \in 0 .. bufend - 1 /\ end \in 0 .. bufend - 1 /\ bufend \in Int
    BY <2>1 DEF Ring
  <2>4. \A x \in {begin, end, bufend} : x % ElemSize = 0
    BY <2>1, AlignedMod DEF Ring
  <2>5. begin = end => used = bufend - ElemSize
    BY <2>3, BufferAssumption DEF Used, View, bytes_in_use, wraps_around
  <2>6. buffer # NULL => DOMAIN buffer = 0 .. bufend - 1
    BY <1>1 DEF PipeInv, CloseInv, TypeOK
  <2>7. /\ min_cap <= InitialCap /\ InitialCap <= bufend /\ InitialCap \in Int
        /\ min_cap \in Int /\ ElemSize \in Int /\ max_cap \in Int
        /\ min_cap = InitialCap \/ min_cap \in ReserveSizes
    BY <1>1, PipeNewType, BufferAssumption DEF PipeInv, QueueInv, Shape, CloseInv, TypeOK
  <2>8. min_cap <= max_cap
    <3>1. InitialCap <= max_cap
      BY PipeNewType, SizesAssumption DEF max_cap
    <3>. QED  BY <2>7, <3>1
  <2>9. min_cap < InitialCap => min_cap \in ReserveSizes
    BY <2>7
  <2>10. min_cap <= bufend - ElemSize + ElemSize
    BY <2>3, <2>7
  <2>11. bufend - ElemSize + ElemSize <= max_cap \/ bufend - ElemSize = max_cap
    BY <1>1, <2>3, <2>7, WithinLimit
  <2>12. \A t \in Threads : pc[t] \in Checking => buffer # NULL /\ consumer_refcount > 0
    BY <1>1, CheckedWithConsumers
  <2>13. bufend - ElemSize \in Int
    BY <2>3, <2>7
  <2>. HIDE DEF used
  <2>. QED
    BY <2>2, <2>3, <2>4, <2>5, <2>6, <2>8, <2>9, <2>10, <2>11, <2>12, <2>13, Usages
    DEF CheckInvariants, used
<1>2. PipeInv => CheckInvariants
  BY <1>1
<1>. QED  BY <1>2, PipeInit, PipeStep, PTL DEF Spec
=============================================================================
