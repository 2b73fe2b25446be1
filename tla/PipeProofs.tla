---------------------------- MODULE PipeProofs ----------------------------
(***************************************************************************)
(* What the arithmetic of PipeBuffer returns, type correctness of the pipe,*)
(* who owns its locks, and that a snapshot taken under one lock stays      *)
(* valid: for any threads, element size, limit and arguments that satisfy  *)
(* the assumptions of Pipe and PipeBuffer.                                 *)
(***************************************************************************)
EXTENDS PipeProps, FiniteSetTheorems, WellFoundedInduction, TLAPS

(* A non-empty set of naturals has a least element.                        *)
LEMMA LeastNat ==
  ASSUME NEW S \in SUBSET Nat, S # {}
  PROVE  \E p \in S : \A q \in S : p <= q
<1>. DEFINE R == OpToRel(<, Nat)
<1>1. IsWellFoundedOn(R, Nat)
  BY NatLessThanWellFounded
<1>2. PICK p \in S : \A q \in S : ~ (<<q, p>> \in R)
  <2>. HIDE DEF R
  <2>. QED  BY <1>1, WFMin
<1>3. ASSUME NEW q \in S, q < p
      PROVE  <<q, p>> \in R
  <2>1. <<q, p>> \in Nat \X Nat
    OBVIOUS
  <2>2. <<q, p>>[1] < <<q, p>>[2]
    BY <1>3
  <2>. QED  BY <2>1, <2>2, Zenon DEF OpToRel
<1>4. \A q \in S : ~ (q < p)
  <2>. HIDE DEF R
  <2>. QED  BY <1>2, <1>3, Zenon
<1>5. \A q \in S : p <= q
  BY <1>4
<1>. QED  BY <1>5

(* next_pow2 returns a size_t no smaller than its argument, whether or not *)
(* rounding up overflows.                                                  *)
LEMMA NextPow2Type ==
  ASSUME NEW b \in Nat
  PROVE  next_pow2(b) \in Nat /\ next_pow2(b) >= b
<1>. DEFINE up == {p \in PowersOfTwo : p >= b}
<1>1. CASE up = {}
  BY <1>1 DEF next_pow2
<1>2. CASE up # {}
  <2>1. up \in SUBSET Nat
    BY BufferAssumption DEF PowersOfTwo
  <2>2. \E p \in up : \A q \in up : p <= q
    <3>. HIDE DEF up
    <3>. QED  BY <1>2, <2>1, LeastNat
  <2>3. (CHOOSE p \in up : \A q \in up : p <= q) \in up
    BY <2>2
  <2>. QED  BY <1>2, <2>1, <2>3 DEF next_pow2
<1>. QED  BY <1>1, <1>2

(* The bounds pipe_new sets: the initial buffer holds the sentinel, and    *)
(* max_cap is a size no smaller than it when there is a limit.             *)
LEMMA PipeNewType ==
  /\ InitialCap \in Nat \ {0} /\ InitialCap >= ElemSize
  /\ max_cap \in Nat
  /\ Limit # 0 => max_cap >= InitialCap
<1>1. InitialCap \in Nat \ {0} /\ InitialCap >= ElemSize
  BY BufferAssumption DEF InitialCap
<1>2. (Limit + 1) * ElemSize \in Nat
  BY BufferAssumption
<1>3. MaxOf((Limit + 1) * ElemSize, InitialCap) \in Nat
        /\ MaxOf((Limit + 1) * ElemSize, InitialCap) >= InitialCap
  BY <1>1, <1>2 DEF MaxOf
<1>. QED  BY <1>1, <1>3, NextPow2Type, BufferAssumption DEF max_cap

(* resize_buffer allocates more than the sentinel, for any minimum.        *)
LEMMA ResizeToType ==
  ASSUME NEW new_size \in Int, NEW mincap \in Nat, Resizes(new_size, mincap)
  PROVE  ResizeTo(new_size) \in Nat \ {0}
BY PipeNewType DEF Resizes, ResizeTo, MinOf

(* Snapshots.                                                              *)
Snapshot == [bufend : Nat \ {0}, begin : Int, end : Int]

LEMMA SnapshotTypes ==
  ASSUME NEW s \in Snapshot
  PROVE  bytes_in_use(s) \in Int /\ capacity(s) \in Int
BY BufferAssumption DEF Snapshot, bytes_in_use, capacity, wraps_around

LEMMA PushedEndType ==
  ASSUME NEW s \in Snapshot, NEW b \in Int
  PROVE  PushedEnd(s, b) \in Int
<1>1. AtEnd(s, b) \in Int
  BY BufferAssumption DEF AtEnd, SizeT, MinOf, Snapshot
<1>. QED  BY <1>1 DEF PushedEnd, wrap_ptr_if_necessary, Snapshot

LEMMA PoppedBeginType ==
  ASSUME NEW s \in Snapshot, NEW b \in Int
  PROVE  PoppedBegin(s, b) \in Int
<1>1. FirstBytes(s, b) \in Int
  BY BufferAssumption DEF FirstBytes, SizeT, MinOf, Snapshot
<1>2. PastSentinel(s, b) \in Int
  BY <1>1, BufferAssumption DEF PastSentinel, wrap_ptr_if_necessary, Snapshot
<1>. QED
  BY <1>1, <1>2, BufferAssumption
  DEF PoppedBegin, wrap_ptr_if_necessary, rev_wrap_ptr_if_necessary, Snapshot

---------------------------------------------------------------------------
(* Element boundaries.                                                     *)
Aligned(x) == \E k \in Int : x = k * ElemSize

LEMMA AlignedZero == Aligned(0) /\ Aligned(ElemSize)
<1>1. 0 \in Int /\ 0 = 0 * ElemSize
  BY BufferAssumption
<1>2. 1 \in Int /\ ElemSize = 1 * ElemSize
  BY BufferAssumption
<1>3. Aligned(0)
  BY <1>1, Zenon DEF Aligned
<1>4. Aligned(ElemSize)
  BY <1>2, Zenon DEF Aligned
<1>. QED  BY <1>3, <1>4

LEMMA AlignedTimes == ASSUME NEW k \in Int PROVE Aligned(k * ElemSize)
BY DEF Aligned

LEMMA AlignedSum ==
  ASSUME NEW x \in Int, NEW y \in Int, Aligned(x), Aligned(y)
  PROVE  Aligned(x + y) /\ Aligned(x - y)
<1>1. PICK i \in Int : x = i * ElemSize
  BY DEF Aligned
<1>2. PICK j \in Int : y = j * ElemSize
  BY DEF Aligned
<1>3. x + y = (i + j) * ElemSize /\ x - y = (i - j) * ElemSize
  BY <1>1, <1>2, BufferAssumption
<1>4. i + j \in Int /\ i - j \in Int
  OBVIOUS
<1>. QED  BY <1>3, <1>4 DEF Aligned

(* Two boundaries are an element apart.                                    *)
LEMMA AlignedGap ==
  ASSUME NEW x \in Int, NEW y \in Int, Aligned(x), Aligned(y), x < y
  PROVE  x + ElemSize <= y
<1>1. PICK i \in Int : x = i * ElemSize
  BY DEF Aligned
<1>2. PICK j \in Int : y = j * ElemSize
  BY DEF Aligned
<1>3. i < j
  <2>1. SUFFICES ASSUME j <= i PROVE FALSE
    OBVIOUS
  <2>2. j * ElemSize <= i * ElemSize
    BY <2>1, BufferAssumption
  <2>. QED  BY <1>1, <1>2, <2>2, BufferAssumption
<1>4. (i + 1) * ElemSize <= j * ElemSize
  BY <1>3, BufferAssumption
<1>5. (i + 1) * ElemSize = i * ElemSize + ElemSize
  BY BufferAssumption
<1>. QED  BY <1>1, <1>2, <1>4, <1>5

LEMMA AlignedMod == ASSUME NEW x \in Int PROVE Aligned(x) <=> x % ElemSize = 0
<1>1. ASSUME Aligned(x) PROVE x % ElemSize = 0
  <2>1. PICK k \in Int : x = k * ElemSize
    BY <1>1 DEF Aligned
  <2>. QED  BY <2>1, BufferAssumption
<1>2. ASSUME x % ElemSize = 0 PROVE Aligned(x)
  <2>1. x = (x \div ElemSize) * ElemSize /\ x \div ElemSize \in Int
    BY <1>2, BufferAssumption
  <2>. QED  BY <2>1 DEF Aligned
<1>. QED  BY <1>1, <1>2

---------------------------------------------------------------------------
(* Powers of two.                                                          *)

LEMMA HalfOfPower ==
  ASSUME NEW p \in PowersOfTwo, p # 1
  PROVE  \E h \in PowersOfTwo : p = 2 * h
<1>1. p \in 1 .. SizeMax /\ \A d \in 1 .. p : p % d = 0 => d = 1 \/ d % 2 = 0
  BY DEF PowersOfTwo
<1>2. p % p = 0
  BY <1>1
<1>3. p % 2 = 0
  BY <1>1, <1>2
<1>4. PICK h \in Nat : p = 2 * h
  BY <1>1, <1>3
<1>5. h \in 1 .. SizeMax
  BY <1>1, <1>4, BufferAssumption
<1>6. ASSUME NEW d \in 1 .. h, h % d = 0 PROVE d = 1 \/ d % 2 = 0
  <2>1. h = d * (h \div d) /\ h \div d \in Int
    BY <1>6, <1>5
  <2>2. \A k \in Int : (k * d) % d = 0
    BY <1>6
  <2>3. p = (2 * (h \div d)) * d
    BY <2>1, <1>4
  <2>4. p % d = 0
    BY <2>1, <2>2, <2>3
  <2>. QED  BY <1>1, <1>4, <2>4
<1>. QED  BY <1>4, <1>5, <1>6 DEF PowersOfTwo

(* Of two powers of two the smaller divides the larger.                    *)
LEMMA PowerDivides ==
  ASSUME NEW p \in PowersOfTwo, NEW q \in PowersOfTwo, q <= p
  PROVE  \E r \in PowersOfTwo : p = r * q
<1>. DEFINE Divides(x, y) == \E r \in PowersOfTwo : x = r * y
<1>. DEFINE S == {x \in PowersOfTwo : \E y \in PowersOfTwo : y <= x /\ ~ Divides(x, y)}
<1>1. PowersOfTwo \subseteq Nat \ {0} /\ S \in SUBSET Nat
  BY BufferAssumption DEF PowersOfTwo
<1>2. SUFFICES ASSUME S # {} PROVE FALSE
  <2>1. S = {} => Divides(p, q)
    OBVIOUS
  <2>. QED  BY <2>1
<1>3. PICK x \in S : \A z \in S : x <= z
  <2>. HIDE DEF S
  <2>. QED  BY <1>1, <1>2, LeastNat
<1>4. PICK y \in PowersOfTwo : y <= x /\ ~ Divides(x, y)
  OBVIOUS
<1>5. x \in PowersOfTwo /\ x \in Nat /\ y \in Nat /\ x > 0 /\ y > 0
  BY <1>1
<1>6. y # 1
  <2>1. x = x * 1
    BY <1>5
  <2>. QED  BY <2>1, <1>4, <1>5
<1>7. PICK g \in PowersOfTwo : y = 2 * g
  BY <1>6, HalfOfPower
<1>8. PICK h \in PowersOfTwo : x = 2 * h
  BY <1>4, <1>5, <1>6, HalfOfPower
<1>9. g \in Nat /\ h \in Nat /\ g > 0 /\ h > 0
  BY <1>1
<1>10. g <= h /\ h < x
  BY <1>4, <1>5, <1>7, <1>8, <1>9
<1>11. h \notin S
  BY <1>3, <1>9, <1>10, <1>5
<1>12. PICK r \in PowersOfTwo : h = r * g
  BY <1>10, <1>11
<1>13. r \in Nat
  BY <1>1
<1>14. x = r * y
  BY <1>7, <1>8, <1>9, <1>12, <1>13
<1>. QED  BY <1>4, <1>14

(* next_pow2 finds a power of two when there is one.                       *)
LEMMA NextPow2Power ==
  ASSUME NEW b \in Nat, NEW q \in PowersOfTwo, q >= b
  PROVE  next_pow2(b) \in PowersOfTwo
<1>. DEFINE up == {p \in PowersOfTwo : p >= b}
<1>1. up \in SUBSET Nat /\ up # {}
  <2>1. q \in up
    OBVIOUS
  <2>2. up \in SUBSET Nat
    BY BufferAssumption DEF PowersOfTwo
  <2>. HIDE DEF up
  <2>. QED  BY <2>1, <2>2
<1>2. \E p \in up : \A x \in up : p <= x
  <2>. HIDE DEF up
  <2>. QED  BY <1>1, LeastNat
<1>3. (CHOOSE p \in up : \A x \in up : p <= x) \in up
  BY <1>2
<1>. QED  BY <1>1, <1>3 DEF next_pow2

---------------------------------------------------------------------------
(* The ring: the pointers on element boundaries inside the buffer, whose   *)
(* size is a size_t.                                                       *)
Ring(bu, b, e) ==
  /\ bu \in Int /\ b \in Int /\ e \in Int
  /\ Aligned(bu) /\ Aligned(b) /\ Aligned(e)
  /\ 0 <= b /\ b < bu /\ 0 <= e /\ e < bu
  /\ bu <= SizeMax

View(bu, b, e) == [bufend |-> bu, begin |-> b, end |-> e]

Used(bu, b, e) == bytes_in_use(View(bu, b, e))

Wrap(x, bu) == wrap_ptr_if_necessary(x, bu)

(* What is in use are whole elements, and leaves room for the sentinel.    *)
LEMMA UsedRange ==
  ASSUME NEW bu, NEW b, NEW e, Ring(bu, b, e)
  PROVE  /\ Used(bu, b, e) \in Int /\ Aligned(Used(bu, b, e))
         /\ 0 <= Used(bu, b, e) /\ Used(bu, b, e) <= bu - ElemSize
         /\ b + ElemSize <= bu /\ e + ElemSize <= bu
<1>1. /\ bu \in Int /\ b \in Int /\ e \in Int /\ ElemSize \in Int
      /\ Aligned(bu) /\ Aligned(b) /\ Aligned(e)
      /\ 0 <= b /\ b < bu /\ 0 <= e /\ e < bu
  BY BufferAssumption DEF Ring
<1>2. b + ElemSize <= bu /\ e + ElemSize <= bu /\ (b < e => b + ElemSize <= e)
  BY <1>1, AlignedGap
<1>3. Used(bu, b, e) = (IF b >= e THEN e + (bu - b) ELSE e - b) - ElemSize
  BY DEF Used, View, bytes_in_use, wraps_around
<1>4. Aligned(e + (bu - b) - ElemSize) /\ Aligned(e - b - ElemSize)
  <2>1. Aligned(bu - b) /\ bu - b \in Int /\ Aligned(e - b) /\ e - b \in Int
    BY <1>1, AlignedSum
  <2>2. Aligned(e + (bu - b)) /\ e + (bu - b) \in Int
    BY <1>1, <2>1, AlignedSum
  <2>. QED  BY <1>1, <2>1, <2>2, AlignedSum, AlignedZero
<1>. QED  BY <1>1, <1>2, <1>3, <1>4

(* Moving a pointer on by whole elements keeps it on a boundary.           *)
LEMMA WrapAligned ==
  ASSUME NEW bu \in Int, NEW x \in Int, NEW k \in Int, Aligned(bu), Aligned(x), Aligned(k)
  PROVE  Aligned(Wrap(x + k, bu)) /\ Wrap(x + k, bu) \in Int
<1>1. Aligned(x + k) /\ x + k \in Int
  BY AlignedSum
<1>2. Aligned(x + k - bu)
  BY <1>1, AlignedSum
<1>. QED  BY <1>1, <1>2 DEF Wrap, wrap_ptr_if_necessary

(* A push of k bytes that fit moves `end` on and adds k bytes.             *)
LEMMA WrapEnd ==
  ASSUME NEW bu, NEW b, NEW e, Ring(bu, b, e), NEW k \in Int, Aligned(k), 0 <= k,
         Used(bu, b, e) + k <= bu - ElemSize
  PROVE  /\ Ring(bu, b, Wrap(e + k, bu))
         /\ Used(bu, b, Wrap(e + k, bu)) = Used(bu, b, e) + k
<1>1. /\ bu \in Int /\ b \in Int /\ e \in Int /\ ElemSize \in Int /\ ElemSize > 0
      /\ Aligned(bu) /\ Aligned(b) /\ Aligned(e)
      /\ 0 <= b /\ b < bu /\ 0 <= e /\ e < bu /\ bu <= SizeMax
  BY BufferAssumption DEF Ring
<1>2. Aligned(Wrap(e + k, bu)) /\ Wrap(e + k, bu) \in Int
  BY <1>1, WrapAligned
<1>3. 0 <= Wrap(e + k, bu) /\ Wrap(e + k, bu) < bu
  BY <1>1 DEF Wrap, wrap_ptr_if_necessary, Used, View, bytes_in_use, wraps_around
<1>4. Used(bu, b, Wrap(e + k, bu)) = Used(bu, b, e) + k
  BY <1>1 DEF Wrap, wrap_ptr_if_necessary, Used, View, bytes_in_use, wraps_around
<1>. QED  BY <1>1, <1>2, <1>3, <1>4 DEF Ring

(* A pop of k bytes that are there moves `begin` on and takes k bytes.     *)
LEMMA WrapBegin ==
  ASSUME NEW bu, NEW b, NEW e, Ring(bu, b, e), NEW k \in Int, Aligned(k), 0 <= k,
         k <= Used(bu, b, e)
  PROVE  /\ Ring(bu, Wrap(b + k, bu), e)
         /\ Used(bu, Wrap(b + k, bu), e) = Used(bu, b, e) - k
<1>1. /\ bu \in Int /\ b \in Int /\ e \in Int /\ ElemSize \in Int /\ ElemSize > 0
      /\ Aligned(bu) /\ Aligned(b) /\ Aligned(e)
      /\ 0 <= b /\ b < bu /\ 0 <= e /\ e < bu /\ bu <= SizeMax
  BY BufferAssumption DEF Ring
<1>2. Aligned(Wrap(b + k, bu)) /\ Wrap(b + k, bu) \in Int
  BY <1>1, WrapAligned
<1>3. 0 <= Wrap(b + k, bu) /\ Wrap(b + k, bu) < bu
  BY <1>1 DEF Wrap, wrap_ptr_if_necessary, Used, View, bytes_in_use, wraps_around
<1>4. Used(bu, Wrap(b + k, bu), e) = Used(bu, b, e) - k
  BY <1>1 DEF Wrap, wrap_ptr_if_necessary, Used, View, bytes_in_use, wraps_around
<1>. QED  BY <1>1, <1>2, <1>3, <1>4 DEF Ring

(* A difference of pointers survives the cast to size_t.                   *)
LEMMA SizeTExact ==
  ASSUME NEW x \in Int, 0 <= x, x <= SizeMax
  PROVE  SizeT(x) = x
BY BufferAssumption DEF SizeT

(* process_push writes from `end` on, around the end of the buffer, and    *)
(* leaves `end` behind the last byte.                                      *)
LEMMA PushLayout ==
  ASSUME NEW bu, NEW b, NEW e, Ring(bu, b, e), NEW k \in Int, 0 < k,
         Used(bu, b, e) + k <= bu - ElemSize
  PROVE  /\ PushedEnd(View(bu, b, e), k) = Wrap(e + k, bu)
         /\ \A i \in 0 .. k - 1 : PushAddr(View(bu, b, e), k, i) = Wrap(e + i, bu)
<1>1. /\ bu \in Int /\ b \in Int /\ e \in Int /\ ElemSize \in Int /\ ElemSize > 0
      /\ 0 <= b /\ b < bu /\ 0 <= e /\ e < bu /\ bu <= SizeMax
  BY BufferAssumption DEF Ring
<1>2. SizeT(bu - e) = bu - e
  BY <1>1, SizeTExact, BufferAssumption
<1>3. AtEnd(View(bu, b, e), k) = MinOf(k, bu - e)
  BY <1>2 DEF AtEnd, View
<1>4. Used(bu, b, e) = (IF b >= e THEN e + (bu - b) ELSE e - b) - ElemSize
  BY DEF Used, View, bytes_in_use, wraps_around
<1>5. PushedEnd(View(bu, b, e), k) = Wrap(e + k, bu)
  BY <1>1, <1>3, <1>4 DEF PushedEnd, View, wraps_around, Wrap, wrap_ptr_if_necessary, MinOf
<1>6. ASSUME NEW i \in 0 .. k - 1
      PROVE  PushAddr(View(bu, b, e), k, i) = Wrap(e + i, bu)
  BY <1>1, <1>3, <1>4 DEF PushAddr, View, wraps_around, Wrap, wrap_ptr_if_necessary, MinOf
<1>. QED  BY <1>5, <1>6

(* pop_without_locking reads from behind the sentinel on, around the end   *)
(* of the buffer, and leaves `begin` an element before the next byte.      *)
LEMMA PopLayout ==
  ASSUME NEW bu, NEW b, NEW e, Ring(bu, b, e), NEW k \in Int, 0 < k,
         k <= Used(bu, b, e)
  PROVE  /\ PoppedBegin(View(bu, b, e), k) = Wrap(b + k, bu)
         /\ \A i \in 0 .. k - 1 :
              PopAddr(View(bu, b, e), k, i) = Wrap(b + ElemSize + i, bu)
<1>1. /\ bu \in Int /\ b \in Int /\ e \in Int /\ ElemSize \in Int /\ ElemSize > 0
      /\ 0 <= b /\ b < bu /\ 0 <= e /\ e < bu /\ bu <= SizeMax
      /\ b + ElemSize <= bu /\ Used(bu, b, e) <= bu - ElemSize /\ Used(bu, b, e) \in Int
  BY BufferAssumption, UsedRange DEF Ring
<1>2. SizeT(bu - b - ElemSize) = bu - b - ElemSize
  BY <1>1, SizeTExact, BufferAssumption
<1>3. FirstBytes(View(bu, b, e), k) = MinOf(k, bu - b - ElemSize)
  BY <1>2 DEF FirstBytes, View
<1>4. k > bu - b - ElemSize => PastSentinel(View(bu, b, e), k) = 0
  BY <1>1, <1>3 DEF PastSentinel, View, MinOf, wrap_ptr_if_necessary
<1>5. PoppedBegin(View(bu, b, e), k) = Wrap(b + k, bu)
  BY <1>1, <1>3, <1>4
     DEF PoppedBegin, View, Wrap, wrap_ptr_if_necessary, rev_wrap_ptr_if_necessary, MinOf
<1>6. ASSUME NEW i \in 0 .. k - 1
      PROVE  PopAddr(View(bu, b, e), k, i) = Wrap(b + ElemSize + i, bu)
  BY <1>1, <1>3, <1>4 DEF PopAddr, View, Wrap, wrap_ptr_if_necessary, MinOf
<1>. QED  BY <1>5, <1>6

(* One turn around the buffer is one subtraction.                          *)
LEMMA ModOnce ==
  ASSUME NEW m \in Int, NEW x \in Int, 0 <= x, x < m + m
  PROVE  x % m = Wrap(x, m)
BY DEF Wrap, wrap_ptr_if_necessary

(* The bytes in the pipe lie behind the sentinel, around the end of the    *)
(* buffer.                                                                 *)
LEMMA LiveLayout ==
  ASSUME NEW bu, NEW b, NEW e, Ring(bu, b, e)
  PROVE  /\ \A i \in 0 .. bu - 1 :
              LiveAddr(View(bu, b, e), i) = Wrap(b + ElemSize + i, bu)
         /\ \A i \in 0 .. ElemSize - 1 : (b + i) % bu = b + i
<1>0. b + ElemSize <= bu
  BY UsedRange
<1>1. /\ bu \in Int /\ b \in Int /\ ElemSize \in Int /\ ElemSize > 0
      /\ 0 <= b /\ b < bu /\ b + ElemSize <= bu
  BY <1>0, BufferAssumption DEF Ring
<1>2. ASSUME NEW i \in 0 .. bu - 1
      PROVE  LiveAddr(View(bu, b, e), i) = Wrap(b + ElemSize + i, bu)
  BY <1>1, ModOnce DEF LiveAddr, View
<1>3. ASSUME NEW i \in 0 .. ElemSize - 1
      PROVE  (b + i) % bu = b + i
  BY <1>1
<1>. QED  BY <1>2, <1>3

(* The free room starts at `end`: what a push of k bytes that fit writes   *)
(* is neither in the sentinel nor in the pipe, and no byte is written      *)
(* twice.                                                                  *)
LEMMA FreeRoom ==
  ASSUME NEW bu, NEW b, NEW e, Ring(bu, b, e), NEW k \in Int,
         Used(bu, b, e) + k <= bu - ElemSize, NEW i \in 0 .. k - 1
  PROVE  /\ Wrap(e + i, bu) \in 0 .. bu - 1
         /\ \A j \in 0 .. ElemSize - 1 : Wrap(e + i, bu) # b + j
         /\ \A j \in 0 .. Used(bu, b, e) - 1 : Wrap(e + i, bu) # Wrap(b + ElemSize + j, bu)
         /\ \A j \in 0 .. k - 1 : Wrap(e + i, bu) = Wrap(e + j, bu) => i = j
<1>1. /\ bu \in Int /\ b \in Int /\ e \in Int /\ ElemSize \in Int /\ ElemSize > 0
      /\ 0 <= b /\ b < bu /\ 0 <= e /\ e < bu
      /\ b + ElemSize <= bu /\ Used(bu, b, e) \in Int /\ 0 <= Used(bu, b, e)
  BY BufferAssumption, UsedRange DEF Ring
<1>2. Used(bu, b, e) = (IF b >= e THEN e + (bu - b) ELSE e - b) - ElemSize
  BY DEF Used, View, bytes_in_use, wraps_around
<1>3. Wrap(e + i, bu) \in 0 .. bu - 1
  BY <1>1, <1>2 DEF Wrap, wrap_ptr_if_necessary
<1>4. ASSUME NEW j \in 0 .. ElemSize - 1 PROVE Wrap(e + i, bu) # b + j
  BY <1>1, <1>2 DEF Wrap, wrap_ptr_if_necessary
<1>5. ASSUME NEW j \in 0 .. Used(bu, b, e) - 1
      PROVE  Wrap(e + i, bu) # Wrap(b + ElemSize + j, bu)
  BY <1>1, <1>2 DEF Wrap, wrap_ptr_if_necessary
<1>6. ASSUME NEW j \in 0 .. k - 1, Wrap(e + i, bu) = Wrap(e + j, bu) PROVE i = j
  BY <1>1, <1>2, <1>6 DEF Wrap, wrap_ptr_if_necessary
<1>. QED  BY <1>3, <1>4, <1>5, <1>6

(* The bytes in the pipe have distinct addresses inside the buffer; after  *)
(* k more bytes have been pushed the i-th of them is the next one, and     *)
(* after k have been popped the first one is the k-th.                     *)
LEMMA RingOrder ==
  ASSUME NEW bu, NEW b, NEW e, Ring(bu, b, e)
  PROVE  /\ \A j \in 0 .. Used(bu, b, e) - 1 : Wrap(b + ElemSize + j, bu) \in 0 .. bu - 1
         /\ \A i \in Int : 0 <= i /\ Used(bu, b, e) + i < bu - ElemSize =>
              Wrap(e + i, bu) = Wrap(b + ElemSize + (Used(bu, b, e) + i), bu)
         /\ \A k \in Int, i \in Int : 0 <= k /\ 0 <= i /\ k + i < Used(bu, b, e) =>
              Wrap(Wrap(b + k, bu) + ElemSize + i, bu) = Wrap(b + ElemSize + (k + i), bu)
<1>1. /\ bu \in Int /\ b \in Int /\ e \in Int /\ ElemSize \in Int /\ ElemSize > 0
      /\ 0 <= b /\ b < bu /\ 0 <= e /\ e < bu
      /\ b + ElemSize <= bu /\ Used(bu, b, e) \in Int /\ 0 <= Used(bu, b, e)
      /\ Used(bu, b, e) <= bu - ElemSize
  BY BufferAssumption, UsedRange DEF Ring
<1>2. Used(bu, b, e) = (IF b >= e THEN e + (bu - b) ELSE e - b) - ElemSize
  BY DEF Used, View, bytes_in_use, wraps_around
<1>3. ASSUME NEW j \in 0 .. Used(bu, b, e) - 1
      PROVE  Wrap(b + ElemSize + j, bu) \in 0 .. bu - 1
  BY <1>1 DEF Wrap, wrap_ptr_if_necessary
<1>4. ASSUME NEW i \in Int, 0 <= i, Used(bu, b, e) + i < bu - ElemSize
      PROVE  Wrap(e + i, bu) = Wrap(b + ElemSize + (Used(bu, b, e) + i), bu)
  BY <1>1, <1>2, <1>4 DEF Wrap, wrap_ptr_if_necessary
<1>5. ASSUME NEW k \in Int, NEW i \in Int, 0 <= k, 0 <= i, k + i < Used(bu, b, e)
      PROVE  Wrap(Wrap(b + k, bu) + ElemSize + i, bu) = Wrap(b + ElemSize + (k + i), bu)
  BY <1>1, <1>5 DEF Wrap, wrap_ptr_if_necessary
<1>. QED  BY <1>3, <1>4, <1>5

-----------------------------------------------------------------------------
(* The pipe.                                                               *)

(* The pipe, as it is and as a pusher or popper saw it, is a snapshot.     *)
LEMMA ViewTypes ==
  ASSUME TypeOK
  PROVE  /\ Pipe \in Snapshot
         /\ \A t \in Threads : PushView(t) \in Snapshot /\ PopView(t) \in Snapshot
BY DEF TypeOK, Pipe, PushView, PopView, Snapshot

(* What is in use, what fits and what one round of a call moves are        *)
(* numbers.                                                                *)
LEMMA AmountTypes ==
  ASSUME TypeOK, NEW t \in Threads
  PROVE  /\ bytes_in_use(Pipe) \in Int /\ capacity(Pipe) \in Int
         /\ Pushed(t) \in Int /\ Popped(t) \in Int
<1>1. want[t] \in Int
  BY DEF TypeOK
<1>. QED
  BY <1>1, ViewTypes, SnapshotTypes, PipeNewType DEF Pushed, Popped, MinOf

(* A byte read anywhere is a byte somebody pushed or what malloc left.     *)
LEMMA CellType ==
  ASSUME TypeOK, NEW a
  PROVE  Cell(a) \in Byte \cup {Junk}
BY DEF TypeOK, Cell, NULL

(* The parts of TypeOK that the steps disturb one by one.                  *)
MemoryOK ==
  /\ bufend \in Nat \ {0} /\ begin \in Int /\ end \in Int
  /\ buffer = NULL \/ buffer \in [0 .. bufend - 1 -> Byte \cup {Junk}]
CountsOK ==
  /\ min_cap \in Nat /\ producer_refcount \in Int /\ consumer_refcount \in Int
  /\ new_producer_refcount \in Int /\ freed \in Nat
LocksOK ==
  begin_lock \in Threads \cup {NoThread} /\ end_lock \in Threads \cup {NoThread}
ControlOK == pc \in [Threads -> Pcs]
LocalsOK ==
  /\ want \in [Threads -> Nat] /\ n \in [Threads -> Int] /\ seen \in [Threads -> Int]
  /\ eager \subseteq Consumers
ClientOK ==
  /\ eof \subseteq Consumers
  /\ budget \in [Producers -> Nat] /\ sent \in [Producers -> Int]
  /\ target \in [Consumers -> Seq(Byte \cup {Junk})]

(* The parts make up the type invariant, in a state and in the next one.   *)
LEMMA TypeParts ==
  TypeOK <=> MemoryOK /\ CountsOK /\ LocksOK /\ ControlOK /\ LocalsOK /\ ClientOK
BY DEF TypeOK, MemoryOK, CountsOK, LocksOK, ControlOK, LocalsOK, ClientOK

(* The parts of the next state make up its type invariant.                 *)
LEMMA TypePartsNext ==
  ASSUME MemoryOK', CountsOK', LocksOK', ControlOK', LocalsOK', ClientOK'
  PROVE  TypeOK'
BY DEF TypeOK, MemoryOK, CountsOK, LocksOK, ControlOK, LocalsOK, ClientOK

(* A step that sends a thread somewhere keeps pc a function into Pcs.      *)
LEMMA GoToType ==
  ASSUME TypeOK, NEW t, NEW next \in Pcs, GoTo(t, next)
  PROVE  ControlOK'
BY DEF TypeOK, ControlOK, GoTo

(* So does a step that also wakes sleepers.                                *)
LEMMA WakeType ==
  ASSUME TypeOK, NEW t, NEW next \in Pcs, NEW woken, NEW relock \in Pcs,
         GoToWaking(t, next, woken, relock)
  PROVE  ControlOK'
BY DEF TypeOK, ControlOK, GoToWaking

(* A call that returns leaves its locals dead and well-typed.              *)
LEMMA ReturnType ==
  ASSUME TypeOK, NEW t, Return(t)
  PROVE  LocalsOK'
<1>1. LocalsOK
  BY TypeParts
<1>2. want' \in [Threads -> Nat]
  BY <1>1 DEF LocalsOK, Return
<1>3. 0 \in Int
  OBVIOUS
<1>4. n' \in [Threads -> Int] /\ seen' \in [Threads -> Int]
  BY <1>1, <1>3, Zenon DEF LocalsOK, Return
<1>5. eager' \subseteq Consumers
  BY <1>1 DEF LocalsOK, Return
<1>. QED  BY <1>2, <1>4, <1>5 DEF LocalsOK

(* The bytes a pop appends to its target form a sequence.                  *)
LEMMA CopiedType ==
  ASSUME NEW S, NEW k \in Int, NEW f, \A i \in 1 .. k : f[i] \in S,
         f = [i \in 1 .. k |-> f[i]]
  PROVE  f \in Seq(S)
<1>1. CASE k >= 0
  BY <1>1
<1>2. CASE k < 0
  <2>1. f \in [1 .. 0 -> S]
    BY <1>2
  <2>. QED  BY <2>1
<1>. QED  BY <1>1, <1>2

(* A whole request is left over at most.                                   *)
LEMMA AmountBounds ==
  ASSUME TypeOK, NEW t \in Threads
  PROVE  Pushed(t) <= want[t] /\ Popped(t) <= want[t]
<1>1. want[t] \in Int
  BY DEF TypeOK
<1>. QED
  BY <1>1, ViewTypes, SnapshotTypes, PipeNewType DEF Pushed, Popped, MinOf

(* validate_size asks resize_buffer for a number.                          *)
LEMMA GrowType ==
  ASSUME TypeOK, NEW t \in Threads, ~ PushFits(t)
  PROVE  GrowSize(bytes_in_use(Pipe) + want[t]) \in Int
<1>1. want[t] \in Nat /\ bytes_in_use(Pipe) \in Int /\ capacity(Pipe) \in Int
  BY AmountTypes DEF TypeOK
<1>2. capacity(Pipe) >= 1 - ElemSize
  BY ViewTypes, BufferAssumption DEF capacity, Pipe, TypeOK
<1>3. bytes_in_use(Pipe) + want[t] >= 1 - ElemSize
  BY <1>1, <1>2, BufferAssumption DEF PushFits
<1>4. (bytes_in_use(Pipe) + want[t]) \div ElemSize + 1 \in Nat
  BY <1>1, <1>3, BufferAssumption
<1>. QED  BY <1>4, NextPow2Type, BufferAssumption DEF GrowSize

(* Whether or not resize_buffer allocates, the pointers are numbers and    *)
(* the memory reaches from 0 to bufend.                                    *)
LEMMA ResizeType ==
  ASSUME TypeOK, NEW new_size \in Int, NEW mincap \in Nat,
         resize_buffer(new_size, mincap)
  PROVE  MemoryOK'
<1>1. CASE ~Resizes(new_size, mincap)
  BY <1>1 DEF resize_buffer, MemoryOK, TypeOK, NULL
<1>2. CASE Resizes(new_size, mincap)
  <2>. DEFINE kept == bytes_in_use(Pipe) + ElemSize
              size == ResizeTo(new_size) + ElemSize
  <2>1. kept \in Int /\ size \in Nat \ {0}
    BY <1>2, ViewTypes, SnapshotTypes, ResizeToType, BufferAssumption
  <2>2. \A a : Cell(a) \in Byte \cup {Junk}
    BY CellType
  <2>3. buffer' = [a \in 0 .. size - 1 |->
                     IF a < kept THEN Cell((begin + a) % bufend) ELSE Junk]
        /\ bufend' = size /\ begin' = 0 /\ end' = kept
    BY <1>2 DEF resize_buffer
  <2>4. buffer' \in [0 .. size - 1 -> Byte \cup {Junk}]
    <3>. HIDE DEF kept, size
    <3>. QED  BY <2>2, <2>3
  <2>. QED  BY <2>1, <2>3, <2>4 DEF MemoryOK
<1>. QED  BY <1>1, <1>2

(* Every step keeps the type invariant.                                    *)
LEMMA TypeStep ==
  ASSUME TypeOK, [Next]_vars
  PROVE  TypeOK'
<1>0. MemoryOK /\ CountsOK /\ LocksOK /\ ControlOK /\ LocalsOK /\ ClientOK
  BY TypeParts
<1>1. ASSUME UNCHANGED vars
       PROVE  TypeOK'
  BY <1>1, <1>0, TypePartsNext DEF vars, shared, counts, locks, locals, client,
     MemoryOK, CountsOK, LocksOK, ControlOK, LocalsOK, ClientOK, NULL
<1>2. ASSUME NEW p \in Producers, NEW count \in PushCounts, pipe_push(p, count)
       PROVE  TypeOK'
  <2>0. count * ElemSize \in Nat /\ count \in Nat
    BY BufferAssumption, PipeAssumption
  <2>1. ControlOK'
    BY <1>2, <1>0, GoToType DEF pipe_push, Pcs, PushPcs, PopPcs, FreePcs, ReservePcs,
       Threads
  <2>2. LocalsOK'
    BY <1>0, <1>2, <2>0 DEF pipe_push, LocalsOK, Threads
  <2>3. ClientOK'
    BY <1>0, <1>2, PipeAssumption DEF pipe_push, ClientOK
  <2>4. MemoryOK' /\ CountsOK' /\ LocksOK'
    BY <1>2, <1>0 DEF pipe_push, MemoryOK, CountsOK, LocksOK, shared, counts, locks,
       locals, client, NULL
  <2>. QED  BY <2>1, <2>2, <2>3, <2>4, TypePartsNext
<1>3. ASSUME NEW p \in Producers, PushFull(p)
       PROVE  TypeOK'
  <2>1. LocksOK'
    BY <1>3, <1>0 DEF PushFull, LocksOK, Threads
  <2>2. ControlOK'
    BY <1>3, <1>0, GoToType DEF PushFull, Pcs, PushPcs, PopPcs, FreePcs, ReservePcs,
       Threads
  <2>3. MemoryOK' /\ CountsOK' /\ LocalsOK' /\ ClientOK'
    BY <1>3, <1>0 DEF PushFull, MemoryOK, CountsOK, LocalsOK, ClientOK, shared,
       counts, locks, locals, client, NULL
  <2>. QED  BY <2>1, <2>2, <2>3, TypePartsNext
<1>4. ASSUME NEW p \in Producers, PushToNobody(p)
       PROVE  TypeOK'
  <2>1. ControlOK'
    BY <1>4, <1>0, GoToType DEF PushToNobody, Pcs, PushPcs, PopPcs, FreePcs,
       ReservePcs, Threads
  <2>2. LocalsOK'
    BY <1>0, <1>4, ReturnType DEF PushToNobody
  <2>3. MemoryOK' /\ CountsOK' /\ LocksOK' /\ ClientOK'
    BY <1>4, <1>0 DEF PushToNobody, MemoryOK, CountsOK, LocksOK, ClientOK, shared,
       counts, locks, locals, client, NULL
  <2>. QED  BY <2>1, <2>2, <2>3, TypePartsNext
<1>5. ASSUME NEW p \in Producers, PushBegins(p)
       PROVE  TypeOK'
  <2>1. LocksOK'
    BY <1>5, <1>0 DEF PushBegins, LocksOK, Threads
  <2>2. ControlOK'
    BY <1>5, <1>0, GoToType DEF PushBegins, Pcs, PushPcs, PopPcs, FreePcs, ReservePcs,
       Threads
  <2>3. LocalsOK'
    BY <1>5, <1>0 DEF PushBegins, LocalsOK, MemoryOK
  <2>4. MemoryOK' /\ CountsOK' /\ ClientOK'
    BY <1>5, <1>0 DEF PushBegins, MemoryOK, CountsOK, ClientOK, shared, counts, locks,
       locals, client, NULL
  <2>. QED  BY <2>1, <2>2, <2>3, <2>4, TypePartsNext
<1>6. ASSUME NEW p \in Producers, PushSleeps(p)
       PROVE  TypeOK'
  <2>1. ControlOK'
    BY <1>6, <1>0, GoToType DEF PushSleeps, Pcs, PushPcs, PopPcs, FreePcs, ReservePcs,
       Threads
  <2>2. MemoryOK' /\ CountsOK' /\ LocksOK' /\ LocalsOK' /\ ClientOK'
    BY <1>6, <1>0 DEF PushSleeps, MemoryOK, CountsOK, LocksOK, LocalsOK, ClientOK,
       shared, counts, locks, locals, client, NULL
  <2>. QED  BY <2>1, <2>2, TypePartsNext
<1>7. ASSUME NEW p \in Producers, PushGrows(p)
       PROVE  TypeOK'
  <2>1. MemoryOK'
    <3>1. CASE PushFits(p)
      BY <1>7, <1>0, <3>1 DEF PushGrows, MemoryOK, NULL
    <3>2. CASE ~ PushFits(p)
      <4>1. GrowSize(bytes_in_use(Pipe) + want[p]) \in Int
        BY <3>2, GrowType DEF Threads
      <4>. QED  BY <1>7, <1>0, <3>2, <4>1, ResizeType DEF PushGrows, CountsOK
    <3>. QED  BY <3>1, <3>2
  <2>2. ControlOK'
    BY <1>7, <1>0, GoToType DEF PushGrows, Pcs, PushPcs, PopPcs, FreePcs, ReservePcs,
       Threads
  <2>3. LocalsOK'
    BY <1>7, <1>0, <2>1 DEF PushGrows, LocalsOK, MemoryOK
  <2>4. CountsOK' /\ LocksOK' /\ ClientOK'
    BY <1>7, <1>0 DEF PushGrows, CountsOK, LocksOK, ClientOK, shared, counts, locks,
       locals, client
  <2>. QED  BY <2>1, <2>2, <2>3, <2>4, TypePartsNext
<1>8. ASSUME NEW p \in Producers, PushCopies(p)
       PROVE  TypeOK'
  <2>0. p \in Threads /\ Pushed(p) \in Int /\ PushedEnd(PushView(p), Pushed(p)) \in Int
    BY ViewTypes, AmountTypes, PushedEndType DEF Threads
  <2>1. MemoryOK'
    <3>1. bufend' \in Nat \ {0} /\ begin' \in Int /\ end' \in Int
      BY <1>8, <1>0, <2>0 DEF PushCopies, MemoryOK
    <3>2. \A i \in 0 .. Pushed(p) - 1 : <<p, sent[p] + i>> \in Byte
      BY <1>0, <2>0 DEF ClientOK, Byte
    <3>3. buffer' = NULL \/ buffer' \in [0 .. bufend' - 1 -> Byte \cup {Junk}]
      BY <1>8, <1>0, <3>2 DEF PushCopies, MemoryOK, NULL
    <3>. QED  BY <3>1, <3>3 DEF MemoryOK
  <2>2. ControlOK'
    BY <1>8, <1>0, GoToType DEF PushCopies, Pcs, PushPcs, PopPcs, FreePcs, ReservePcs,
       Threads
  <2>3. LocalsOK'
    BY <1>0, <1>8, <2>0, AmountBounds DEF PushCopies, LocalsOK
  <2>4. ClientOK'
    BY <1>0, <1>8, <2>0 DEF PushCopies, ClientOK
  <2>5. CountsOK' /\ LocksOK'
    BY <1>8, <1>0 DEF PushCopies, CountsOK, LocksOK, shared, counts, locks, locals,
       client
  <2>. QED  BY <2>1, <2>2, <2>3, <2>4, <2>5, TypePartsNext
<1>9. ASSUME NEW p \in Producers, PushSignals(p)
       PROVE  TypeOK'
  <2>1. ControlOK'
    BY <1>0, <1>9, WakeType DEF PushSignals, Pcs, PushPcs, PopPcs, FreePcs,
       ReservePcs, Threads
  <2>2. LocalsOK'
    <3>1. 0 \in Int
      OBVIOUS
    <3>2. n' \in [Threads -> Int]
      BY <1>9, <1>0, <3>1, Zenon DEF PushSignals, LocalsOK
    <3>. QED  BY <1>9, <1>0, <3>2 DEF PushSignals, LocalsOK
  <2>3. MemoryOK' /\ CountsOK' /\ LocksOK' /\ ClientOK'
    BY <1>9, <1>0 DEF PushSignals, MemoryOK, CountsOK, LocksOK, ClientOK, shared,
       counts, locks, locals, client, NULL
  <2>. QED  BY <2>1, <2>2, <2>3, TypePartsNext
<1>10. ASSUME NEW p \in Producers, PushReturns(p)
       PROVE  TypeOK'
  <2>1. ControlOK'
    BY <1>0, <1>10, WakeType DEF PushReturns, Pcs, PushPcs, PopPcs, FreePcs,
       ReservePcs, Threads
  <2>2. LocalsOK'
    BY <1>0, <1>10, ReturnType DEF PushReturns
  <2>3. MemoryOK' /\ CountsOK' /\ LocksOK' /\ ClientOK'
    BY <1>10, <1>0 DEF PushReturns, MemoryOK, CountsOK, LocksOK, ClientOK, shared,
       counts, locks, locals, client, NULL
  <2>. QED  BY <2>1, <2>2, <2>3, TypePartsNext
<1>11. ASSUME NEW p \in Producers, pipe_producer_free(p)
       PROVE  TypeOK'
  <2>1. ControlOK'
    BY <1>11, <1>0, GoToType DEF pipe_producer_free, Pcs, PushPcs, PopPcs, FreePcs,
       ReservePcs, Threads
  <2>2. MemoryOK' /\ CountsOK' /\ LocksOK' /\ LocalsOK' /\ ClientOK'
    BY <1>11, <1>0 DEF pipe_producer_free, MemoryOK, CountsOK, LocksOK, LocalsOK,
       ClientOK, shared, counts, locks, locals, client, NULL
  <2>. QED  BY <2>1, <2>2, TypePartsNext
<1>12. ASSUME NEW p \in Producers, ProducerFreeChecks(p)
       PROVE  TypeOK'
  <2>1. ControlOK'
    BY <1>12, <1>0, GoToType DEF ProducerFreeChecks, Pcs, PushPcs, PopPcs, FreePcs,
       ReservePcs, Threads
  <2>2. MemoryOK' /\ CountsOK' /\ LocksOK' /\ LocalsOK' /\ ClientOK'
    BY <1>12, <1>0 DEF ProducerFreeChecks, MemoryOK, CountsOK, LocksOK, LocalsOK,
       ClientOK, shared, counts, locks, locals, client, NULL
  <2>. QED  BY <2>1, <2>2, TypePartsNext
<1>13. ASSUME NEW c \in Consumers, NEW count \in PopCounts, pipe_pop(c, count)
       PROVE  TypeOK'
  <2>0. count * ElemSize \in Nat /\ count \in Nat
    BY BufferAssumption, PipeAssumption
  <2>1. ControlOK'
    BY <1>13, <1>0, GoToType DEF pipe_pop, Pcs, PushPcs, PopPcs, FreePcs, ReservePcs,
       Threads
  <2>2. LocalsOK'
    BY <1>0, <1>13, <2>0 DEF pipe_pop, LocalsOK, Threads
  <2>3. MemoryOK' /\ CountsOK' /\ LocksOK' /\ ClientOK'
    BY <1>13, <1>0 DEF pipe_pop, MemoryOK, CountsOK, LocksOK, ClientOK, shared,
       counts, locks, locals, client, NULL
  <2>. QED  BY <2>1, <2>2, <2>3, TypePartsNext
<1>14. ASSUME NEW c \in Consumers, NEW count \in PopCounts, pipe_pop_eager(c, count)
       PROVE  TypeOK'
  <2>0. count * ElemSize \in Nat /\ count \in Nat
    BY BufferAssumption, PipeAssumption
  <2>1. ControlOK'
    BY <1>14, <1>0, GoToType DEF pipe_pop_eager, Pcs, PushPcs, PopPcs, FreePcs,
       ReservePcs, Threads
  <2>2. LocalsOK'
    BY <1>0, <1>14, <2>0 DEF pipe_pop_eager, LocalsOK, Threads
  <2>3. MemoryOK' /\ CountsOK' /\ LocksOK' /\ ClientOK'
    BY <1>14, <1>0 DEF pipe_pop_eager, MemoryOK, CountsOK, LocksOK, ClientOK, shared,
       counts, locks, locals, client, NULL
  <2>. QED  BY <2>1, <2>2, <2>3, TypePartsNext
<1>15. ASSUME NEW c \in Consumers, PopEmpty(c)
       PROVE  TypeOK'
  <2>1. LocksOK'
    BY <1>15, <1>0 DEF PopEmpty, LocksOK, Threads
  <2>2. ControlOK'
    BY <1>15, <1>0, GoToType DEF PopEmpty, Pcs, PushPcs, PopPcs, FreePcs, ReservePcs,
       Threads
  <2>3. MemoryOK' /\ CountsOK' /\ LocalsOK' /\ ClientOK'
    BY <1>15, <1>0 DEF PopEmpty, MemoryOK, CountsOK, LocalsOK, ClientOK, shared,
       counts, locks, locals, client, NULL
  <2>. QED  BY <2>1, <2>2, <2>3, TypePartsNext
<1>16. ASSUME NEW c \in Consumers, PopEnds(c)
       PROVE  TypeOK'
  <2>1. ControlOK'
    BY <1>16, <1>0, GoToType DEF PopEnds, Pcs, PushPcs, PopPcs, FreePcs, ReservePcs,
       Threads
  <2>2. LocalsOK'
    BY <1>0, <1>16, ReturnType DEF PopEnds
  <2>3. MemoryOK' /\ CountsOK' /\ LocksOK' /\ ClientOK'
    BY <1>16, <1>0 DEF PopEnds, MemoryOK, CountsOK, LocksOK, ClientOK, shared, counts,
       locks, locals, client, NULL
  <2>. QED  BY <2>1, <2>2, <2>3, TypePartsNext
<1>17. ASSUME NEW c \in Consumers, PopBegins(c)
       PROVE  TypeOK'
  <2>1. LocksOK'
    BY <1>17, <1>0 DEF PopBegins, LocksOK, Threads
  <2>2. ControlOK'
    BY <1>17, <1>0, GoToType DEF PopBegins, Pcs, PushPcs, PopPcs, FreePcs, ReservePcs,
       Threads
  <2>3. LocalsOK'
    BY <1>17, <1>0 DEF PopBegins, LocalsOK, MemoryOK
  <2>4. MemoryOK' /\ CountsOK' /\ ClientOK'
    BY <1>17, <1>0 DEF PopBegins, MemoryOK, CountsOK, ClientOK, shared, counts, locks,
       locals, client, NULL
  <2>. QED  BY <2>1, <2>2, <2>3, <2>4, TypePartsNext
<1>18. ASSUME NEW c \in Consumers, PopSleeps(c)
       PROVE  TypeOK'
  <2>1. ControlOK'
    BY <1>18, <1>0, GoToType DEF PopSleeps, Pcs, PushPcs, PopPcs, FreePcs, ReservePcs,
       Threads
  <2>2. MemoryOK' /\ CountsOK' /\ LocksOK' /\ LocalsOK' /\ ClientOK'
    BY <1>18, <1>0 DEF PopSleeps, MemoryOK, CountsOK, LocksOK, LocalsOK, ClientOK,
       shared, counts, locks, locals, client, NULL
  <2>. QED  BY <2>1, <2>2, TypePartsNext
<1>19. ASSUME NEW c \in Consumers, PopCopies(c)
       PROVE  TypeOK'
  <2>0. c \in Threads /\ Popped(c) \in Int /\ PoppedBegin(PopView(c), Popped(c)) \in Int
    BY ViewTypes, AmountTypes, PoppedBeginType DEF Threads
  <2>1. MemoryOK'
    BY <1>0, <1>19, <2>0 DEF PopCopies, MemoryOK, NULL
  <2>2. ControlOK'
    BY <1>19, <1>0, GoToType DEF PopCopies, Pcs, PushPcs, PopPcs, FreePcs, ReservePcs,
       Threads
  <2>3. LocalsOK'
    BY <1>0, <1>19, <2>0, AmountBounds DEF PopCopies, LocalsOK
  <2>4. ClientOK'
    <3>. DEFINE got == [i \in 1 .. Popped(c) |-> Cell(PopAddr(PopView(c), Popped(c), i - 1))]
    <3>1. got \in Seq(Byte \cup {Junk})
      BY <2>0, CopiedType, CellType
    <3>2. target[c] \o got \in Seq(Byte \cup {Junk})
      BY <1>0, <3>1 DEF ClientOK
    <3>3. target' = [target EXCEPT ![c] = target[c] \o got]
      BY <1>19 DEF PopCopies
    <3>. HIDE DEF got
    <3>. QED  BY <1>19, <1>0, <3>2, <3>3 DEF PopCopies, ClientOK
  <2>5. CountsOK' /\ LocksOK'
    BY <1>19, <1>0 DEF PopCopies, CountsOK, LocksOK, shared, counts, locks, locals,
       client
  <2>. QED  BY <2>1, <2>2, <2>3, <2>4, <2>5, TypePartsNext
<1>20. ASSUME NEW c \in Consumers, TrimLocksEnd(c)
       PROVE  TypeOK'
  <2>1. LocksOK'
    BY <1>20, <1>0 DEF TrimLocksEnd, LocksOK, Threads
  <2>2. ControlOK'
    BY <1>20, <1>0, GoToType DEF TrimLocksEnd, Pcs, PushPcs, PopPcs, FreePcs,
       ReservePcs, Threads
  <2>3. MemoryOK' /\ CountsOK' /\ LocalsOK' /\ ClientOK'
    BY <1>20, <1>0 DEF TrimLocksEnd, MemoryOK, CountsOK, LocalsOK, ClientOK, shared,
       counts, locks, locals, client, NULL
  <2>. QED  BY <2>1, <2>2, <2>3, TypePartsNext
<1>21. ASSUME NEW c \in Consumers, TrimShrinks(c)
       PROVE  TypeOK'
  <2>1. MemoryOK'
    <3>1. CASE Sparse(Pipe)
      <4>1. capacity(Pipe) \div 2 \in Int
        BY ViewTypes, SnapshotTypes
      <4>. QED  BY <1>21, <1>0, <3>1, <4>1, ResizeType DEF TrimShrinks, CountsOK
    <3>2. CASE ~ Sparse(Pipe)
      BY <1>21, <1>0, <3>2 DEF TrimShrinks, MemoryOK, NULL
    <3>. QED  BY <3>1, <3>2
  <2>2. ControlOK'
    BY <1>21, <1>0, GoToType DEF TrimShrinks, Pcs, PushPcs, PopPcs, FreePcs,
       ReservePcs, Threads
  <2>3. CountsOK' /\ LocksOK' /\ LocalsOK' /\ ClientOK'
    BY <1>21, <1>0 DEF TrimShrinks, CountsOK, LocksOK, LocalsOK, ClientOK, shared,
       counts, locks, locals, client
  <2>. QED  BY <2>1, <2>2, <2>3, TypePartsNext
<1>22. ASSUME NEW c \in Consumers, PopSignals(c)
       PROVE  TypeOK'
  <2>1. ControlOK'
    BY <1>0, <1>22, WakeType DEF PopSignals, Pcs, PushPcs, PopPcs, FreePcs,
       ReservePcs, Threads
  <2>2. LocalsOK'
    <3>1. 0 \in Int
      OBVIOUS
    <3>2. n' \in [Threads -> Int]
      BY <1>22, <1>0, <3>1, Zenon DEF PopSignals, LocalsOK
    <3>. QED  BY <1>22, <1>0, <3>2 DEF PopSignals, LocalsOK
  <2>3. MemoryOK' /\ CountsOK' /\ LocksOK' /\ ClientOK'
    BY <1>22, <1>0 DEF PopSignals, MemoryOK, CountsOK, LocksOK, ClientOK, shared,
       counts, locks, locals, client, NULL
  <2>. QED  BY <2>1, <2>2, <2>3, TypePartsNext
<1>23. ASSUME NEW c \in Consumers, PopReturns(c)
       PROVE  TypeOK'
  <2>1. ControlOK'
    BY <1>0, <1>23, WakeType DEF PopReturns, Pcs, PushPcs, PopPcs, FreePcs,
       ReservePcs, Threads
  <2>2. LocalsOK'
    BY <1>0, <1>23, ReturnType DEF PopReturns
  <2>3. MemoryOK' /\ CountsOK' /\ LocksOK' /\ ClientOK'
    BY <1>23, <1>0 DEF PopReturns, MemoryOK, CountsOK, LocksOK, ClientOK, shared,
       counts, locks, locals, client, NULL
  <2>. QED  BY <2>1, <2>2, <2>3, TypePartsNext
<1>24. ASSUME NEW c \in Consumers, pipe_consumer_free(c)
       PROVE  TypeOK'
  <2>1. ControlOK'
    BY <1>24, <1>0, GoToType DEF pipe_consumer_free, Pcs, PushPcs, PopPcs, FreePcs,
       ReservePcs, Threads
  <2>2. MemoryOK' /\ CountsOK' /\ LocksOK' /\ LocalsOK' /\ ClientOK'
    BY <1>24, <1>0 DEF pipe_consumer_free, MemoryOK, CountsOK, LocksOK, LocalsOK,
       ClientOK, shared, counts, locks, locals, client, NULL
  <2>. QED  BY <2>1, <2>2, TypePartsNext
<1>25. ASSUME NEW c \in Consumers, ConsumerFreeChecks(c)
       PROVE  TypeOK'
  <2>1. ControlOK'
    BY <1>25, <1>0, GoToType DEF ConsumerFreeChecks, Pcs, PushPcs, PopPcs, FreePcs,
       ReservePcs, Threads
  <2>2. MemoryOK' /\ CountsOK' /\ LocksOK' /\ LocalsOK' /\ ClientOK'
    BY <1>25, <1>0 DEF ConsumerFreeChecks, MemoryOK, CountsOK, LocksOK, LocalsOK,
       ClientOK, shared, counts, locks, locals, client, NULL
  <2>. QED  BY <2>1, <2>2, TypePartsNext
<1>26. ASSUME NEW p \in Producers, pipe_producer_new(p)
       PROVE  TypeOK'
  <2>1. ControlOK'
    BY <1>26, <1>0, GoToType DEF pipe_producer_new, Pcs, PushPcs, PopPcs, FreePcs,
       ReservePcs, Threads
  <2>2. MemoryOK' /\ CountsOK' /\ LocksOK' /\ LocalsOK' /\ ClientOK'
    BY <1>26, <1>0 DEF pipe_producer_new, MemoryOK, CountsOK, LocksOK, LocalsOK,
       ClientOK, shared, counts, locks, locals, client, NULL
  <2>. QED  BY <2>1, <2>2, TypePartsNext
<1>27. ASSUME NEW c \in Consumers, pipe_consumer_new(c)
       PROVE  TypeOK'
  <2>1. ControlOK'
    BY <1>27, <1>0, GoToType DEF pipe_consumer_new, Pcs, PushPcs, PopPcs, FreePcs,
       ReservePcs, Threads
  <2>2. MemoryOK' /\ CountsOK' /\ LocksOK' /\ LocalsOK' /\ ClientOK'
    BY <1>27, <1>0 DEF pipe_consumer_new, MemoryOK, CountsOK, LocksOK, LocalsOK,
       ClientOK, shared, counts, locks, locals, client, NULL
  <2>. QED  BY <2>1, <2>2, TypePartsNext
<1>28. ASSUME NEW count \in ReserveCounts, pipe_reserve(Main, count)
       PROVE  TypeOK'
  <2>1. ControlOK'
    BY <1>28, <1>0, GoToType DEF pipe_reserve, Pcs, PushPcs, PopPcs, FreePcs,
       ReservePcs, Threads
  <2>2. LocalsOK'
    <3>1. (IF count = 0 THEN DefaultMincap ELSE count * ElemSize) \in Nat
      BY BufferAssumption, PipeAssumption
    <3>. QED  BY <1>28, <1>0, <3>1 DEF pipe_reserve, LocalsOK, Threads
  <2>3. MemoryOK' /\ CountsOK' /\ LocksOK' /\ ClientOK'
    BY <1>28, <1>0 DEF pipe_reserve, MemoryOK, CountsOK, LocksOK, ClientOK, shared,
       counts, locks, locals, client, NULL
  <2>. QED  BY <2>1, <2>2, <2>3, TypePartsNext
<1>29. ASSUME ReserveLocksEnd(Main)
       PROVE  TypeOK'
  <2>1. LocksOK'
    BY <1>29, <1>0 DEF ReserveLocksEnd, LocksOK, Threads
  <2>2. ControlOK'
    BY <1>29, <1>0, GoToType DEF ReserveLocksEnd, Pcs, PushPcs, PopPcs, FreePcs,
       ReservePcs, Threads
  <2>3. MemoryOK' /\ CountsOK' /\ LocalsOK' /\ ClientOK'
    BY <1>29, <1>0 DEF ReserveLocksEnd, MemoryOK, CountsOK, LocalsOK, ClientOK,
       shared, counts, locks, locals, client, NULL
  <2>. QED  BY <2>1, <2>2, <2>3, TypePartsNext
<1>30. ASSUME ReserveSets(Main)
       PROVE  TypeOK'
  <2>0. Main \in Threads /\ want[Main] \in Nat
    BY <1>0 DEF LocalsOK, Threads
  <2>1. MemoryOK'
    <3>1. CASE want[Main] <= bytes_in_use(Pipe)
      BY <1>30, <1>0, <3>1 DEF ReserveSets, MemoryOK, shared, NULL
    <3>2. CASE ~ (want[Main] <= bytes_in_use(Pipe))
      <4>1. MinOf(want[Main], max_cap) \in Nat
        BY <2>0, PipeNewType DEF MinOf
      <4>. QED  BY <1>30, <2>0, <3>2, <4>1, ResizeType DEF ReserveSets
    <3>. QED  BY <3>1, <3>2
  <2>2. CountsOK'
    BY <1>0, <1>30, <2>0, PipeNewType DEF ReserveSets, CountsOK, MinOf, counts, shared
  <2>3. ControlOK'
    BY <1>30, <1>0, GoToType DEF ReserveSets, Pcs, PushPcs, PopPcs, FreePcs,
       ReservePcs, Threads
  <2>4. LocalsOK'
    BY <1>0, <1>30, ReturnType DEF ReserveSets
  <2>5. LocksOK' /\ ClientOK'
    BY <1>30, <1>0 DEF ReserveSets, LocksOK, ClientOK, shared, counts, locks, locals,
       client
  <2>. QED  BY <2>1, <2>2, <2>3, <2>4, <2>5, TypePartsNext
<1>31. ASSUME pipe_free
       PROVE  TypeOK'
  <2>1. ControlOK'
    BY <1>31, <1>0, GoToType DEF pipe_free, Pcs, PushPcs, PopPcs, FreePcs, ReservePcs,
       Threads
  <2>2. MemoryOK' /\ CountsOK' /\ LocksOK' /\ LocalsOK' /\ ClientOK'
    BY <1>31, <1>0 DEF pipe_free, MemoryOK, CountsOK, LocksOK, LocalsOK, ClientOK,
       shared, counts, locks, locals, client, NULL
  <2>. QED  BY <2>1, <2>2, TypePartsNext
<1>32. ASSUME PipeFreeDecides
       PROVE  TypeOK'
  <2>1. ControlOK'
    BY <1>32, <1>0, GoToType DEF PipeFreeDecides, Pcs, PushPcs, PopPcs, FreePcs,
       ReservePcs, Threads
  <2>2. MemoryOK'
    <3>1. UNCHANGED <<bufend, begin, end>> /\ buffer' \in {NULL, buffer}
      BY <1>32 DEF PipeFreeDecides
    <3>. QED  BY <3>1, <1>0 DEF MemoryOK
  <2>3. CountsOK'
    BY <1>32, <1>0 DEF PipeFreeDecides, CountsOK
  <2>4. LocksOK' /\ LocalsOK' /\ ClientOK'
    BY <1>32, <1>0 DEF PipeFreeDecides, LocksOK, LocalsOK, ClientOK, locks, locals, client
  <2>. QED  BY <2>1, <2>2, <2>3, <2>4, TypePartsNext
<1>33. ASSUME NEW t \in Threads, WakeConsumers(t)
       PROVE  TypeOK'
  <2>1. ControlOK'
    BY <1>0, <1>33, WakeType DEF WakeConsumers, Pcs, PushPcs, PopPcs, FreePcs,
       ReservePcs, Threads
  <2>2. MemoryOK' /\ CountsOK' /\ LocksOK' /\ LocalsOK' /\ ClientOK'
    BY <1>33, <1>0 DEF WakeConsumers, MemoryOK, CountsOK, LocksOK, LocalsOK, ClientOK,
       shared, counts, locks, locals, client, NULL
  <2>. QED  BY <2>1, <2>2, TypePartsNext
<1>34. ASSUME NEW t \in Threads, WakeProducers(t)
       PROVE  TypeOK'
  <2>1. ControlOK'
    BY <1>0, <1>34, WakeType DEF WakeProducers, Pcs, PushPcs, PopPcs, FreePcs,
       ReservePcs, Threads
  <2>2. MemoryOK' /\ CountsOK' /\ LocksOK' /\ LocalsOK' /\ ClientOK'
    BY <1>34, <1>0 DEF WakeProducers, MemoryOK, CountsOK, LocksOK, LocalsOK, ClientOK,
       shared, counts, locks, locals, client, NULL
  <2>. QED  BY <2>1, <2>2, TypePartsNext
<1>35. ASSUME NEW t \in Threads, deallocate(t)
       PROVE  TypeOK'
  <2>1. ControlOK'
    BY <1>35, <1>0, GoToType DEF deallocate, Pcs, PushPcs, PopPcs, FreePcs,
       ReservePcs, Threads
  <2>2. MemoryOK' /\ CountsOK' /\ LocksOK' /\ LocalsOK' /\ ClientOK'
    BY <1>35, <1>0 DEF deallocate, MemoryOK, CountsOK, LocksOK, LocalsOK, ClientOK,
       shared, counts, locks, locals, client, NULL
  <2>. QED  BY <2>1, <2>2, TypePartsNext
<1>36. ASSUME NEW t \in Threads, SpuriousWakeup(t)
       PROVE  TypeOK'
  <2>1. ControlOK'
    BY <1>36, <1>0, GoToType DEF SpuriousWakeup, Pcs, PushPcs, PopPcs, FreePcs,
       ReservePcs, Threads
  <2>2. MemoryOK' /\ CountsOK' /\ LocksOK' /\ LocalsOK' /\ ClientOK'
    BY <1>36, <1>0 DEF SpuriousWakeup, MemoryOK, CountsOK, LocksOK, LocalsOK,
       ClientOK, shared, counts, locks, locals, client, NULL
  <2>. QED  BY <2>1, <2>2, TypePartsNext
<1>. QED
  BY <1>1, <1>2, <1>3, <1>4, <1>5, <1>6, <1>7, <1>8, <1>9, <1>10, <1>11, <1>12, <1>13,
     <1>14, <1>15, <1>16, <1>17, <1>18, <1>19, <1>20, <1>21, <1>22, <1>23, <1>24, <1>25,
     <1>26, <1>27, <1>28, <1>29, <1>30, <1>31, <1>32, <1>33, <1>34, <1>35, <1>36
  DEF Next, Producer, Consumer, Owner, Pushing, Popping, Freeing

(* Signals and broadcasts of a push wake only threads asleep on            *)
(* just_pushed.                                                            *)
LEMMA PushWokenAsleep ==
  ASSUME NEW p, NEW woken \in PushWakes(p)
  PROVE  woken \subseteq AwaitingElements
BY DEF PushWakes, cond_signal, cond_broadcast

(* Those of a pop wake only threads asleep on just_popped.                 *)
LEMMA PopWokenAsleep ==
  ASSUME NEW c, NEW woken \in PopWakes(c)
  PROVE  woken \subseteq AwaitingRoom
BY DEF PopWakes, cond_signal, cond_broadcast

(* Every step keeps the owners of the two locks in step with the code:     *)
(* what takes a lock finds it free, what leaves a critical section gives   *)
(* it back, and waking a sleeper sends it outside both.                    *)
LEMMA LockStep ==
  ASSUME TypeOK, LockOwnership, [Next]_vars
  PROVE  LockOwnership'
<1>0. /\ pc \in [Threads -> Pcs] /\ NoThread \notin Threads
      /\ Producers \subseteq Threads /\ Consumers \subseteq Threads /\ Main \in Threads
  BY PipeAssumption DEF TypeOK, Threads
<1>1. ASSUME UNCHANGED vars
       PROVE  LockOwnership'
  BY <1>1 DEF vars, locks, LockOwnership
<1>2. ASSUME NEW p \in Producers, NEW count \in PushCounts, pipe_push(p, count)
       PROVE  LockOwnership'
  BY <1>2, <1>0 DEF pipe_push, GoTo, locks, LockOwnership, HoldsEnd, HoldsBegin
<1>3. ASSUME NEW p \in Producers, PushFull(p)
       PROVE  LockOwnership'
  BY <1>3, <1>0 DEF PushFull, GoTo, locks, LockOwnership, HoldsEnd, HoldsBegin
<1>4. ASSUME NEW p \in Producers, PushToNobody(p)
       PROVE  LockOwnership'
  BY <1>4, <1>0 DEF PushToNobody, GoTo, locks, LockOwnership, HoldsEnd, HoldsBegin
<1>5. ASSUME NEW p \in Producers, PushBegins(p)
       PROVE  LockOwnership'
  BY <1>5, <1>0 DEF PushBegins, GoTo, locks, LockOwnership, HoldsEnd, HoldsBegin
<1>6. ASSUME NEW p \in Producers, PushSleeps(p)
       PROVE  LockOwnership'
  BY <1>6, <1>0 DEF PushSleeps, GoTo, locks, LockOwnership, HoldsEnd, HoldsBegin
<1>7. ASSUME NEW p \in Producers, PushGrows(p)
       PROVE  LockOwnership'
  BY <1>7, <1>0 DEF PushGrows, GoTo, locks, LockOwnership, HoldsEnd, HoldsBegin
<1>8. ASSUME NEW p \in Producers, PushCopies(p)
       PROVE  LockOwnership'
  BY <1>8, <1>0 DEF PushCopies, GoTo, locks, LockOwnership, HoldsEnd, HoldsBegin
<1>9. ASSUME NEW p \in Producers, PushSignals(p)
       PROVE  LockOwnership'
  BY <1>9, <1>0, PushWokenAsleep DEF PushSignals, GoToWaking, AwaitingElements,
     AwaitingRoom, locks, LockOwnership, HoldsEnd, HoldsBegin
<1>10. ASSUME NEW p \in Producers, PushReturns(p)
       PROVE  LockOwnership'
  BY <1>10, <1>0, PushWokenAsleep DEF PushReturns, GoToWaking, AwaitingElements,
     AwaitingRoom, locks, LockOwnership, HoldsEnd, HoldsBegin
<1>11. ASSUME NEW p \in Producers, pipe_producer_free(p)
       PROVE  LockOwnership'
  BY <1>11, <1>0 DEF pipe_producer_free, GoTo, locks, LockOwnership, HoldsEnd,
     HoldsBegin
<1>12. ASSUME NEW p \in Producers, ProducerFreeChecks(p)
       PROVE  LockOwnership'
  BY <1>12, <1>0 DEF ProducerFreeChecks, GoTo, locks, LockOwnership, HoldsEnd,
     HoldsBegin
<1>13. ASSUME NEW c \in Consumers, NEW count \in PopCounts, pipe_pop(c, count)
       PROVE  LockOwnership'
  BY <1>13, <1>0 DEF pipe_pop, GoTo, locks, LockOwnership, HoldsEnd, HoldsBegin
<1>14. ASSUME NEW c \in Consumers, NEW count \in PopCounts, pipe_pop_eager(c, count)
       PROVE  LockOwnership'
  BY <1>14, <1>0 DEF pipe_pop_eager, GoTo, locks, LockOwnership, HoldsEnd, HoldsBegin
<1>15. ASSUME NEW c \in Consumers, PopEmpty(c)
       PROVE  LockOwnership'
  BY <1>15, <1>0 DEF PopEmpty, GoTo, locks, LockOwnership, HoldsEnd, HoldsBegin
<1>16. ASSUME NEW c \in Consumers, PopEnds(c)
       PROVE  LockOwnership'
  BY <1>16, <1>0 DEF PopEnds, GoTo, locks, LockOwnership, HoldsEnd, HoldsBegin
<1>17. ASSUME NEW c \in Consumers, PopBegins(c)
       PROVE  LockOwnership'
  BY <1>17, <1>0 DEF PopBegins, GoTo, locks, LockOwnership, HoldsEnd, HoldsBegin
<1>18. ASSUME NEW c \in Consumers, PopSleeps(c)
       PROVE  LockOwnership'
  BY <1>18, <1>0 DEF PopSleeps, GoTo, locks, LockOwnership, HoldsEnd, HoldsBegin
<1>19. ASSUME NEW c \in Consumers, PopCopies(c)
       PROVE  LockOwnership'
  BY <1>19, <1>0 DEF PopCopies, GoTo, locks, LockOwnership, HoldsEnd, HoldsBegin
<1>20. ASSUME NEW c \in Consumers, TrimLocksEnd(c)
       PROVE  LockOwnership'
  BY <1>20, <1>0 DEF TrimLocksEnd, GoTo, locks, LockOwnership, HoldsEnd, HoldsBegin
<1>21. ASSUME NEW c \in Consumers, TrimShrinks(c)
       PROVE  LockOwnership'
  BY <1>21, <1>0 DEF TrimShrinks, GoTo, locks, LockOwnership, HoldsEnd, HoldsBegin
<1>22. ASSUME NEW c \in Consumers, PopSignals(c)
       PROVE  LockOwnership'
  BY <1>22, <1>0, PopWokenAsleep DEF PopSignals, GoToWaking, AwaitingElements,
     AwaitingRoom, locks, LockOwnership, HoldsEnd, HoldsBegin
<1>23. ASSUME NEW c \in Consumers, PopReturns(c)
       PROVE  LockOwnership'
  BY <1>23, <1>0, PopWokenAsleep DEF PopReturns, GoToWaking, AwaitingElements,
     AwaitingRoom, locks, LockOwnership, HoldsEnd, HoldsBegin
<1>24. ASSUME NEW c \in Consumers, pipe_consumer_free(c)
       PROVE  LockOwnership'
  BY <1>24, <1>0 DEF pipe_consumer_free, GoTo, locks, LockOwnership, HoldsEnd,
     HoldsBegin
<1>25. ASSUME NEW c \in Consumers, ConsumerFreeChecks(c)
       PROVE  LockOwnership'
  BY <1>25, <1>0 DEF ConsumerFreeChecks, GoTo, locks, LockOwnership, HoldsEnd,
     HoldsBegin
<1>26. ASSUME NEW p \in Producers, pipe_producer_new(p)
       PROVE  LockOwnership'
  BY <1>26, <1>0 DEF pipe_producer_new, GoTo, locks, LockOwnership, HoldsEnd, HoldsBegin
<1>27. ASSUME NEW c \in Consumers, pipe_consumer_new(c)
       PROVE  LockOwnership'
  BY <1>27, <1>0 DEF pipe_consumer_new, GoTo, locks, LockOwnership, HoldsEnd, HoldsBegin
<1>28. ASSUME NEW count \in ReserveCounts, pipe_reserve(Main, count)
       PROVE  LockOwnership'
  BY <1>28, <1>0 DEF pipe_reserve, GoTo, locks, LockOwnership, HoldsEnd, HoldsBegin
<1>29. ASSUME ReserveLocksEnd(Main)
       PROVE  LockOwnership'
  BY <1>29, <1>0 DEF ReserveLocksEnd, GoTo, locks, LockOwnership, HoldsEnd, HoldsBegin
<1>30. ASSUME ReserveSets(Main)
       PROVE  LockOwnership'
  BY <1>30, <1>0 DEF ReserveSets, GoTo, locks, LockOwnership, HoldsEnd, HoldsBegin
<1>31. ASSUME pipe_free
       PROVE  LockOwnership'
  BY <1>31, <1>0 DEF pipe_free, GoTo, locks, LockOwnership, HoldsEnd, HoldsBegin
<1>32. ASSUME PipeFreeDecides
       PROVE  LockOwnership'
  BY <1>32, <1>0 DEF PipeFreeDecides, GoTo, locks, LockOwnership, HoldsEnd, HoldsBegin
<1>33. ASSUME NEW t \in Threads, WakeConsumers(t)
       PROVE  LockOwnership'
  BY <1>33, <1>0 DEF WakeConsumers, GoToWaking, AwaitingElements, AwaitingRoom, locks,
     LockOwnership, HoldsEnd, HoldsBegin
<1>34. ASSUME NEW t \in Threads, WakeProducers(t)
       PROVE  LockOwnership'
  BY <1>34, <1>0 DEF WakeProducers, GoToWaking, AwaitingElements, AwaitingRoom, locks,
     LockOwnership, HoldsEnd, HoldsBegin
<1>35. ASSUME NEW t \in Threads, deallocate(t)
       PROVE  LockOwnership'
  BY <1>35, <1>0 DEF deallocate, GoTo, locks, LockOwnership, HoldsEnd, HoldsBegin
<1>36. ASSUME NEW t \in Threads, SpuriousWakeup(t)
       PROVE  LockOwnership'
  BY <1>36, <1>0 DEF SpuriousWakeup, GoTo, locks, LockOwnership, HoldsEnd, HoldsBegin
<1>. QED
  BY <1>1, <1>2, <1>3, <1>4, <1>5, <1>6, <1>7, <1>8, <1>9, <1>10, <1>11, <1>12, <1>13,
     <1>14, <1>15, <1>16, <1>17, <1>18, <1>19, <1>20, <1>21, <1>22, <1>23, <1>24, <1>25,
     <1>26, <1>27, <1>28, <1>29, <1>30, <1>31, <1>32, <1>33, <1>34, <1>35, <1>36
  DEF Next, Producer, Consumer, Owner, Pushing, Popping, Freeing

(* pipe_new leaves a well-typed pipe with both locks free.                 *)
LEMMA InitTypes == Init => TypeOK /\ LockOwnership
<1>1. InitialCap \in Nat \ {0}
  BY PipeNewType
<1>. QED
  BY <1>1, BufferAssumption, PipeAssumption
  DEF Init, TypeOK, LockOwnership, Pcs, HoldsEnd, HoldsBegin, Threads

(* Every variable of the pipe keeps its type, for any number of threads,   *)
(* any element size and any limit.                                         *)
THEOREM TypeCorrect == Spec => []TypeOK
<1>1. Init => TypeOK
  BY InitTypes
<1>2. TypeOK /\ [Next]_vars => TypeOK'
  BY TypeStep
<1>. QED  BY <1>1, <1>2, PTL DEF Spec

(* Each lock of pipe.c is owned exactly by the thread between its          *)
(* mutex_lock and its mutex_unlock or cond_wait.                           *)
THEOREM MutualExclusion == Spec => []LockOwnership
<1>1. Init => TypeOK /\ LockOwnership
  BY InitTypes
<1>2. TypeOK /\ LockOwnership /\ [Next]_vars => TypeOK' /\ LockOwnership'
  BY TypeStep, LockStep
<1>. QED  BY <1>1, <1>2, PTL DEF Spec


(* A step that replaces the buffer holds both locks and one that moves a   *)
(* pointer the lock of that pointer, so neither happens beside a thread    *)
(* that is about to copy.                                                  *)
LEMMA SnapshotStep ==
  ASSUME TypeOK, LockOwnership, [Next]_vars, NEW u \in Threads
  PROVE  SnapshotKept(u)
<1>0. /\ pc \in [Threads -> Pcs] /\ NoThread \notin Threads
      /\ Producers \subseteq Threads /\ Consumers \subseteq Threads /\ Main \in Threads
  BY PipeAssumption DEF TypeOK, Threads
<1>1. ASSUME UNCHANGED vars
       PROVE  SnapshotKept(u)
  BY <1>1 DEF vars, shared, SnapshotKept
<1>2. ASSUME NEW p \in Producers, NEW count \in PushCounts, pipe_push(p, count)
       PROVE  SnapshotKept(u)
  BY <1>2 DEF pipe_push, shared, SnapshotKept
<1>3. ASSUME NEW p \in Producers, PushFull(p)
       PROVE  SnapshotKept(u)
  BY <1>3 DEF PushFull, shared, SnapshotKept
<1>4. ASSUME NEW p \in Producers, PushToNobody(p)
       PROVE  SnapshotKept(u)
  BY <1>4 DEF PushToNobody, shared, SnapshotKept
<1>5. ASSUME NEW p \in Producers, PushBegins(p)
       PROVE  SnapshotKept(u)
  BY <1>5 DEF PushBegins, shared, SnapshotKept
<1>6. ASSUME NEW p \in Producers, PushSleeps(p)
       PROVE  SnapshotKept(u)
  BY <1>6 DEF PushSleeps, shared, SnapshotKept
<1>7. ASSUME NEW p \in Producers, PushGrows(p)
       PROVE  SnapshotKept(u)
  BY <1>7, <1>0, PipeAssumption DEF PushGrows, shared, GoTo, LockOwnership, HoldsEnd,
     HoldsBegin, SnapshotKept
<1>8. ASSUME NEW p \in Producers, PushCopies(p)
       PROVE  SnapshotKept(u)
  BY <1>8, <1>0, PipeAssumption DEF PushCopies, shared, GoTo, LockOwnership, HoldsEnd,
     HoldsBegin, SnapshotKept
<1>9. ASSUME NEW p \in Producers, PushSignals(p)
       PROVE  SnapshotKept(u)
  BY <1>9 DEF PushSignals, shared, SnapshotKept
<1>10. ASSUME NEW p \in Producers, PushReturns(p)
       PROVE  SnapshotKept(u)
  BY <1>10 DEF PushReturns, shared, SnapshotKept
<1>11. ASSUME NEW p \in Producers, pipe_producer_free(p)
       PROVE  SnapshotKept(u)
  BY <1>11 DEF pipe_producer_free, shared, SnapshotKept
<1>12. ASSUME NEW p \in Producers, ProducerFreeChecks(p)
       PROVE  SnapshotKept(u)
  BY <1>12 DEF ProducerFreeChecks, shared, SnapshotKept
<1>13. ASSUME NEW c \in Consumers, NEW count \in PopCounts, pipe_pop(c, count)
       PROVE  SnapshotKept(u)
  BY <1>13 DEF pipe_pop, shared, SnapshotKept
<1>14. ASSUME NEW c \in Consumers, NEW count \in PopCounts, pipe_pop_eager(c, count)
       PROVE  SnapshotKept(u)
  BY <1>14 DEF pipe_pop_eager, shared, SnapshotKept
<1>15. ASSUME NEW c \in Consumers, PopEmpty(c)
       PROVE  SnapshotKept(u)
  BY <1>15 DEF PopEmpty, shared, SnapshotKept
<1>16. ASSUME NEW c \in Consumers, PopEnds(c)
       PROVE  SnapshotKept(u)
  BY <1>16 DEF PopEnds, shared, SnapshotKept
<1>17. ASSUME NEW c \in Consumers, PopBegins(c)
       PROVE  SnapshotKept(u)
  BY <1>17 DEF PopBegins, shared, SnapshotKept
<1>18. ASSUME NEW c \in Consumers, PopSleeps(c)
       PROVE  SnapshotKept(u)
  BY <1>18 DEF PopSleeps, shared, SnapshotKept
<1>19. ASSUME NEW c \in Consumers, PopCopies(c)
       PROVE  SnapshotKept(u)
  BY <1>19, <1>0, PipeAssumption DEF PopCopies, shared, GoTo, LockOwnership, HoldsEnd,
     HoldsBegin, SnapshotKept
<1>20. ASSUME NEW c \in Consumers, TrimLocksEnd(c)
       PROVE  SnapshotKept(u)
  BY <1>20 DEF TrimLocksEnd, shared, SnapshotKept
<1>21. ASSUME NEW c \in Consumers, TrimShrinks(c)
       PROVE  SnapshotKept(u)
  BY <1>21, <1>0, PipeAssumption DEF TrimShrinks, shared, GoTo, LockOwnership,
     HoldsEnd, HoldsBegin, SnapshotKept
<1>22. ASSUME NEW c \in Consumers, PopSignals(c)
       PROVE  SnapshotKept(u)
  BY <1>22 DEF PopSignals, shared, SnapshotKept
<1>23. ASSUME NEW c \in Consumers, PopReturns(c)
       PROVE  SnapshotKept(u)
  BY <1>23 DEF PopReturns, shared, SnapshotKept
<1>24. ASSUME NEW c \in Consumers, pipe_consumer_free(c)
       PROVE  SnapshotKept(u)
  BY <1>24 DEF pipe_consumer_free, shared, SnapshotKept
<1>25. ASSUME NEW c \in Consumers, ConsumerFreeChecks(c)
       PROVE  SnapshotKept(u)
  BY <1>25 DEF ConsumerFreeChecks, shared, SnapshotKept
<1>26. ASSUME NEW p \in Producers, pipe_producer_new(p)
       PROVE  SnapshotKept(u)
  BY <1>26 DEF pipe_producer_new, shared, SnapshotKept
<1>27. ASSUME NEW c \in Consumers, pipe_consumer_new(c)
       PROVE  SnapshotKept(u)
  BY <1>27 DEF pipe_consumer_new, shared, SnapshotKept
<1>28. ASSUME NEW count \in ReserveCounts, pipe_reserve(Main, count)
       PROVE  SnapshotKept(u)
  BY <1>28 DEF pipe_reserve, shared, SnapshotKept
<1>29. ASSUME ReserveLocksEnd(Main)
       PROVE  SnapshotKept(u)
  BY <1>29 DEF ReserveLocksEnd, shared, SnapshotKept
<1>30. ASSUME ReserveSets(Main)
       PROVE  SnapshotKept(u)
  BY <1>30, <1>0, PipeAssumption DEF ReserveSets, shared, GoTo, LockOwnership,
     HoldsEnd, HoldsBegin, SnapshotKept
<1>31. ASSUME pipe_free
       PROVE  SnapshotKept(u)
  BY <1>31 DEF pipe_free, shared, SnapshotKept
<1>32. ASSUME PipeFreeDecides
       PROVE  SnapshotKept(u)
  BY <1>32 DEF PipeFreeDecides, shared, SnapshotKept
<1>33. ASSUME NEW t \in Threads, WakeConsumers(t)
       PROVE  SnapshotKept(u)
  BY <1>33 DEF WakeConsumers, shared, SnapshotKept
<1>34. ASSUME NEW t \in Threads, WakeProducers(t)
       PROVE  SnapshotKept(u)
  BY <1>34 DEF WakeProducers, shared, SnapshotKept
<1>35. ASSUME NEW t \in Threads, deallocate(t)
       PROVE  SnapshotKept(u)
  BY <1>35 DEF deallocate, shared, SnapshotKept
<1>36. ASSUME NEW t \in Threads, SpuriousWakeup(t)
       PROVE  SnapshotKept(u)
  BY <1>36 DEF SpuriousWakeup, shared, SnapshotKept
<1>. QED
  BY <1>1, <1>2, <1>3, <1>4, <1>5, <1>6, <1>7, <1>8, <1>9, <1>10, <1>11, <1>12, <1>13,
     <1>14, <1>15, <1>16, <1>17, <1>18, <1>19, <1>20, <1>21, <1>22, <1>23, <1>24, <1>25,
     <1>26, <1>27, <1>28, <1>29, <1>30, <1>31, <1>32, <1>33, <1>34, <1>35, <1>36
  DEF Next, Producer, Consumer, Owner, Pushing, Popping, Freeing

(* What a pusher or a popper has read under its one lock stays usable      *)
(* until it copies.                                                        *)
THEOREM SnapshotsValid == Spec => SnapshotsStayValid
<1>1. TypeOK /\ LockOwnership /\ [Next]_vars => [\A t \in Threads : SnapshotKept(t)]_vars
  BY SnapshotStep
<1>. QED  BY <1>1, TypeCorrect, MutualExclusion, PTL DEF Spec, SnapshotsStayValid

===========================================================================
