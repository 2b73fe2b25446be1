--------------------------- MODULE PipeFifoProofs ---------------------------
(***************************************************************************)
(* The pipe is one queue: what is in the circular buffer, read from the    *)
(* sentinel on, changes exactly as the queue of PipeFifo.tla does, however *)
(* pushes, pops, growth and trimming interleave.                           *)
(***************************************************************************)
EXTENDS PipeQueueProofs, SequenceTheorems

---------------------------------------------------------------------------
(* The memory of a buffer of bu bytes.                                     *)
MemoryOf(bu, S) == [0 .. bu - 1 -> S]

(* The bytes of a buffer `buf` with the pointers bu, b, e, oldest first.   *)
Bytes(buf, bu, b, e) ==
  [i \in 1 .. Used(bu, b, e) |-> buf[Wrap(b + ElemSize + (i - 1), bu)]]

LEMMA BytesType ==
  ASSUME NEW S, NEW bu, NEW b, NEW e, Ring(bu, b, e), NEW buf \in MemoryOf(bu, S)
  PROVE  /\ Bytes(buf, bu, b, e) \in Seq(S)
         /\ Len(Bytes(buf, bu, b, e)) = Used(bu, b, e)
         /\ Used(bu, b, e) \in Nat /\ Aligned(Used(bu, b, e))
<1>1. Used(bu, b, e) \in Nat /\ Aligned(Used(bu, b, e))
  BY UsedRange
<1>. DEFINE u == Used(bu, b, e)
            f == Bytes(buf, bu, b, e)
<1>2. \A i \in 1 .. u : f[i] = buf[Wrap(b + ElemSize + (i - 1), bu)]
  BY DEF Bytes
<1>3. DOMAIN f = 1 .. u /\ f = [i \in 1 .. u |-> f[i]]
  BY DEF Bytes
<1>4. \A i \in 1 .. u : f[i] \in S
  <2>1. \A j \in 0 .. u - 1 : Wrap(b + ElemSize + j, bu) \in 0 .. bu - 1
    BY RingOrder
  <2>2. \A i \in 1 .. u : i - 1 \in 0 .. u - 1
    BY <1>1
  <2>. QED  BY <1>2, <2>1, <2>2 DEF MemoryOf
<1>. HIDE DEF u, f
<1>5. u \in Nat
  BY <1>1 DEF u
<1>6. f \in [1 .. u -> S]
  BY <1>3, <1>4
<1>7. f \in Seq(S) /\ Len(f) = u
  BY <1>5, <1>6
<1>. QED  BY <1>1, <1>7 DEF u, f

(* copy_pipe_into_new_buf moves the bytes and keeps their order.           *)
LEMMA BytesMoved ==
  ASSUME NEW S, NEW bu, NEW b, NEW e, Ring(bu, b, e), NEW buf \in MemoryOf(bu, S),
         NEW bu2, NEW e2, Ring(bu2, 0, e2), NEW buf2 \in MemoryOf(bu2, S),
         Used(bu2, 0, e2) = Used(bu, b, e),
         \A i \in 0 .. Used(bu, b, e) - 1 :
           buf2[ElemSize + i] = buf[Wrap(b + ElemSize + i, bu)]
  PROVE  Bytes(buf2, bu2, 0, e2) = Bytes(buf, bu, b, e)
<1>. DEFINE u == Used(bu, b, e)
<1>1. u \in Nat /\ ElemSize \in Nat /\ u <= bu2 - ElemSize /\ bu2 \in Int
  BY UsedRange, BufferAssumption DEF Ring
<1>2. ASSUME NEW i \in 1 .. u
      PROVE  Bytes(buf2, bu2, 0, e2)[i] = Bytes(buf, bu, b, e)[i]
  <2>1. /\ Bytes(buf2, bu2, 0, e2)[i] = buf2[Wrap(0 + ElemSize + (i - 1), bu2)]
        /\ Bytes(buf, bu, b, e)[i] = buf[Wrap(b + ElemSize + (i - 1), bu)]
    BY DEF Bytes
  <2>. HIDE DEF u
  <2>2. Wrap(0 + ElemSize + (i - 1), bu2) = ElemSize + (i - 1) /\ i - 1 \in 0 .. u - 1
    BY <1>1 DEF Wrap, wrap_ptr_if_necessary
  <2>. QED  BY <2>1, <2>2 DEF u
<1>. HIDE DEF u
<1>3. /\ Bytes(buf2, bu2, 0, e2) \in Seq(S) /\ Len(Bytes(buf2, bu2, 0, e2)) = u
      /\ Bytes(buf, bu, b, e) \in Seq(S) /\ Len(Bytes(buf, bu, b, e)) = u
  BY BytesType DEF u
<1>. QED  BY <1>2, <1>3, SeqEqual

(* From address e on, around the end, buf2 holds the k bytes of new, and   *)
(* elsewhere what buf held.                                                *)
Written(buf2, buf, bu, e, new, k) ==
  /\ \A i \in 0 .. k - 1 : buf2[Wrap(e + i, bu)] = new[i + 1]
  /\ \A a \in 0 .. bu - 1 :
       (\A i \in 0 .. k - 1 : a # Wrap(e + i, bu)) => buf2[a] = buf[a]

(* A push appends what it wrote.                                           *)
LEMMA BytesPushed ==
  ASSUME NEW S, NEW bu, NEW b, NEW e, Ring(bu, b, e), NEW buf \in MemoryOf(bu, S),
         NEW new \in Seq(S), NEW buf2 \in MemoryOf(bu, S)
  PROVE  \A k \in 0 .. bu - ElemSize - Used(bu, b, e) :
           Aligned(k) /\ Len(new) = k /\ Written(buf2, buf, bu, e, new, k)
             => Bytes(buf2, bu, b, Wrap(e + k, bu)) = Bytes(buf, bu, b, e) \o new
<1>0. Used(bu, b, e) \in Int /\ bu \in Int /\ ElemSize \in Int
  BY UsedRange, BufferAssumption DEF Ring
<1>. SUFFICES
       ASSUME NEW k \in 0 .. bu - ElemSize - Used(bu, b, e), Aligned(k), Len(new) = k,
              Written(buf2, buf, bu, e, new, k)
       PROVE  Bytes(buf2, bu, b, Wrap(e + k, bu)) = Bytes(buf, bu, b, e) \o new
  OBVIOUS
<1>k. k \in Nat /\ Used(bu, b, e) + k <= bu - ElemSize
  BY <1>0
<1>. DEFINE u == Used(bu, b, e)
            old == Bytes(buf, bu, b, e)
            all == Bytes(buf2, bu, b, Wrap(e + k, bu))
<1>1. Ring(bu, b, Wrap(e + k, bu)) /\ Used(bu, b, Wrap(e + k, bu)) = u + k
  BY <1>k, WrapEnd
<1>2. /\ old \in Seq(S) /\ Len(old) = u /\ u \in Nat
      /\ \A i \in 1 .. u : old[i] = buf[Wrap(b + ElemSize + (i - 1), bu)]
  <2>1. old \in Seq(S) /\ Len(old) = u /\ u \in Nat
    BY BytesType
  <2>. QED  BY <2>1 DEF Bytes
<1>3. /\ all \in Seq(S) /\ Len(all) = u + k
      /\ \A i \in 1 .. u + k : all[i] = buf2[Wrap(b + ElemSize + (i - 1), bu)]
  <2>1. all \in Seq(S) /\ Len(all) = u + k
    BY <1>1, BytesType
  <2>2. \A i \in 1 .. Used(bu, b, Wrap(e + k, bu)) :
          all[i] = buf2[Wrap(b + ElemSize + (i - 1), bu)]
    BY DEF Bytes
  <2>. HIDE DEF all, u
  <2>. QED  BY <1>1, <2>1, <2>2
<1>4. /\ old \o new \in Seq(S) /\ Len(old \o new) = u + k
      /\ \A i \in 1 .. u + k : (old \o new)[i] = IF i <= u THEN old[i] ELSE new[i - u]
  <2>. HIDE DEF old, u
  <2>1. /\ old \o new \in Seq(S) /\ Len(old \o new) = Len(old) + Len(new)
        /\ \A i \in 1 .. Len(old) + Len(new) :
             (old \o new)[i] = IF i <= Len(old) THEN old[i] ELSE new[i - Len(old)]
    BY <1>2, ConcatProperties
  <2>. QED  BY <1>2, <2>1
<1>5. ASSUME NEW i \in 1 .. u PROVE all[i] = (old \o new)[i]
  <2>. DEFINE a == Wrap(b + ElemSize + (i - 1), bu)
  <2>1. i - 1 \in 0 .. u - 1 /\ i \in 1 .. u + k
    BY <1>2
  <2>2. a \in 0 .. bu - 1
    BY <2>1, RingOrder
  <2>3. \A j \in 0 .. k - 1 : a # Wrap(e + j, bu)
    BY <1>k, <2>1, FreeRoom
  <2>4. buf2[a] = buf[a]
    BY <2>2, <2>3 DEF Written
  <2>5. all[i] = buf2[a] /\ old[i] = buf[a]
    BY <2>1, <1>2, <1>3
  <2>. HIDE DEF a, u, old, all
  <2>6. i <= u
    BY <1>2
  <2>. QED  BY <1>4, <2>1, <2>4, <2>5, <2>6
<1>6. ASSUME NEW i \in u + 1 .. u + k PROVE all[i] = (old \o new)[i]
  <2>1. PICK j \in 0 .. k - 1 : i = u + 1 + j
    <3>1. i - u - 1 \in 0 .. k - 1 /\ i = u + 1 + (i - u - 1)
      BY <1>2
    <3>. QED  BY <3>1
  <2>2. Wrap(e + j, bu) = Wrap(b + ElemSize + (u + j), bu)
    <3>1. j \in Int /\ 0 <= j /\ u + j < bu - ElemSize
      BY <1>2, <2>1, BufferAssumption DEF Ring
    <3>. QED  BY <3>1, RingOrder
  <2>3. i \in 1 .. u + k /\ ~ (i <= u) /\ i - u = j + 1 /\ i - 1 = u + j
    BY <1>2, <2>1
  <2>4. all[i] = buf2[Wrap(e + j, bu)] /\ buf2[Wrap(e + j, bu)] = new[j + 1]
    BY <1>3, <2>1, <2>2, <2>3 DEF Written
  <2>. HIDE DEF u, old, all
  <2>. QED  BY <1>4, <2>3, <2>4
<1>. HIDE DEF u, old, all
<1>7. \A i \in 1 .. Len(all) : all[i] = (old \o new)[i]
  <2>1. ASSUME NEW i \in 1 .. Len(all) PROVE all[i] = (old \o new)[i]
    <3>1. i \in 1 .. u \/ i \in u + 1 .. u + k
      BY <1>2, <1>3
    <3>. QED  BY <1>5, <1>6, <3>1
  <2>. QED  BY <2>1
<1>8. all = old \o new
  BY <1>3, <1>4, <1>7, SeqEqual
<1>. QED  BY <1>8 DEF all, old

(* A pop takes bytes from the front and leaves the others.                 *)
LEMMA BytesPopped ==
  ASSUME NEW S, NEW bu, NEW b, NEW e, Ring(bu, b, e), NEW buf \in MemoryOf(bu, S)
  PROVE  \A k \in 1 .. Used(bu, b, e) : Aligned(k) =>
           LET all == Bytes(buf, bu, b, e)
           IN  /\ [i \in 1 .. k |-> buf[Wrap(b + ElemSize + (i - 1), bu)]] = SubSeq(all, 1, k)
               /\ Bytes(buf, bu, Wrap(b + k, bu), e) = SubSeq(all, k + 1, Len(all))
<1>0. /\ Bytes(buf, bu, b, e) \in Seq(S) /\ Len(Bytes(buf, bu, b, e)) = Used(bu, b, e)
      /\ Used(bu, b, e) \in Nat
  BY BytesType
<1>. SUFFICES
       ASSUME NEW k \in 1 .. Used(bu, b, e), Aligned(k)
       PROVE  LET all == Bytes(buf, bu, b, e)
              IN  /\ [i \in 1 .. k |-> buf[Wrap(b + ElemSize + (i - 1), bu)]] = SubSeq(all, 1, k)
                  /\ Bytes(buf, bu, Wrap(b + k, bu), e) = SubSeq(all, k + 1, Len(all))
  OBVIOUS
<1>k. k \in Nat /\ 0 < k /\ k <= Used(bu, b, e)
  BY <1>0
<1>. DEFINE u == Used(bu, b, e)
            all == Bytes(buf, bu, b, e)
            left == Bytes(buf, bu, Wrap(b + k, bu), e)
            out == [i \in 1 .. k |-> buf[Wrap(b + ElemSize + (i - 1), bu)]]
<1>1. Ring(bu, Wrap(b + k, bu), e) /\ Used(bu, Wrap(b + k, bu), e) = u - k
  BY <1>k, WrapBegin
<1>2. /\ all \in Seq(S) /\ Len(all) = u /\ u \in Nat
      /\ \A i \in 1 .. u : all[i] = buf[Wrap(b + ElemSize + (i - 1), bu)]
  <2>1. all \in Seq(S) /\ Len(all) = u /\ u \in Nat
    BY <1>0
  <2>. QED  BY <2>1 DEF Bytes
<1>3. /\ left \in Seq(S) /\ Len(left) = u - k
      /\ \A i \in 1 .. u - k : left[i] = buf[Wrap(Wrap(b + k, bu) + ElemSize + (i - 1), bu)]
  <2>1. left \in Seq(S) /\ Len(left) = u - k
    BY <1>1, BytesType
  <2>2. \A i \in 1 .. Used(bu, Wrap(b + k, bu), e) :
          left[i] = buf[Wrap(Wrap(b + k, bu) + ElemSize + (i - 1), bu)]
    BY DEF Bytes
  <2>. HIDE DEF left, u
  <2>. QED  BY <1>1, <2>1, <2>2
<1>4. ASSUME NEW i \in 1 .. u - k
      PROVE  left[i] = all[k + i]
  <2>1. PICK j \in Int : j = i - 1
    BY <1>2
  <2>2. 0 <= j /\ k + j < u /\ k + i \in 1 .. u /\ (k + i) - 1 = k + j
    BY <1>2, <2>1
  <2>3. Wrap(Wrap(b + k, bu) + ElemSize + j, bu) = Wrap(b + ElemSize + (k + j), bu)
    BY <2>2, RingOrder
  <2>4. left[i] = buf[Wrap(Wrap(b + k, bu) + ElemSize + j, bu)]
    BY <1>3, <2>1
  <2>5. all[k + i] = buf[Wrap(b + ElemSize + (k + j), bu)]
    BY <1>2, <2>2
  <2>. HIDE DEF left, all
  <2>. QED  BY <2>3, <2>4, <2>5
<1>5. \A i \in 1 .. k : out[i] = all[i] /\ all[i] \in S
  <2>1. \A i \in 1 .. k : i \in 1 .. u
    BY <1>2
  <2>2. \A i \in 1 .. k : out[i] = buf[Wrap(b + ElemSize + (i - 1), bu)]
    OBVIOUS
  <2>. HIDE DEF all, u, out
  <2>. QED  BY <1>2, <2>1, <2>2, ElementOfSeq
<1>6. k <= u
  BY <1>k
<1>7. out = [i \in 1 .. k |-> out[i]]
  OBVIOUS
<1>. HIDE DEF u, all, left, out
<1>8. out \in Seq(S) /\ Len(out) = k
  <2>1. out \in [1 .. k -> S]
    BY <1>5, <1>7
  <2>. QED  BY <2>1
<1>9. \A i \in 1 .. u : all[i] \in S
  BY <1>2, ElementOfSeq
<1>10. out = SubSeq(all, 1, k)
  <2>1. \A i \in 1 .. k : all[i] \in S
    BY <1>5
  <2>2. /\ SubSeq(all, 1, k) \in Seq(S)
        /\ Len(SubSeq(all, 1, k)) = IF 1 <= k THEN k - 1 + 1 ELSE 0
        /\ \A i \in 1 .. k - 1 + 1 : SubSeq(all, 1, k)[i] = all[1 + i - 1]
    BY <2>1, SubSeqProperties
  <2>3. Len(SubSeq(all, 1, k)) = k /\ \A i \in 1 .. k : SubSeq(all, 1, k)[i] = all[i]
    BY <2>2
  <2>. QED  BY <1>5, <1>8, <2>2, <2>3, SeqEqual
<1>11. left = SubSeq(all, k + 1, u)
  <2>. DEFINE rest == SubSeq(all, k + 1, u)
  <2>1. \A i \in k + 1 .. u : all[i] \in S
    BY <1>2, <1>9
  <2>2. k + 1 \in Int /\ u \in Int
    BY <1>2
  <2>3. /\ rest \in Seq(S)
        /\ Len(rest) = IF k + 1 <= u THEN u - (k + 1) + 1 ELSE 0
        /\ \A i \in 1 .. u - (k + 1) + 1 : rest[i] = all[(k + 1) + i - 1]
    BY <2>1, <2>2, SubSeqProperties
  <2>. HIDE DEF rest
  <2>4. Len(rest) = u - k
    BY <1>2, <1>6, <2>3
  <2>5. ASSUME NEW i \in 1 .. u - k PROVE rest[i] = all[k + i]
    <3>1. i \in 1 .. u - (k + 1) + 1 /\ (k + 1) + i - 1 = k + i
      BY <1>2
    <3>. QED  BY <2>3, <3>1
  <2>6. left = rest
    BY <1>3, <1>4, <2>3, <2>4, <2>5, SeqEqual
  <2>. QED  BY <2>6 DEF rest
<1>. QED  BY <1>2, <1>10, <1>11 DEF all, left, out

---------------------------------------------------------------------------
(* The contents of the pipe in terms of its buffer.                        *)
Datum == Byte \cup {Junk}

LEMMA LiveCells ==
  ASSUME NEW bu, NEW b, NEW e, Ring(bu, b, e), NEW i \in 1 .. Used(bu, b, e)
  PROVE  /\ LiveAddr(View(bu, b, e), i - 1) = Wrap(b + ElemSize + (i - 1), bu)
         /\ LiveAddr(View(bu, b, e), i - 1) \in 0 .. bu - 1
<1>1. /\ Used(bu, b, e) \in Int /\ Used(bu, b, e) <= bu - ElemSize /\ bu \in Int
      /\ ElemSize \in Int /\ 0 < ElemSize
  BY UsedRange, BufferAssumption DEF Ring
<1>2. PICK j \in Int : j = i - 1
  BY <1>1
<1>3. j \in 0 .. Used(bu, b, e) - 1 /\ j \in 0 .. bu - 1
  BY <1>1, <1>2
<1>4. LiveAddr(View(bu, b, e), j) = Wrap(b + ElemSize + j, bu)
  BY <1>3, LiveLayout
<1>5. Wrap(b + ElemSize + j, bu) \in 0 .. bu - 1
  BY <1>3, RingOrder
<1>. QED  BY <1>2, <1>4, <1>5

LEMMA ContentsAre ==
  ASSUME PipeInv, buffer # NULL
  PROVE  /\ Ring(bufend, begin, end) /\ buffer \in MemoryOf(bufend, Datum)
         /\ Contents = Bytes(buffer, bufend, begin, end)
         /\ Contents \in Seq(Datum) /\ Len(Contents) = Used(bufend, begin, end)
         /\ Used(bufend, begin, end) \in Nat
<1>1. Ring(bufend, begin, end) /\ buffer \in MemoryOf(bufend, Datum)
  BY DEF PipeInv, CloseInv, TypeOK, QueueInv, Datum, MemoryOf
<1>2. Contents = [i \in 1 .. Used(bufend, begin, end) |-> Cell(LiveAddr(Pipe, i - 1))]
  BY Usages DEF Contents
<1>3. \A i \in 1 .. Used(bufend, begin, end) :
        Cell(LiveAddr(Pipe, i - 1)) = buffer[Wrap(begin + ElemSize + (i - 1), bufend)]
  <2>1. ASSUME NEW i \in 1 .. Used(bufend, begin, end)
        PROVE  Cell(LiveAddr(Pipe, i - 1)) = buffer[Wrap(begin + ElemSize + (i - 1), bufend)]
    <3>1. /\ LiveAddr(Pipe, i - 1) = Wrap(begin + ElemSize + (i - 1), bufend)
          /\ LiveAddr(Pipe, i - 1) \in 0 .. bufend - 1
      BY <1>1, Views, LiveCells
    <3>2. Cell(LiveAddr(Pipe, i - 1)) = buffer[LiveAddr(Pipe, i - 1)]
      BY <1>1, <3>1 DEF Cell, MemoryOf
    <3>. QED  BY <3>1, <3>2
  <2>. QED  BY <2>1
<1>4. Contents = Bytes(buffer, bufend, begin, end)
  BY <1>2, <1>3, Zenon DEF Bytes
<1>5. /\ Bytes(buffer, bufend, begin, end) \in Seq(Datum)
      /\ Len(Bytes(buffer, bufend, begin, end)) = Used(bufend, begin, end)
      /\ Used(bufend, begin, end) \in Nat
  BY <1>1, BytesType
<1>. QED  BY <1>1, <1>4, <1>5

LEMMA ContentsNext ==
  ASSUME PipeInv', buffer' # NULL
  PROVE  /\ Ring(bufend', begin', end') /\ buffer' \in MemoryOf(bufend', Datum)
         /\ Contents' = Bytes(buffer', bufend', begin', end')
<1>1. Ring(bufend', begin', end') /\ buffer' \in MemoryOf(bufend', Datum)
  BY DEF PipeInv, CloseInv, TypeOK, QueueInv, Datum, Ring, Aligned, Byte, NULL, MemoryOf
<1>2. Pipe' = View(bufend', begin', end')
  BY DEF Pipe, View
<1>3. bytes_in_use(Pipe') = Used(bufend', begin', end')
  BY <1>2 DEF Used
<1>4. bytes_in_use(Pipe)' = bytes_in_use(Pipe')
  BY DEF bytes_in_use, wraps_around, Pipe
<1>5. Contents' = [i \in 1 .. Used(bufend', begin', end') |-> Cell(LiveAddr(Pipe, i - 1))']
  BY <1>3, <1>4 DEF Contents, NULL
<1>6. \A i \in 1 .. Used(bufend', begin', end') :
        Cell(LiveAddr(Pipe, i - 1))' = buffer'[Wrap(begin' + ElemSize + (i - 1), bufend')]
  <2>1. ASSUME NEW i \in 1 .. Used(bufend', begin', end')
        PROVE  Cell(LiveAddr(Pipe, i - 1))' = buffer'[Wrap(begin' + ElemSize + (i - 1), bufend')]
    <3>1. /\ LiveAddr(Pipe', i - 1) = Wrap(begin' + ElemSize + (i - 1), bufend')
          /\ LiveAddr(Pipe', i - 1) \in 0 .. bufend' - 1
      BY <1>1, <1>2, LiveCells
    <3>2. LiveAddr(Pipe, i - 1)' = LiveAddr(Pipe', i - 1)
      BY DEF LiveAddr, Pipe
    <3>3. Cell(LiveAddr(Pipe, i - 1))' = buffer'[LiveAddr(Pipe', i - 1)]
      BY <1>1, <3>1, <3>2 DEF Cell, MemoryOf
    <3>. QED  BY <3>1, <3>3
  <2>. QED  BY <2>1
<1>. QED  BY <1>1, <1>5, <1>6, Zenon DEF Bytes

---------------------------------------------------------------------------
(* The steps that move the queue.                                          *)

(* While there are consumers the pipe has memory.                          *)
LEMMA HasMemory ==
  PipeInv /\ consumer_refcount > 0 => buffer # NULL /\ ConsumerHandles # {}
<1>1. PipeInv /\ consumer_refcount > 0 => buffer # NULL
  BY DEF PipeInv, QueueInv, Memory
<1>2. PipeInv /\ ConsumerHandles = {} => consumer_refcount = 0
  BY FS_EmptySet DEF PipeInv, CloseInv, RefCounts
<1>. QED  BY <1>1, <1>2

(* The bytes process_push writes are the producer's next ones, in order,   *)
(* from `end` on; every other byte stays.                                  *)
LEMMA BytesWritten ==
  ASSUME PipeInv, NEW p \in Producers, PushCopies(p), buffer # NULL
  PROVE  /\ DOMAIN buffer' = DOMAIN buffer
         /\ \A i \in 0 .. Pushed(p) - 1 :
              buffer'[Wrap(end + i, bufend)] = <<p, sent[p] + i>>
         /\ \A a \in 0 .. bufend - 1 :
              (\A i \in 0 .. Pushed(p) - 1 : a # Wrap(end + i, bufend))
                => buffer'[a] = buffer[a]
<1>. DEFINE k == Pushed(p)
            Lands(a) == {i \in 0 .. k - 1 : PushAddr(PushView(p), k, i) = a}
<1>1. /\ pc[p] = "push_copy"
      /\ buffer' = [a \in DOMAIN buffer |->
                      IF Lands(a) = {} THEN buffer[a]
                      ELSE <<p, sent[p] + CHOOSE i \in Lands(a) : TRUE>>]
  BY DEF PushCopies
<1>2. /\ k \in Int /\ 0 < k /\ Used(bufend, seen[p], end) + k <= bufend - ElemSize
      /\ Used(bufend, begin, end) + k <= bufend - ElemSize
  BY <1>1, PushAmount
<1>3. Ring(bufend, seen[p], end) /\ Ring(bufend, begin, end)
  BY <1>1 DEF PipeInv, QueueInv, PushersSee
<1>4. DOMAIN buffer = 0 .. bufend - 1
  BY ContentsAre DEF MemoryOf
<1>. HIDE DEF k
<1>5. \A i \in 0 .. k - 1 : PushAddr(PushView(p), k, i) = Wrap(end + i, bufend)
  BY <1>2, <1>3, Views, PushLayout
<1>6. ASSUME NEW i \in 0 .. k - 1
      PROVE  buffer'[Wrap(end + i, bufend)] = <<p, sent[p] + i>>
  <2>. DEFINE a == Wrap(end + i, bufend)
  <2>1. a \in 0 .. bufend - 1 /\ \A j \in 0 .. k - 1 : a = Wrap(end + j, bufend) => i = j
    BY <1>2, <1>3, FreeRoom
  <2>2. Lands(a) = {i}
    BY <1>5, <2>1
  <2>. HIDE DEF a
  <2>3. Lands(a) # {} /\ (CHOOSE j \in Lands(a) : TRUE) = i
    BY <2>2
  <2>. HIDE DEF Lands
  <2>4. buffer'[a] = <<p, sent[p] + i>>
    BY <1>1, <1>4, <2>1, <2>3
  <2>. QED  BY <2>4 DEF a
<1>7. ASSUME NEW a \in 0 .. bufend - 1, \A i \in 0 .. k - 1 : a # Wrap(end + i, bufend)
      PROVE  buffer'[a] = buffer[a]
  <2>1. Lands(a) = {}
    BY <1>5, <1>7
  <2>. HIDE DEF Lands
  <2>. QED  BY <1>1, <1>4, <2>1
<1>8. DOMAIN buffer' = DOMAIN buffer
  BY <1>1
<1>. QED  BY <1>6, <1>7, <1>8 DEF k

(* A copy into the pipe is a push of the queue.                            *)
LEMMA CopyIsPush ==
  ASSUME PipeInv, PipeInv', NEW p \in Producers, PushCopies(p)
  PROVE  Fifo!Push(p)
<1>. DEFINE k == Pushed(p)
            new == [i \in 1 .. k |-> <<p, sent[p] + i - 1>>]
<1>1. /\ pc[p] = "push_copy" /\ sent' = [sent EXCEPT ![p] = @ + k]
      /\ target' = target /\ eof' = eof /\ bufend' = bufend /\ begin' = begin
      /\ pc' = [pc EXCEPT ![p] = "push_signal"]
  BY DEF PushCopies, GoTo
<1>2. /\ k \in Nat /\ 0 < k /\ Aligned(k)
      /\ Used(bufend, begin, end) + k <= bufend - ElemSize
  BY PushAmount, <1>1
<1>3. consumer_refcount > 0 /\ buffer # NULL /\ ConsumerHandles # {}
  BY <1>1, HasMemory DEF PipeInv, QueueInv, PushersSee
<1>4. /\ Ring(bufend, begin, end) /\ buffer \in MemoryOf(bufend, Datum)
      /\ Contents = Bytes(buffer, bufend, begin, end)
  BY <1>3, ContentsAre
<1>5. buffer' # NULL
  <2>1. 0 \in DOMAIN buffer
    BY <1>4 DEF Ring, MemoryOf
  <2>2. 0 \in DOMAIN buffer'
    BY <1>3, <2>1, BytesWritten
  <2>. QED  BY <2>2 DEF NULL
<1>6. /\ buffer' \in MemoryOf(bufend, Datum)
      /\ Contents' = Bytes(buffer', bufend, begin, Wrap(end + k, bufend))
  <2>1. end' = Wrap(end + k, bufend)
    BY CopiedIn
  <2>. QED  BY <1>1, <1>5, <2>1, ContentsNext
<1>. HIDE DEF k
<1>7. new \in Seq(Datum) /\ Len(new) = k /\ \A i \in 0 .. k - 1 : new[i + 1] = <<p, sent[p] + i>>
  <2>1. sent[p] \in Int
    BY DEF PipeInv, CloseInv, TypeOK
  <2>2. new \in [1 .. k -> Datum]
    BY <1>2, <2>1 DEF Datum, Byte
  <2>3. new \in Seq(Datum) /\ Len(new) = k
    BY <1>2, <2>2
  <2>4. \A i \in 0 .. k - 1 : i + 1 \in 1 .. k /\ sent[p] + (i + 1) - 1 = sent[p] + i
    BY <1>2, <2>1
  <2>. QED  BY <2>3, <2>4
<1>. HIDE DEF new
<1>8. Contents' = Contents \o new
  <2>1. Written(buffer', buffer, bufend, end, new, k)
    BY <1>3, <1>7, BytesWritten DEF k, Written
  <2>a. Used(bufend, begin, end) \in Int /\ bufend \in Int /\ ElemSize \in Int
    BY <1>4, UsedRange, BufferAssumption DEF Ring
  <2>2. Bytes(buffer', bufend, begin, Wrap(end + k, bufend))
          = Bytes(buffer, bufend, begin, end) \o new
    <3>1. k \in 0 .. bufend - ElemSize - Used(bufend, begin, end)
      BY <1>2, <2>a
    <3>2. /\ Ring(bufend, begin, end) /\ buffer \in MemoryOf(bufend, Datum)
          /\ buffer' \in MemoryOf(bufend, Datum) /\ new \in Seq(Datum)
      BY <1>4, <1>6, <1>7
    <3>3. \A m \in 0 .. bufend - ElemSize - Used(bufend, begin, end) :
            Aligned(m) /\ Len(new) = m /\ Written(buffer', buffer, bufend, end, new, m)
              => Bytes(buffer', bufend, begin, Wrap(end + m, bufend))
                   = Bytes(buffer, bufend, begin, end) \o new
      BY <3>2, BytesPushed
    <3>. QED  BY <1>2, <1>7, <2>1, <3>1, <3>3
  <2>. QED  BY <1>4, <1>6, <2>2
<1>9. k \in 1 .. max_cap - Len(Contents)
  <2>1. Len(Contents) = Used(bufend, begin, end) /\ Used(bufend, begin, end) \in Int
    BY <1>3, ContentsAre
  <2>2. bufend - ElemSize <= max_cap /\ max_cap \in Int /\ bufend \in Int /\ ElemSize \in Int
    BY <1>4, PipeNewType, BufferAssumption DEF PipeInv, QueueInv, Shape, Ring
  <2>. QED  BY <1>2, <2>1, <2>2
<1>10. k > 0 /\ k % ElemSize = 0
  BY <1>2, AlignedMod
<1>11. ProducerHandles' = ProducerHandles /\ ConsumerHandles' = ConsumerHandles
       /\ p \in ProducerHandles
  BY <1>1, PipeAssumption DEF ProducerHandles, ConsumerHandles, Gone, FreePcs, Threads,
     PipeInv, CloseInv, TypeOK
<1>. QED
  BY <1>1, <1>3, <1>8, <1>9, <1>10, <1>11
  DEF Fifo!Push, Fifo!Whole, Fifo!NextBytes, new

(* A copy out of the pipe is a pop of the queue.                           *)
LEMMA CopyIsPop ==
  ASSUME PipeInv, PipeInv', Drained, NEW c \in Consumers, PopCopies(c)
  PROVE  Fifo!Pop(c)
<1>. DEFINE k == Popped(c)
            new == [i \in 1 .. k |-> Cell(PopAddr(PopView(c), k, i - 1))]
<1>1. /\ pc[c] = "pop_copy"
      /\ target' = [target EXCEPT ![c] = @ \o new]
      /\ sent' = sent /\ eof' = eof /\ bufend' = bufend /\ buffer' = buffer /\ end' = end
      /\ pc'[c] \in {"trim_end", "pop_signal"} /\ \A t \in Threads : t # c => pc'[t] = pc[t]
  BY DEF PopCopies, GoTo, PipeInv, CloseInv, TypeOK, Threads
<1>2. /\ k \in Nat /\ 0 < k /\ Aligned(k) /\ k <= Used(bufend, begin, seen[c])
      /\ k <= Used(bufend, begin, end) /\ Used(bufend, begin, end) \in Int
  <2>1. Ring(bufend, begin, end)
    BY DEF PipeInv, QueueInv
  <2>. QED  BY <1>1, <2>1, PopAmount, UsedRange
<1>3. ProducerHandles' = ProducerHandles /\ ConsumerHandles' = ConsumerHandles
       /\ c \in ConsumerHandles
  BY <1>1, PipeAssumption DEF ProducerHandles, ConsumerHandles, Gone, FreePcs, Threads
<1>4. consumer_refcount > 0
  BY <1>3, HandlesHeld DEF PipeInv
<1>5. buffer # NULL /\ buffer' # NULL
  BY <1>1, <1>4, HasMemory
<1>6. /\ Ring(bufend, begin, end) /\ buffer \in MemoryOf(bufend, Datum)
      /\ Contents = Bytes(buffer, bufend, begin, end)
  BY <1>5, ContentsAre
<1>7. Contents' = Bytes(buffer, bufend, Wrap(begin + k, bufend), end)
  <2>1. begin' = Wrap(begin + k, bufend)
    BY CopiedOut
  <2>. QED  BY <1>1, <1>5, <2>1, ContentsNext
<1>. HIDE DEF k
<1>8. /\ [i \in 1 .. k |-> buffer[Wrap(begin + ElemSize + (i - 1), bufend)]]
           = SubSeq(Contents, 1, k)
      /\ Contents' = SubSeq(Contents, k + 1, Len(Contents))
  <2>1. k \in 1 .. Used(bufend, begin, end)
    BY <1>2
  <2>2. LET all == Bytes(buffer, bufend, begin, end)
        IN  /\ [i \in 1 .. k |-> buffer[Wrap(begin + ElemSize + (i - 1), bufend)]]
                 = SubSeq(all, 1, k)
            /\ Bytes(buffer, bufend, Wrap(begin + k, bufend), end)
                 = SubSeq(all, k + 1, Len(all))
    BY <1>2, <1>6, <2>1, BytesPopped
  <2>. QED  BY <1>6, <1>7, <2>2, Zenon
<1>9. \A i \in 1 .. k : Cell(PopAddr(PopView(c), k, i - 1))
                          = buffer[Wrap(begin + ElemSize + (i - 1), bufend)]
  <2>1. ASSUME NEW i \in 1 .. k
        PROVE  Cell(PopAddr(PopView(c), k, i - 1))
                 = buffer[Wrap(begin + ElemSize + (i - 1), bufend)]
    <3>1. PICK j \in Int : j = i - 1
      BY <1>2
    <3>2. j \in 0 .. k - 1 /\ j \in 0 .. Used(bufend, begin, end) - 1
      BY <1>2, <3>1
    <3>3. Ring(bufend, begin, seen[c])
      BY <1>1 DEF PipeInv, QueueInv, PoppersSee
    <3>4. PopAddr(PopView(c), k, j) = Wrap(begin + ElemSize + j, bufend)
      BY <1>2, <3>2, <3>3, Views, PopLayout
    <3>5. Wrap(begin + ElemSize + j, bufend) \in DOMAIN buffer
      BY <1>6, <3>2, RingOrder DEF MemoryOf
    <3>6. Cell(PopAddr(PopView(c), k, j)) = buffer[Wrap(begin + ElemSize + j, bufend)]
      BY <3>4, <3>5 DEF Cell
    <3>. QED  BY <3>1, <3>6
  <2>. QED  BY <2>1
<1>10. new = SubSeq(Contents, 1, k)
  BY <1>8, <1>9, Zenon
<1>11. k \in 1 .. Len(Contents)
  <2>1. Len(Contents) = Used(bufend, begin, end)
    BY <1>5, ContentsAre
  <2>. QED  BY <1>2, <2>1
<1>12. k > 0 /\ k % ElemSize = 0
  BY <1>2, AlignedMod
<1>13. c \notin eof
  BY <1>1 DEF Drained
<1>. HIDE DEF new
<1>. QED
  BY <1>1, <1>3, <1>8, <1>10, <1>11, <1>12, <1>13 DEF Fifo!Pop, Fifo!Whole

(* An empty pipe without producers is the end of the queue.                *)
LEMMA EndIsEof ==
  ASSUME PipeInv, NEW c \in Consumers, PopEnds(c)
  PROVE  Fifo!Eof(c)
<1>1. /\ pc[c] = "pop_lock" /\ bytes_in_use(Pipe) = 0 /\ producer_refcount = 0
      /\ eof' = eof \cup {c} /\ pc' = [pc EXCEPT ![c] = "idle"]
      /\ UNCHANGED <<buffer, bufend, begin, end, sent, target>>
  BY DEF PopEnds, GoTo, shared
<1>2. ProducerHandles = {}
  BY <1>1, HandlesHeld DEF PipeInv
<1>3. Contents = <<>>
  <2>1. Contents = <<>> \/ Contents = [i \in 1 .. 0 |-> Cell(LiveAddr(Pipe, i - 1))]
    BY <1>1 DEF Contents
  <2>. QED  BY <2>1
<1>4. Contents' = Contents
  BY <1>1 DEF Contents, Pipe, Cell, LiveAddr, bytes_in_use, wraps_around
<1>5. ProducerHandles' = ProducerHandles /\ ConsumerHandles' = ConsumerHandles
      /\ c \in ConsumerHandles
  BY <1>1, PipeAssumption DEF ProducerHandles, ConsumerHandles, Gone, FreePcs, Threads,
     PipeInv, CloseInv, TypeOK
<1>. QED  BY <1>1, <1>2, <1>3, <1>4, <1>5 DEF Fifo!Eof

(* What the memory and the pointers show of the queue is not touched.      *)
LEMMA ContentsKept ==
  ASSUME UNCHANGED <<buffer, bufend, begin, end>>
  PROVE  Contents' = Contents
BY DEF Contents, Pipe, Cell, LiveAddr, bytes_in_use, wraps_around

(* A new buffer holds the same queue.                                      *)
LEMMA ContentsMoved ==
  ASSUME PipeInv, PipeInv', buffer # NULL, NEW size \in Int, NEW mincap \in Nat,
         resize_buffer(size, mincap),
         Used(bufend', begin', end') = Used(bufend, begin, end)
  PROVE  Contents' = Contents
<1>1. CASE ~ Resizes(size, mincap)
  BY <1>1, ContentsKept DEF resize_buffer
<1>2. CASE Resizes(size, mincap)
  <2>. DEFINE u == Used(bufend, begin, end)
  <2>1. buffer' # NULL
    BY ResizeKeepsMemory DEF PipeInv, CloseInv
  <2>2. /\ Ring(bufend, begin, end) /\ buffer \in MemoryOf(bufend, Datum)
        /\ Contents = Bytes(buffer, bufend, begin, end) /\ u \in Nat
    BY ContentsAre
  <2>3. /\ Ring(bufend', begin', end') /\ buffer' \in MemoryOf(bufend', Datum)
        /\ Contents' = Bytes(buffer', bufend', begin', end')
    BY <2>1, ContentsNext
  <2>4. /\ begin' = 0 /\ bufend' = ResizeTo(size) + ElemSize
        /\ \A a \in 0 .. (ResizeTo(size) + ElemSize) - 1 :
             a < u + ElemSize => buffer'[a] = Cell((begin + a) % bufend)
    <3>. DEFINE kept == bytes_in_use(Pipe) + ElemSize
                bytes == ResizeTo(size) + ElemSize
    <3>1. /\ begin' = 0 /\ bufend' = bytes
          /\ buffer' = [a \in 0 .. bytes - 1 |->
                          IF a < kept THEN Cell((begin + a) % bufend) ELSE Junk]
      BY <1>2 DEF resize_buffer
    <3>2. kept = u + ElemSize
      BY Usages
    <3>. HIDE DEF kept, u, bytes
    <3>3. \A a \in 0 .. bytes - 1 : a < u + ElemSize => buffer'[a] = Cell((begin + a) % bufend)
      BY <3>1, <3>2
    <3>. QED  BY <3>1, <3>3 DEF bytes
  <2>. HIDE DEF u
  <2>5. ASSUME NEW i \in 0 .. u - 1
        PROVE  buffer'[ElemSize + i] = buffer[Wrap(begin + ElemSize + i, bufend)]
    <3>1. /\ u <= bufend' - ElemSize /\ u <= bufend - ElemSize
          /\ bufend' \in Int /\ ElemSize \in Nat /\ begin \in Int /\ bufend \in Int
          /\ ResizeTo(size) \in Int
      BY <1>2, <2>2, <2>3, UsedRange, ResizeToType, BufferAssumption DEF Ring, u
    <3>2. ElemSize + i \in 0 .. (ResizeTo(size) + ElemSize) - 1 /\ ElemSize + i < u + ElemSize
      BY <3>1, <2>2, <2>4
    <3>3. buffer'[ElemSize + i] = Cell((begin + (ElemSize + i)) % bufend)
      BY <2>4, <3>2
    <3>4. begin + (ElemSize + i) = begin + ElemSize + i /\ i \in 0 .. bufend - 1
      BY <3>1, <2>2, BufferAssumption
    <3>5. (begin + ElemSize + i) % bufend = Wrap(begin + ElemSize + i, bufend)
      <4>1. LiveAddr(View(bufend, begin, end), i) = Wrap(begin + ElemSize + i, bufend)
        BY <2>2, <3>4, LiveLayout
      <4>. QED  BY <4>1 DEF LiveAddr, View
    <3>6. Wrap(begin + ElemSize + i, bufend) \in DOMAIN buffer
      BY <2>2, RingOrder DEF MemoryOf, u
    <3>. QED  BY <3>3, <3>4, <3>5, <3>6 DEF Cell
  <2>6. Bytes(buffer', bufend', 0, end') = Bytes(buffer, bufend, begin, end)
    <3>1. /\ Ring(bufend', 0, end') /\ Used(bufend', 0, end') = Used(bufend, begin, end)
      BY <2>3, <2>4
    <3>. QED  BY <2>2, <2>3, <2>5, <3>1, BytesMoved DEF u
  <2>. QED  BY <2>2, <2>3, <2>4, <2>6
<1>. QED  BY <1>1, <1>2

LEMMA GrowthIsUnseen ==
  ASSUME PipeInv, PipeInv', NEW p \in Producers, PushGrows(p)
  PROVE  UNCHANGED Fifo!vars
<1>1. /\ pc[p] = "push_grow" /\ UNCHANGED <<sent, target, eof>>
      /\ pc' = [pc EXCEPT ![p] = "push_copy"]
      /\ ~ PushFits(p) => resize_buffer(GrowSize(bytes_in_use(Pipe) + want[p]), min_cap)
      /\ PushFits(p) => UNCHANGED <<buffer, bufend, begin, end>>
  BY DEF PushGrows, GoTo, client
<1>2. buffer # NULL
  BY <1>1, HasMemory DEF PipeInv, QueueInv, PushersSee
<1>3. Contents' = Contents
  <2>1. CASE PushFits(p)
    BY <1>1, <2>1, ContentsKept
  <2>2. CASE ~ PushFits(p)
    <3>1. TypeOK /\ p \in Threads /\ min_cap \in Nat
      BY DEF PipeInv, CloseInv, TypeOK, Threads
    <3>2. GrowSize(bytes_in_use(Pipe) + want[p]) \in Int
      BY <2>2, <3>1, GrowType
    <3>3. Used(bufend', begin', end') = Used(bufend, begin, end)
      BY Grown
    <3>. QED  BY <1>1, <1>2, <2>2, <3>1, <3>2, <3>3, ContentsMoved
  <2>. QED  BY <2>1, <2>2
<1>4. ProducerHandles' = ProducerHandles /\ ConsumerHandles' = ConsumerHandles
  BY <1>1, PipeAssumption DEF ProducerHandles, ConsumerHandles, Gone, FreePcs, Threads,
     PipeInv, CloseInv, TypeOK
<1>. QED  BY <1>1, <1>3, <1>4 DEF Fifo!vars

LEMMA TrimIsUnseen ==
  ASSUME PipeInv, PipeInv', NEW c \in Consumers, TrimShrinks(c)
  PROVE  UNCHANGED Fifo!vars
<1>1. /\ pc[c] = "trim_begin" /\ UNCHANGED <<sent, target, eof>>
      /\ pc' = [pc EXCEPT ![c] = "pop_signal"]
      /\ Sparse(Pipe) => resize_buffer(capacity(Pipe) \div 2, min_cap)
      /\ ~ Sparse(Pipe) => UNCHANGED <<buffer, bufend, begin, end>>
  BY DEF TrimShrinks, GoTo, client
<1>2. ProducerHandles' = ProducerHandles /\ ConsumerHandles' = ConsumerHandles
      /\ c \in ConsumerHandles
  BY <1>1, PipeAssumption DEF ProducerHandles, ConsumerHandles, Gone, FreePcs, Threads,
     PipeInv, CloseInv, TypeOK
<1>3. buffer # NULL
  BY <1>2, HandlesHeld, HasMemory DEF PipeInv
<1>4. Contents' = Contents
  <2>1. CASE ~ Sparse(Pipe)
    BY <1>1, <2>1, ContentsKept
  <2>2. CASE Sparse(Pipe)
    <3>1. TypeOK /\ min_cap \in Nat
      BY DEF PipeInv, CloseInv, TypeOK
    <3>2. capacity(Pipe) \div 2 \in Int
      BY <3>1, ViewTypes, SnapshotTypes
    <3>3. Used(bufend', begin', end') = Used(bufend, begin, end)
      BY Trimmed
    <3>. QED  BY <1>1, <1>3, <2>2, <3>1, <3>2, <3>3, ContentsMoved
  <2>. QED  BY <2>1, <2>2
<1>. QED  BY <1>1, <1>2, <1>4 DEF Fifo!vars

---------------------------------------------------------------------------
(* The steps that move handles.                                            *)
LEMMA NobodyReads ==
  /\ PipeInv /\ consumer_refcount = 0 => ConsumerHandles = {}
  /\ PipeInv' /\ consumer_refcount' = 0 => ConsumerHandles' = {}
<1>1. IsFiniteSet(Consumers \cup {Main})
  BY PipeAssumption, FS_AddElement
<1>2. ConsumerHandles \subseteq Consumers \cup {Main}
  BY DEF ConsumerHandles
<1>3. ConsumerHandles' \subseteq Consumers \cup {Main}
  BY DEF ConsumerHandles
<1>4. PipeInv => consumer_refcount = Cardinality(ConsumerHandles)
  BY DEF PipeInv, CloseInv, RefCounts
<1>5. PipeInv' => consumer_refcount' = Cardinality(ConsumerHandles')
  BY DEF PipeInv, CloseInv, RefCounts, ConsumerHandles
<1>6. \A S : S \subseteq Consumers \cup {Main} /\ Cardinality(S) = 0 => S = {}
  BY <1>1, FS_Subset, FS_EmptySet
<1>. QED  BY <1>2, <1>3, <1>4, <1>5, <1>6

LEMMA IssueIsIssue ==
  ASSUME PipeInv
  PROVE  /\ \A p \in Producers : pipe_producer_new(p) => Fifo!IssueWriter(p)
         /\ \A c \in Consumers : pipe_consumer_new(c) => Fifo!IssueReader(c)
<1>. USE PipeAssumption DEF ProducerHandles, ConsumerHandles, Gone, FreePcs, Threads
<1>0. pc \in [Threads -> Pcs]
  BY DEF PipeInv, CloseInv, TypeOK
<1>1. ASSUME NEW p \in Producers, pipe_producer_new(p) PROVE Fifo!IssueWriter(p)
  <2>1. /\ pc[Main] = "idle" /\ pc[p] = "unborn" /\ pc' = [pc EXCEPT ![p] = "idle"]
        /\ UNCHANGED <<buffer, bufend, begin, end, sent, target, eof>>
    BY <1>1 DEF pipe_producer_new, GoTo, shared, client
  <2>2. /\ Main \in ProducerHandles /\ p \notin ProducerHandles
        /\ ProducerHandles' = ProducerHandles \cup {p} /\ ConsumerHandles' = ConsumerHandles
    BY <1>0, <2>1
  <2>. QED  BY <2>1, <2>2, ContentsKept DEF Fifo!IssueWriter
<1>2. ASSUME NEW c \in Consumers, pipe_consumer_new(c) PROVE Fifo!IssueReader(c)
  <2>1. /\ pc[Main] = "idle" /\ pc[c] = "unborn" /\ pc' = [pc EXCEPT ![c] = "idle"]
        /\ UNCHANGED <<buffer, bufend, begin, end, sent, target, eof>>
    BY <1>2 DEF pipe_consumer_new, GoTo, shared, client
  <2>2. /\ Main \in ConsumerHandles /\ c \notin ConsumerHandles
        /\ ConsumerHandles' = ConsumerHandles \cup {c} /\ ProducerHandles' = ProducerHandles
    BY <1>0, <2>1
  <2>. QED  BY <2>1, <2>2, ContentsKept DEF Fifo!IssueReader
<1>. QED  BY <1>1, <1>2

LEMMA FreeIsCloseWriter ==
  ASSUME PipeInv
  PROVE  /\ \A p \in Producers : pipe_producer_free(p) => Fifo!CloseWriter(p)
         /\ pipe_free => Fifo!CloseWriter(Main)
<1>. USE PipeAssumption DEF ProducerHandles, ConsumerHandles, Gone, FreePcs, Threads
<1>0. pc \in [Threads -> Pcs]
  BY DEF PipeInv, CloseInv, TypeOK
<1>1. ASSUME NEW p \in Producers, pipe_producer_free(p) PROVE Fifo!CloseWriter(p)
  <2>1. /\ pc[p] = "idle" /\ pc'[p] \in {"pf_check", "done"}
        /\ \A t \in Threads : t # p => pc'[t] = pc[t]
        /\ UNCHANGED <<buffer, bufend, begin, end, sent, target, eof>>
    BY <1>0, <1>1 DEF pipe_producer_free, GoTo, shared, client
  <2>2. /\ p \in ProducerHandles /\ ProducerHandles' = ProducerHandles \ {p}
        /\ ConsumerHandles' = ConsumerHandles
    BY <2>1
  <2>. QED  BY <2>1, <2>2, ContentsKept DEF Fifo!CloseWriter
<1>2. ASSUME pipe_free PROVE Fifo!CloseWriter(Main)
  <2>1. /\ pc[Main] = "idle" /\ pc' = [pc EXCEPT ![Main] = "pipe_free"]
        /\ UNCHANGED <<buffer, bufend, begin, end, sent, target, eof>>
    BY <1>2 DEF pipe_free, GoTo, shared, client
  <2>2. /\ Main \in ProducerHandles /\ ProducerHandles' = ProducerHandles \ {Main}
        /\ ConsumerHandles' = ConsumerHandles
    BY <1>0, <2>1
  <2>. QED  BY <2>1, <2>2, ContentsKept DEF Fifo!CloseWriter
<1>. QED  BY <1>1, <1>2

LEMMA FreeIsCloseReader ==
  ASSUME PipeInv, PipeInv'
  PROVE  /\ \A c \in Consumers : pipe_consumer_free(c) => Fifo!CloseReader(c)
         /\ PipeFreeDecides => Fifo!CloseReader(Main)
<1>0. pc \in [Threads -> Pcs]
  BY DEF PipeInv, CloseInv, TypeOK
<1>1. ASSUME NEW c \in Consumers, pipe_consumer_free(c) PROVE Fifo!CloseReader(c)
  <2>1. /\ pc[c] = "idle" /\ pc'[c] \in {"cf_check", "done"}
        /\ \A t \in Threads : t # c => pc'[t] = pc[t]
        /\ UNCHANGED <<buffer, bufend, begin, end, sent, target, eof>>
    BY <1>0, <1>1 DEF pipe_consumer_free, GoTo, shared, client, Threads
  <2>2. /\ c \in ConsumerHandles /\ ConsumerHandles' = ConsumerHandles \ {c}
        /\ ProducerHandles' = ProducerHandles
    BY <2>1, PipeAssumption DEF ProducerHandles, ConsumerHandles, Gone, FreePcs, Threads
  <2>. QED  BY <2>1, <2>2, ContentsKept DEF Fifo!CloseReader
<1>2. ASSUME PipeFreeDecides PROVE Fifo!CloseReader(Main)
  <2>1. /\ pc[Main] = "pipe_free"
        /\ pc'[Main] \in {"wake_producers", "deallocate", "wake_consumers", "done"}
        /\ \A t \in Threads : t # Main => pc'[t] = pc[t]
        /\ UNCHANGED <<bufend, begin, end, sent, target, eof>>
        /\ buffer' = IF consumer_refcount' = 0 THEN NULL ELSE buffer
    BY <1>0, <1>2 DEF PipeFreeDecides, GoTo, client, Threads
  <2>2. /\ Main \in ConsumerHandles /\ ConsumerHandles' = ConsumerHandles \ {Main}
        /\ ProducerHandles' = ProducerHandles
    BY <2>1, PipeAssumption DEF ProducerHandles, ConsumerHandles, Gone, FreePcs, Threads
  <2>3. CASE consumer_refcount' = 0
    <3>1. ConsumerHandles' = {} /\ Contents' = <<>>
      BY <2>1, <2>3, NobodyReads DEF Contents, NULL
    <3>. QED  BY <2>1, <2>2, <3>1 DEF Fifo!CloseReader
  <2>4. CASE consumer_refcount' # 0
    BY <2>1, <2>2, <2>4, ContentsKept DEF Fifo!CloseReader
  <2>. QED  BY <2>3, <2>4
<1>. QED  BY <1>1, <1>2

LEMMA DeallocateIsDiscard ==
  ASSUME PipeInv, NEW t \in Threads, deallocate(t)
  PROVE  Fifo!Discard
<1>1. /\ pc[t] = "deallocate" /\ pc' = [pc EXCEPT ![t] = "done"] /\ buffer' = NULL
      /\ UNCHANGED <<sent, target, eof>>
  BY DEF deallocate, GoTo, client
<1>2. ConsumerHandles = {}
  BY <1>1, NobodyReads DEF PipeInv, QueueInv, Memory
<1>3. Contents' = <<>>
  BY <1>1 DEF Contents, NULL
<1>4. ProducerHandles' = ProducerHandles /\ ConsumerHandles' = ConsumerHandles
  BY <1>1, PipeAssumption DEF ProducerHandles, ConsumerHandles, Gone, FreePcs, Threads,
     PipeInv, CloseInv, TypeOK
<1>. QED  BY <1>1, <1>2, <1>3, <1>4 DEF Fifo!Discard

---------------------------------------------------------------------------
(* The other steps leave the queue alone.                                  *)
Quiet ==
  /\ UNCHANGED <<buffer, bufend, begin, end, sent, target, eof>>
  /\ ProducerHandles' = ProducerHandles /\ ConsumerHandles' = ConsumerHandles

Loud ==
  \/ \E p \in Producers : \/ pipe_producer_new(p) \/ PushGrows(p) \/ PushCopies(p)
                          \/ pipe_producer_free(p)
  \/ \E c \in Consumers : \/ pipe_consumer_new(c) \/ PopEnds(c) \/ PopCopies(c)
                          \/ TrimShrinks(c) \/ pipe_consumer_free(c)
  \/ pipe_free \/ PipeFreeDecides
  \/ \E t \in Threads : deallocate(t)

LEMMA LoudOrQuiet ==
  ASSUME PipeInv, [Next]_vars
  PROVE  Quiet \/ Loud
<1>0. /\ pc \in [Threads -> Pcs] /\ want \in [Threads -> Nat]
      /\ Producers \subseteq Threads /\ Consumers \subseteq Threads /\ Main \in Threads
      /\ Producers \cap Consumers = {} /\ Main \notin Producers \cup Consumers
  BY PipeAssumption DEF PipeInv, CloseInv, TypeOK, Threads
<1>1. ASSUME UNCHANGED vars
      PROVE  Quiet \/ Loud
  BY <1>1, <1>0 DEF vars, shared, client, Quiet, ProducerHandles, ConsumerHandles,
     Gone, FreePcs
<1>2. ASSUME NEW p \in Producers, NEW count \in PushCounts, pipe_push(p, count)
      PROVE  Quiet \/ Loud
  BY <1>2, <1>0 DEF pipe_push, GoTo, shared, Quiet, ProducerHandles, ConsumerHandles,
     Gone, FreePcs
<1>3. ASSUME NEW p \in Producers, PushFull(p)
      PROVE  Quiet \/ Loud
  BY <1>3, <1>0 DEF PushFull, GoTo, shared, client, Quiet, ProducerHandles,
     ConsumerHandles, Gone, FreePcs
<1>4. ASSUME NEW p \in Producers, PushToNobody(p)
      PROVE  Quiet \/ Loud
  BY <1>4, <1>0 DEF PushToNobody, GoTo, Return, shared, client, Quiet,
     ProducerHandles, ConsumerHandles, Gone, FreePcs
<1>5. ASSUME NEW p \in Producers, PushBegins(p)
      PROVE  Quiet \/ Loud
  BY <1>5, <1>0 DEF PushBegins, GoTo, shared, client, Quiet, ProducerHandles,
     ConsumerHandles, Gone, FreePcs
<1>6. ASSUME NEW p \in Producers, PushSleeps(p)
      PROVE  Quiet \/ Loud
  BY <1>6, <1>0 DEF PushSleeps, GoTo, shared, client, Quiet, ProducerHandles,
     ConsumerHandles, Gone, FreePcs
<1>7. ASSUME NEW p \in Producers, PushGrows(p)
      PROVE  Quiet \/ Loud
  BY <1>7 DEF Loud
<1>8. ASSUME NEW p \in Producers, PushCopies(p)
      PROVE  Quiet \/ Loud
  BY <1>8 DEF Loud
<1>9. ASSUME NEW p \in Producers, PushSignals(p)
      PROVE  Quiet \/ Loud
  BY <1>9, <1>0, PushWokenAsleep DEF PushSignals, GoToWaking, AwaitingElements,
     AwaitingRoom, shared, client, Quiet, ProducerHandles, ConsumerHandles, Gone,
     FreePcs
<1>10. ASSUME NEW p \in Producers, PushReturns(p)
      PROVE  Quiet \/ Loud
  BY <1>10, <1>0, PushWokenAsleep DEF PushReturns, GoToWaking, AwaitingElements,
     AwaitingRoom, Return, shared, client, Quiet, ProducerHandles, ConsumerHandles,
     Gone, FreePcs
<1>11. ASSUME NEW p \in Producers, pipe_producer_free(p)
      PROVE  Quiet \/ Loud
  BY <1>11 DEF Loud
<1>12. ASSUME NEW p \in Producers, ProducerFreeChecks(p)
      PROVE  Quiet \/ Loud
  BY <1>12, <1>0 DEF ProducerFreeChecks, GoTo, shared, client, Quiet, ProducerHandles,
     ConsumerHandles, Gone, FreePcs
<1>13. ASSUME NEW c \in Consumers, NEW count \in PopCounts, pipe_pop(c, count)
      PROVE  Quiet \/ Loud
  BY <1>13, <1>0 DEF pipe_pop, GoTo, shared, client, Quiet, ProducerHandles,
     ConsumerHandles, Gone, FreePcs
<1>14. ASSUME NEW c \in Consumers, NEW count \in PopCounts, pipe_pop_eager(c, count)
      PROVE  Quiet \/ Loud
  BY <1>14, <1>0 DEF pipe_pop_eager, GoTo, shared, client, Quiet, ProducerHandles,
     ConsumerHandles, Gone, FreePcs
<1>15. ASSUME NEW c \in Consumers, PopEmpty(c)
      PROVE  Quiet \/ Loud
  BY <1>15, <1>0 DEF PopEmpty, GoTo, shared, client, Quiet, ProducerHandles,
     ConsumerHandles, Gone, FreePcs
<1>16. ASSUME NEW c \in Consumers, PopEnds(c)
      PROVE  Quiet \/ Loud
  BY <1>16 DEF Loud
<1>17. ASSUME NEW c \in Consumers, PopBegins(c)
      PROVE  Quiet \/ Loud
  BY <1>17, <1>0 DEF PopBegins, GoTo, shared, client, Quiet, ProducerHandles,
     ConsumerHandles, Gone, FreePcs
<1>18. ASSUME NEW c \in Consumers, PopSleeps(c)
      PROVE  Quiet \/ Loud
  BY <1>18, <1>0 DEF PopSleeps, GoTo, shared, client, Quiet, ProducerHandles,
     ConsumerHandles, Gone, FreePcs
<1>19. ASSUME NEW c \in Consumers, PopCopies(c)
      PROVE  Quiet \/ Loud
  BY <1>19 DEF Loud
<1>20. ASSUME NEW c \in Consumers, TrimLocksEnd(c)
      PROVE  Quiet \/ Loud
  BY <1>20, <1>0 DEF TrimLocksEnd, GoTo, shared, client, Quiet, ProducerHandles,
     ConsumerHandles, Gone, FreePcs
<1>21. ASSUME NEW c \in Consumers, TrimShrinks(c)
      PROVE  Quiet \/ Loud
  BY <1>21 DEF Loud
<1>22. ASSUME NEW c \in Consumers, PopSignals(c)
      PROVE  Quiet \/ Loud
  BY <1>22, <1>0, PopWokenAsleep DEF PopSignals, GoToWaking, AwaitingElements,
     AwaitingRoom, shared, client, Quiet, ProducerHandles, ConsumerHandles, Gone,
     FreePcs
<1>23. ASSUME NEW c \in Consumers, PopReturns(c)
      PROVE  Quiet \/ Loud
  BY <1>23, <1>0, PopWokenAsleep DEF PopReturns, GoToWaking, AwaitingElements,
     AwaitingRoom, Return, shared, client, Quiet, ProducerHandles, ConsumerHandles,
     Gone, FreePcs
<1>24. ASSUME NEW c \in Consumers, pipe_consumer_free(c)
      PROVE  Quiet \/ Loud
  BY <1>24 DEF Loud
<1>25. ASSUME NEW c \in Consumers, ConsumerFreeChecks(c)
      PROVE  Quiet \/ Loud
  BY <1>25, <1>0 DEF ConsumerFreeChecks, GoTo, shared, client, Quiet, ProducerHandles,
     ConsumerHandles, Gone, FreePcs
<1>26. ASSUME NEW p \in Producers, pipe_producer_new(p)
      PROVE  Quiet \/ Loud
  BY <1>26 DEF Loud
<1>27. ASSUME NEW c \in Consumers, pipe_consumer_new(c)
      PROVE  Quiet \/ Loud
  BY <1>27 DEF Loud
<1>28. ASSUME NEW count \in ReserveCounts, pipe_reserve(Main, count)
      PROVE  Quiet \/ Loud
  BY <1>28, <1>0 DEF pipe_reserve, GoTo, shared, client, Quiet, ProducerHandles,
     ConsumerHandles, Gone, FreePcs
<1>29. ASSUME ReserveLocksEnd(Main)
      PROVE  Quiet \/ Loud
  BY <1>29, <1>0 DEF ReserveLocksEnd, GoTo, shared, client, Quiet, ProducerHandles,
     ConsumerHandles, Gone, FreePcs
<1>30. ASSUME ReserveSets(Main)
      PROVE  Quiet \/ Loud
  <2>1. UNCHANGED <<buffer, bufend, begin, end>>
    <3>1. CASE want[Main] <= bytes_in_use(Pipe)
      BY <1>30, <3>1 DEF ReserveSets, shared
    <3>2. CASE ~ (want[Main] <= bytes_in_use(Pipe))
      BY <1>30, <3>2, <1>0, ReserveNeverResizes DEF ReserveSets
    <3>. QED  BY <3>1, <3>2
  <2>. QED
    BY <1>30, <1>0, <2>1
    DEF ReserveSets, GoTo, client, Quiet, ProducerHandles, ConsumerHandles, Gone, FreePcs
<1>31. ASSUME pipe_free
      PROVE  Quiet \/ Loud
  BY <1>31 DEF Loud
<1>32. ASSUME PipeFreeDecides
      PROVE  Quiet \/ Loud
  BY <1>32 DEF Loud
<1>33. ASSUME NEW t \in Threads, WakeConsumers(t)
      PROVE  Quiet \/ Loud
  BY <1>33, <1>0 DEF WakeConsumers, GoToWaking, AwaitingElements, AwaitingRoom,
     shared, client, Quiet, ProducerHandles, ConsumerHandles, Gone, FreePcs
<1>34. ASSUME NEW t \in Threads, WakeProducers(t)
      PROVE  Quiet \/ Loud
  BY <1>34, <1>0 DEF WakeProducers, GoToWaking, AwaitingElements, AwaitingRoom,
     shared, client, Quiet, ProducerHandles, ConsumerHandles, Gone, FreePcs
<1>35. ASSUME NEW t \in Threads, deallocate(t)
      PROVE  Quiet \/ Loud
  BY <1>35 DEF Loud
<1>36. ASSUME NEW t \in Threads, SpuriousWakeup(t)
      PROVE  Quiet \/ Loud
  BY <1>36, <1>0 DEF SpuriousWakeup, GoTo, shared, client, Quiet, ProducerHandles,
     ConsumerHandles, Gone, FreePcs
<1>. QED
  BY <1>1, <1>2, <1>3, <1>4, <1>5, <1>6, <1>7, <1>8, <1>9, <1>10, <1>11, <1>12, <1>13,
     <1>14, <1>15, <1>16, <1>17, <1>18, <1>19, <1>20, <1>21, <1>22, <1>23, <1>24,
     <1>25, <1>26, <1>27, <1>28, <1>29, <1>30, <1>31, <1>32, <1>33, <1>34, <1>35,
     <1>36
  DEF Next, Producer, Consumer, Owner, Pushing, Popping, Freeing

---------------------------------------------------------------------------
(* The refinement.                                                         *)
LEMMA FifoInit == Init => Fifo!Init
<1>. SUFFICES ASSUME Init PROVE Fifo!Init
  OBVIOUS
<1>1. bytes_in_use(Pipe) = 0
  <2>1. InitialCap \in Int /\ ElemSize \in Int /\ ElemSize > 0
    BY PipeNewType, BufferAssumption
  <2>. QED  BY <2>1 DEF Init, bytes_in_use, wraps_around, Pipe
<1>2. Contents = <<>>
  <2>1. Contents = <<>> \/ Contents = [i \in 1 .. 0 |-> Cell(LiveAddr(Pipe, i - 1))]
    BY <1>1 DEF Contents
  <2>. QED  BY <2>1
<1>3. ProducerHandles = {Main} /\ ConsumerHandles = {Main}
  BY PipeAssumption DEF Init, ProducerHandles, ConsumerHandles, Gone, FreePcs, Threads
<1>. QED  BY <1>2, <1>3 DEF Init, Fifo!Init

LEMMA FifoStep ==
  ASSUME PipeInv, PipeInv', Drained, [Next]_vars
  PROVE  [Fifo!Next]_(Fifo!vars)
<1>1. CASE Quiet
  BY <1>1, ContentsKept DEF Quiet, Fifo!vars
<1>2. ASSUME NEW p \in Producers,
             pipe_producer_new(p) \/ PushGrows(p) \/ PushCopies(p) \/ pipe_producer_free(p)
      PROVE  [Fifo!Next]_(Fifo!vars)
  <2>1. Fifo!IssueWriter(p) \/ Fifo!Push(p) \/ Fifo!CloseWriter(p) \/ UNCHANGED Fifo!vars
    BY <1>2, IssueIsIssue, GrowthIsUnseen, CopyIsPush, FreeIsCloseWriter
  <2>. QED  BY <2>1 DEF Fifo!Next
<1>3. ASSUME NEW c \in Consumers,
             \/ pipe_consumer_new(c) \/ PopEnds(c) \/ PopCopies(c) \/ TrimShrinks(c)
             \/ pipe_consumer_free(c)
      PROVE  [Fifo!Next]_(Fifo!vars)
  <2>1. \/ Fifo!IssueReader(c) \/ Fifo!Eof(c) \/ Fifo!Pop(c) \/ Fifo!CloseReader(c)
        \/ UNCHANGED Fifo!vars
    BY <1>3, IssueIsIssue, EndIsEof, CopyIsPop, TrimIsUnseen, FreeIsCloseReader
  <2>. QED  BY <2>1 DEF Fifo!Next
<1>4. CASE pipe_free \/ PipeFreeDecides
  <2>1. Fifo!CloseWriter(Main) \/ Fifo!CloseReader(Main)
    BY <1>4, FreeIsCloseWriter, FreeIsCloseReader
  <2>. QED  BY <2>1 DEF Fifo!Next
<1>5. ASSUME NEW t \in Threads, deallocate(t)
      PROVE  [Fifo!Next]_(Fifo!vars)
  BY <1>5, DeallocateIsDiscard DEF Fifo!Next
<1>. QED  BY <1>1, <1>2, <1>3, <1>4, <1>5, LoudOrQuiet DEF Loud

(* pipe.h:130-132 and 197-205: whatever the threads do and however the     *)
(* buffer wraps, grows and shrinks, the pipe is one first-in first-out     *)
(* queue: pushed elements stay whole, in order and unduplicated, pops      *)
(* split them between the consumers, and the end is told only at the end.  *)
THEOREM PipeImplementsFifo == Spec => ImplementsFifo
<1>1. Init => PipeInv /\ Drained /\ Fifo!Init
  <2>1. Init => Drained
    BY DEF Init, Drained
  <2>. QED  BY <2>1, PipeInit, FifoInit
<1>2. PipeInv /\ Drained /\ [Next]_vars => PipeInv' /\ Drained' /\ [Fifo!Next]_(Fifo!vars)
  <2>1. PipeInv /\ Drained /\ [Next]_vars => PipeInv' /\ Drained'
    BY PipeStep, DrainedStep DEF PipeInv
  <2>. QED  BY <2>1, FifoStep
<1>. QED  BY <1>1, <1>2, PTL DEF Spec, ImplementsFifo, Fifo!Spec
=============================================================================
