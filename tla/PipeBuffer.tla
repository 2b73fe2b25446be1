---------------------------- MODULE PipeBuffer ----------------------------
(***************************************************************************)
(* The byte arithmetic of the circular buffer of pipe.c, without threads   *)
(* or locks.  The code's pointers `buffer`, `begin`, `end` and `bufend`    *)
(* are offsets from `buffer` here, so `buffer` itself is 0.                *)
(*                                                                         *)
(* A snapshot_t is a record [bufend, begin, end].  `begin` points at the   *)
(* sentinel element: the left-most element of the pipe starts ElemSize     *)
(* bytes after it.  `end` points past the right-most element.              *)
(***************************************************************************)
EXTENDS Integers

CONSTANTS
  ElemSize,       \* elem_size, the argument of pipe_new
  Limit,          \* original_limit, in elements; 0 means no limit
  DefaultMincap,  \* DEFAULT_MINCAP, in elements: 32, or 2 under PIPE_DEBUG
  SizeMax         \* ~(size_t)0, the largest size_t

ASSUME BufferAssumption ==
  /\ ElemSize \in Nat \ {0}
  /\ Limit \in Nat
  /\ DefaultMincap \in Nat \ {0}
  /\ SizeMax \in Nat \ {0}

SizeT(x) == x % (SizeMax + 1)        \* the cast of a ptrdiff_t to size_t

MinOf(a, b) == IF a <= b THEN a ELSE b
MaxOf(a, b) == IF a >= b THEN a ELSE b

(***************************************************************************)
(* The smallest power of two that is at least n, or n itself when rounding *)
(* up would overflow a size_t.  A power of two has no odd divisor but 1.   *)
(***************************************************************************)
PowersOfTwo ==
  {p \in 1 .. SizeMax : \A d \in 1 .. p : p % d = 0 => d = 1 \/ d % 2 = 0}

next_pow2(n) ==
  LET up == {p \in PowersOfTwo : p >= n}
  IN  IF up = {} THEN n ELSE CHOOSE p \in up : \A q \in up : p <= q

(***************************************************************************)
(* The capacity limit that pipe_new computes, in bytes.  Nothing writes    *)
(* max_cap afterwards, so it is a constant of the pipe.                    *)
(***************************************************************************)
InitialCap == DefaultMincap * ElemSize

max_cap ==
  IF Limit = 0
  THEN SizeMax
  ELSE next_pow2(MaxOf((Limit + 1) * ElemSize, InitialCap))

capacity(s) == s.bufend - ElemSize

wraps_around(s) == s.begin >= s.end

bytes_in_use(s) ==
  (IF wraps_around(s) THEN s.end + (s.bufend - s.begin) ELSE s.end - s.begin)
    - ElemSize

wrap_ptr_if_necessary(p, bufend) == IF p >= bufend THEN p - bufend ELSE p

rev_wrap_ptr_if_necessary(p, bufend) == IF p < 0 THEN bufend + p ELSE p

(***************************************************************************)
(* process_push: where the i-th of the n bytes goes (from 0), and the      *)
(* value returned for p->end.  A nowrap buffer is first filled up to       *)
(* bufend; a wrapped one is written straight from `end`.                   *)
(***************************************************************************)
AtEnd(s, n) == MinOf(n, SizeT(s.bufend - s.end))

PushAddr(s, n, i) ==
  IF wraps_around(s) \/ i < AtEnd(s, n) THEN s.end + i ELSE i - AtEnd(s, n)

(* Mutant: process_push forgets its last wrap.                             *)
PushedEndUnwrapped(s, n) ==
  LET first == IF wraps_around(s) THEN 0 ELSE AtEnd(s, n)
  IN  IF first < n
      THEN wrap_ptr_if_necessary(s.end + first, s.bufend) + (n - first)
      ELSE s.end + first

PushedEnd(s, n) ==
  LET first == IF wraps_around(s) THEN 0 ELSE AtEnd(s, n)
      mid   == s.end + first
      rest  == IF first < n
               THEN wrap_ptr_if_necessary(mid, s.bufend) + (n - first)
               ELSE mid
  IN  wrap_ptr_if_necessary(rest, s.bufend)

(***************************************************************************)
(* pop_without_locking: where the i-th of the n bytes is read (from 0),    *)
(* and the new value of p->begin.  First the bytes right of the sentinel,  *)
(* as far as bufend; then, past the sentinel again, the rest from the left *)
(* end of the buffer.                                                      *)
(***************************************************************************)
FirstBytes(s, n) == MinOf(n, SizeT(s.bufend - s.begin - ElemSize))

PastSentinel(s, n) ==
  wrap_ptr_if_necessary(
    wrap_ptr_if_necessary(s.begin + FirstBytes(s, n), s.bufend) + ElemSize,
    s.bufend)

PopAddr(s, n, i) ==
  IF i < FirstBytes(s, n)
  THEN s.begin + ElemSize + i
  ELSE PastSentinel(s, n) + (i - FirstBytes(s, n))

(* Mutant: after a wrap `begin` is not moved back onto the sentinel.       *)
PoppedBeginAtElement(s, n) ==
  IF n > FirstBytes(s, n)
  THEN wrap_ptr_if_necessary(PastSentinel(s, n) + (n - FirstBytes(s, n)), s.bufend)
  ELSE wrap_ptr_if_necessary(s.begin + FirstBytes(s, n), s.bufend)

PoppedBegin(s, n) ==
  IF n > FirstBytes(s, n)
  THEN rev_wrap_ptr_if_necessary(
         wrap_ptr_if_necessary(PastSentinel(s, n) + (n - FirstBytes(s, n)), s.bufend)
           - ElemSize,
         s.bufend)
  ELSE wrap_ptr_if_necessary(s.begin + FirstBytes(s, n), s.bufend)

(***************************************************************************)
(* The address of the i-th byte of the pipe (from 0), and the addresses of *)
(* all the bytes that were pushed and not yet popped.                      *)
(***************************************************************************)
LiveAddr(s, i) == (s.begin + ElemSize + i) % s.bufend

LiveAddrs(s) == {LiveAddr(s, i) : i \in 0 .. bytes_in_use(s) - 1}

(***************************************************************************)
(* resize_buffer refuses to shrink below, or to, min_cap and never goes    *)
(* past max_cap: the size it allocates for, and whether it allocates.      *)
(***************************************************************************)
ResizeTo(new_size) == MinOf(new_size, max_cap)

Resizes(new_size, min_cap) == ResizeTo(new_size) > min_cap

(***************************************************************************)
(* The size validate_size asks of resize_buffer to hold `needed` bytes.    *)
(***************************************************************************)
GrowSize(needed) == next_pow2(needed \div ElemSize + 1) * ElemSize
=============================================================================
