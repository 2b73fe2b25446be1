----------------------------- MODULE PipeSizes -----------------------------
(***************************************************************************)
(* The element sizes, limits and reservations for which the buffer of a    *)
(* pipe stays well formed.  Outside them it does not: a limit below        *)
(* DEFAULT_MINCAP leaves no room for the sentinel, a reservation above the *)
(* buffer forbids its growth, one below half the initial buffer lets       *)
(* trim_buffer halve an odd number of elements, and an element size that   *)
(* is no power of two does not divide max_cap.                             *)
(***************************************************************************)
EXTENDS PipeProps

(* All the bytes the producers may ever push.                              *)
TotalBytes == Cardinality(Producers) * (Elements * ElemSize)

ASSUME SizesAssumption ==
  /\ DefaultMincap \in PowersOfTwo /\ DefaultMincap > 1
  /\ InitialCap <= SizeMax
  /\ Limit = 0 =>
       \A needed \in 1 .. TotalBytes :
         /\ next_pow2(needed \div ElemSize + 1) \in PowersOfTwo
         /\ GrowSize(needed) + ElemSize <= SizeMax
  /\ Limit # 0 =>
       /\ Limit >= DefaultMincap
       /\ ElemSize \in PowersOfTwo
       /\ max_cap \in PowersOfTwo /\ max_cap + ElemSize <= SizeMax
  /\ \A size \in ReserveSizes : InitialCap <= 2 * size /\ size <= InitialCap

===========================================================================
