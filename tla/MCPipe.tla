------------------------------ MODULE MCPipe ------------------------------
(***************************************************************************)
(* Pipe for TLC.  Threads of a kind are interchangeable: nothing in the    *)
(* code or the safety properties tells them apart.                         *)
(***************************************************************************)
EXTENDS PipeProps, TLC

Symmetry == Permutations(Producers) \cup Permutations(Consumers)
===========================================================================
