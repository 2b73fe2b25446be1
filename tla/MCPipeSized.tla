--------------------------- MODULE MCPipeSized ---------------------------
(***************************************************************************)
(* Pipe for TLC with the sizes that PipeSizes.tla asks for.                *)
(***************************************************************************)
EXTENDS MCPipe, PipeSizes
=============================================================================
