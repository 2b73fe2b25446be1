------------------------------ MODULE MCEcho ------------------------------
(***************************************************************************)
(* The echo server with one client, one descriptor and one handler: the    *)
(* second message is shorter than the first and neither fills the buffer.  *)
(***************************************************************************)
EXTENDS EchoServer, TLC

TwoThenOne == "c1" :> <<2, 3>>
===========================================================================
