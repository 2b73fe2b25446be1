----------------------------- MODULE MCSocks5 -----------------------------
(***************************************************************************)
(* Two clients and three descriptors, one less than two pairs take: the    *)
(* second client meets a table that is full, or one whose numbers have     *)
(* just been given back.                                                   *)
(***************************************************************************)
EXTENDS Socks5, TLC
CONSTANTS c1, c2

(* c1 asks for a host by its name, which takes every field there is, short *)
(* or long, or for BIND, which is refused; c2 for an address.              *)
MCAsks == c1 :> {"name", "longname", "bind"} @@ c2 :> {"ipv4"}

(* A request of two tokens may come in two pieces, and read_cb takes two   *)
(* tokens at a time, so that one read is short and one is not.             *)
MCFieldLen == [field \in FieldNames |-> IF field = "request" THEN 2 ELSE 1]

(* c1 may pause once, in the middle of its request: after the header, the  *)
(* methods and the first of the two tokens of the request.                 *)
MCPauses == [e \in Ends |-> IF e = Client(c1) THEN {3} ELSE {}]

MCPayload == [e \in Ends |-> IF e[1] = c2 THEN 0 ELSE 1]

(* c1 may close, reset, or close and then reset; its remote may be lost to *)
(* the network and that of c2 may close.                                   *)
MCFaults == Client(c1) :> {"fin", "reset", "broken"} @@ Remote(c1) :> {"lost"}
              @@ Client(c2) :> {} @@ Remote(c2) :> {"fin"}

(* One client alone, whom nothing happens to.                              *)
AloneFaults == [e \in Ends |-> {}]
AlonePayload == [e \in Ends |-> 1]

(* It asks for an address and pauses in the middle of its request.         *)
AsksAddress == [c \in Conns |-> {"ipv4"}]
PausesInRequest == [e \in Ends |-> IF e = Client(c1) THEN {3} ELSE {}]

(* It asks for a long name, all of it in one piece, and sends its first    *)
(* data when the proxy has begun to read.                                  *)
AsksLongName == [c \in Conns |-> {"longname"}]
PausesAfterHandshake == [e \in Ends |-> IF e = Client(c1) THEN {7} ELSE {}]
===========================================================================
