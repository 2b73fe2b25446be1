---------------------------- MODULE MCPrograms ----------------------------
(***************************************************************************)
(* The programs on small instances, for TLC.                               *)
(***************************************************************************)
EXTENDS Programs, TLC

(* pipe_util.c and thread_ring.c: three processors or threads, a buffer of *)
(* two where the code has one of 128, and three elements, so that the last *)
(* buffer is not full; a token that stops at once, at the next thread and  *)
(* after more than a round.  CountWatch: the limit is below what the two   *)
(* threads count to together, as 12 is below 20, and above what one does   *)
(* alone.  AddServer: three lines, as an answer may come one and two       *)
(* requests late; one of the second client is not a number.                *)
MCWrong == {<<"c2", 1>>}

(* EchoServer: one client sends a long message and a short one; descriptors*)
(* run out after the two clients, threads one later.                       *)
MCSends == "c1" :> <<2, 3>> @@ "c2" :> <<>>

(* AptCyg: a and b require each other, d is not to be had; an interrupt, an*)
(* outage and a command after them.                                        *)
MCRequires == "a" :> <<"c", "b">> @@ "b" :> <<"a">> @@ "c" :> <<>> @@ "d" :> <<>>
Command(op, targets, nodeps) == [op |-> op, targets |-> targets, nodeps |-> nodeps]
MCCommands ==
  {Command("install", <<"a">>, FALSE), Command("install", <<"c", "d">>, FALSE),
   Command("install", <<"b", "c">>, TRUE), Command("remove", <<"b", "c">>, FALSE)}
=============================================================================
