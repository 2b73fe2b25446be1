----------------------------- MODULE AddServer -----------------------------
(***************************************************************************)
(* add_server.c and add_client.c: clients write a request that names their *)
(* own FIFO to the server's FIFO, and open theirs to read the answer.  A   *)
(* request is the client and how many it has sent; its numbers are its own *)
(* and may not be numbers.                                                 *)
(***************************************************************************)
EXTENDS Integers, Sequences

CONSTANTS
  Clients,
  Lines,    \* how many lines each client gets from its user
  Wrong     \* which of them are not numbers: a set of <<client, line>>

VARIABLES
  requests,       \* what is in SERVER_FIFO
  server_writers, \* the clients that have SERVER_FIFO open
  server,         \* where the server is
  buf,            \* the requests the server has read at once
  reply,          \* the answers in each client's FIFO: the requests summed
  reply_writer,   \* the client whose FIFO fd_client is open for, or "none"
  reply_readers,  \* the clients that have their FIFO open
  client,         \* where each client is
  line,           \* how many lines it has sent
  answers,        \* what each of its reads returned
  missed          \* the clients a read of which returned 0

fifos == <<requests, server_writers, reply, reply_writer, reply_readers>>
clients == <<client, line, answers, missed>>
vars == <<fifos, server, buf, clients>>

Init ==
  /\ requests = <<>> /\ server_writers = {} /\ buf = <<>>
  /\ server = "start"
  /\ reply = [c \in Clients |-> <<>>] /\ reply_writer = "none" /\ reply_readers = {}
  /\ client = [c \in Clients |-> "input"] /\ line = [c \in Clients |-> 0]
  /\ answers = [c \in Clients |-> <<>>] /\ missed = {}

-----------------------------------------------------------------------------
(* The server makes its FIFO and opens it: its open returns when a client  *)
(* opens it too.                                                           *)
OpenServerFifo ==
  /\ server = "start" /\ server' = "open"
  /\ UNCHANGED <<fifos, buf, clients>>

(* read takes every request that is there.                                 *)
ReadRequests ==
  /\ server = "read" /\ requests # <<>>
  /\ buf' = requests /\ requests' = <<>>
  /\ server' = "open_reply"
  /\ UNCHANGED <<server_writers, reply, reply_writer, reply_readers, clients>>

(* No writer is left: read returns 0 and the loop goes on.                 *)
IdleAnswersAgain ==               \* mutant: neither memset nor continue
  /\ server = "read" /\ requests = <<>> /\ server_writers = {}
  /\ server' = IF buf = <<>> THEN "read" ELSE "open_reply"
  /\ UNCHANGED <<fifos, buf, clients>>
ReadNothing ==
  /\ server = "read" /\ requests = <<>> /\ server_writers = {}
  /\ buf' = <<>>
  /\ UNCHANGED <<fifos, server, clients>>

(* The first word is the FIFO to answer in; every word after it, the names *)
(* that come with further requests too, must be a number.  An error is the *)
(* sum of nothing.                                                         *)
Asker == buf[1][1]
SumOfAny == {buf[k] : k \in DOMAIN buf}       \* mutant: *ptr is not looked at
Sum == IF Len(buf) = 1 /\ buf[1] \notin Wrong THEN {buf[1]} ELSE {}

(* open for writing waits for the client's open for reading and wakes it.  *)
OpenReply ==
  /\ server = "open_reply" /\ Asker \in reply_readers
  /\ reply_writer' = Asker /\ server' = "write"
  /\ client' = [client EXCEPT ![Asker] = IF @ = "opening" THEN "read" ELSE @]
  /\ UNCHANGED <<requests, server_writers, reply, reply_readers, buf,
                 line, answers, missed>>

(* If the client has closed its FIFO in the meantime, SIGPIPE ends the     *)
(* server.                                                                 *)
WriteReply ==
  /\ server = "write"
  /\ IF Asker \in reply_readers
     THEN /\ server' = "close" /\ reply' = [reply EXCEPT ![Asker] = Append(@, Sum)]
          /\ UNCHANGED reply_writer
     ELSE server' = "killed" /\ reply_writer' = "none" /\ UNCHANGED reply
  /\ UNCHANGED <<requests, server_writers, reply_readers, buf, clients>>

(* What is in a FIFO nobody has open is lost.                              *)
CloseReply ==
  /\ server = "close" /\ server' = "read"
  /\ reply_writer' = "none"
  /\ reply' = IF Asker \in reply_readers THEN reply ELSE [reply EXCEPT ![Asker] = <<>>]
  /\ UNCHANGED <<requests, server_writers, reply_readers, buf, clients>>

-----------------------------------------------------------------------------
(* A client reads a line from its user, or ends.                           *)
Becomes(c, from, to) == client[c] = from /\ client' = [client EXCEPT ![c] = to]

ReadLine(c) ==
  /\ Becomes(c, "input", IF line[c] < Lines THEN "open_server" ELSE "ended")
  /\ line' = [line EXCEPT ![c] = IF @ < Lines THEN @ + 1 ELSE @]
  /\ UNCHANGED <<fifos, server, buf, answers, missed>>

(* The server's FIFO is not there yet: the client ends.                    *)
NoServerFifo(c) ==
  /\ server = "start" /\ Becomes(c, "open_server", "ended")
  /\ UNCHANGED <<fifos, server, buf, line, answers, missed>>

OpenServer(c) ==
  /\ server \notin {"start", "killed"} /\ Becomes(c, "open_server", "send")
  /\ server_writers' = server_writers \cup {c}
  /\ server' = IF server = "open" THEN "read" ELSE server
  /\ UNCHANGED <<requests, reply, reply_writer, reply_readers, buf, line, answers, missed>>

SendRequest(c) ==
  /\ IF server = "killed"
     THEN Becomes(c, "send", "killed") /\ UNCHANGED requests
     ELSE Becomes(c, "send", "close_server") /\ requests' = Append(requests, <<c, line[c]>>)
  /\ UNCHANGED <<server_writers, reply, reply_writer, reply_readers, server, buf,
                 line, answers, missed>>

CloseServer(c) ==
  /\ Becomes(c, "close_server", "open_reply")
  /\ server_writers' = server_writers \ {c}
  /\ UNCHANGED <<requests, reply, reply_writer, reply_readers, server, buf,
                 line, answers, missed>>

(* open for reading waits for a writer, unless the server still has the    *)
(* FIFO open for an earlier answer.                                        *)
OpenFifo(c) ==
  /\ Becomes(c, "open_reply", IF reply_writer = c THEN "read" ELSE "opening")
  /\ reply_readers' = reply_readers \cup {c}
  /\ UNCHANGED <<requests, server_writers, reply, reply_writer, server, buf,
                 line, answers, missed>>

ReadReply(c) ==
  /\ reply[c] # <<>> \/ reply_writer # c
  /\ Becomes(c, "read", "close")
  /\ answers' = [answers EXCEPT ![c] = Append(@, reply[c])]
  /\ missed' = IF reply[c] = <<>> THEN missed \cup {c} ELSE missed
  /\ reply' = [reply EXCEPT ![c] = <<>>]
  /\ UNCHANGED <<requests, server_writers, reply_writer, reply_readers, server, buf, line>>

CloseFifo(c) ==
  /\ Becomes(c, "close", "input")
  /\ reply_readers' = reply_readers \ {c}
  /\ reply' = IF reply_writer = c THEN reply ELSE [reply EXCEPT ![c] = <<>>]
  /\ UNCHANGED <<requests, server_writers, reply_writer, server, buf, line, answers, missed>>

Server ==
  \/ OpenServerFifo \/ ReadRequests \/ ReadNothing
  \/ OpenReply \/ WriteReply \/ CloseReply
Client(c) ==
  \/ ReadLine(c) \/ NoServerFifo(c) \/ OpenServer(c) \/ SendRequest(c)
  \/ CloseServer(c) \/ OpenFifo(c) \/ ReadReply(c) \/ CloseFifo(c)
Next == Server \/ \E c \in Clients : Client(c)
Spec == Init /\ [][Next]_vars

-----------------------------------------------------------------------------
Requests == Clients \X (1 .. Lines)
TypeOK ==
  /\ requests \in Seq(Requests) /\ buf \in Seq(Requests)
  /\ server_writers \subseteq Clients /\ reply_readers \subseteq Clients
  /\ reply_writer \in Clients \cup {"none"}
  /\ reply \in [Clients -> Seq(SUBSET Requests)]

(* The sums a client prints are sums of its own requests, of each at most  *)
(* once and in the order it sent them: requests that the server reads at   *)
(* once are refused, never added up.                                       *)
SumsOwn ==
  \A c \in Clients :
    /\ \A a \in DOMAIN answers[c] : \A j \in DOMAIN answers[c][a] :
         answers[c][a][j] # {} => \E n \in 1 .. line[c] :
           answers[c][a][j] = {<<c, n>>} /\ <<c, n>> \notin Wrong
    /\ \A a, b \in DOMAIN answers[c] :
         \A j \in DOMAIN answers[c][a], k \in DOMAIN answers[c][b], m, n \in 1 .. Lines :
           /\ answers[c][a][j] = {<<c, m>>} /\ answers[c][b][k] = {<<c, n>>}
           /\ a < b \/ (a = b /\ j < k)
           => m < n

(* As long as no read of a client has found its FIFO closed, the server is *)
(* there and what a client reads after a request is the one answer to it.  *)
(* (A client that opens its FIFO before the server has closed it after the *)
(* answer before reads nothing, and then the answer to an earlier request, *)
(* or it ends the server by closing its FIFO.)                             *)
InStep ==
  missed = {} =>
    /\ server # "killed"
    /\ \A c \in Clients : \A k \in DOMAIN answers[c] :
         answers[c][k] \in {<<{}>>, <<{<<c, k>>}>>}

(* "send request message to add_server and receive server's response"      *)
(* (add_client.c:3): what a client reads after a request is no answer to   *)
(* one of its earlier requests.                                            *)
AnswersInTurn ==
  \A c \in Clients : \A k \in DOMAIN answers[c] : \A j \in DOMAIN answers[c][k] :
    answers[c][k][j] \in {{}, {<<c, k>>}}

(* From the same lines: the request of a client that waits to open its     *)
(* FIFO is still to be read, or the server is at work on what it read.     *)
NobodyWaitsInVain ==
  \A c \in Clients : client[c] = "opening" =>
    \/ \E k \in DOMAIN requests : requests[k] = <<c, line[c]>>
    \/ server # "read" /\ \E k \in DOMAIN buf : buf[k] = <<c, line[c]>>
=============================================================================
