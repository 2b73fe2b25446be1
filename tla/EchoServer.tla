---------------------------- MODULE EchoServer ----------------------------
(***************************************************************************)
(* Handle-multiple-socket-connections-with-threads.c: main accepts and says*)
(* hello, a thread of connection_handler2 for each connection greets the   *)
(* client and sends back what it receives.  Descriptors are never closed   *)
(* and threads never joined: descriptor k is the k-th connection accepted, *)
(* and both run out.                                                       *)
(***************************************************************************)
EXTENDS Integers, Sequences

CONSTANTS
  Clients,
  Sends,      \* of each client, after how many bytes each message it sends ends
  MaxFds,     \* descriptors the process may still open
  MaxThreads, \* threads it may create
  Size        \* sizeof client_message

Handlers == 1 .. MaxThreads
NUL == 0
Junk == -1        \* what the stack has left in client_message
Beyond == -2      \* what follows client_message in memory

VARIABLES
  peer,        \* each client: "idle", "open", "fin" (closed its end), "reset"
  pending,     \* the connections listen has queued
  accepted,    \* the connections accept has returned
  inbox,       \* bytes sent and not received
  sent,        \* how many messages each client has sent
  outbox,      \* what was written to each client
  acceptor,    \* where main is, in its loop on accept
  new_socket,
  created,     \* how many threads there are
  new_sock,    \* what main has stored for each of them
  handler, sock, client_message, read_size

peers == <<peer, pending, inbox, sent>>
mains == <<acceptor, new_socket, created, new_sock>>
handlers == <<handler, sock, client_message, read_size>>
vars == <<peers, accepted, outbox, mains, handlers>>

Init ==
  /\ peer = [c \in Clients |-> "idle"] /\ pending = <<>> /\ accepted = <<>>
  /\ inbox = [c \in Clients |-> <<>>] /\ outbox = [c \in Clients |-> <<>>]
  /\ sent = [c \in Clients |-> 0]
  /\ acceptor = "accept" /\ new_socket = -1 /\ created = 0
  /\ new_sock = [t \in Handlers |-> -1] /\ sock = [t \in Handlers |-> -1]
  /\ handler = [t \in Handlers |-> "none"]
  /\ client_message = [t \in Handlers |-> <<>>] /\ read_size = [t \in Handlers |-> 0]

(* Byte k of all that a client sends is k.                                 *)
EndOf(c, m) == IF m = 0 THEN 0 ELSE Sends[c][m]
Message(c, m) ==
  [n \in 1 .. EndOf(c, m) - EndOf(c, m - 1) |-> EndOf(c, m - 1) + n]

-----------------------------------------------------------------------------
(* The clients and the network.                                            *)
Connect(c) ==
  /\ peer[c] = "idle"
  /\ peer' = [peer EXCEPT ![c] = "open"] /\ pending' = Append(pending, c)
  /\ UNCHANGED <<inbox, sent, accepted, outbox, mains, handlers>>

Send(c) ==
  /\ peer[c] = "open" /\ sent[c] < Len(Sends[c])
  /\ inbox' = [inbox EXCEPT ![c] = @ \o Message(c, sent[c] + 1)]
  /\ sent' = [sent EXCEPT ![c] = @ + 1]
  /\ UNCHANGED <<peer, pending, accepted, outbox, mains, handlers>>

Leave(c) ==
  /\ peer[c] = "open"
  /\ peer' = [peer EXCEPT ![c] = "fin"]
  /\ UNCHANGED <<pending, inbox, sent, accepted, outbox, mains, handlers>>

(* write: EBADF for no descriptor.  A peer that has closed, not only its   *)
(* sending side, answers with a reset, and the write after that ends the   *)
(* process with SIGPIPE.                                                   *)
Dies(fd) == fd > 0 /\ peer[accepted[fd]] = "reset"
Write(fd, what) ==
  IF fd < 0 \/ Dies(fd) THEN UNCHANGED <<peer, inbox, outbox>>
  ELSE LET c == accepted[fd] IN
    /\ outbox' = [outbox EXCEPT ![c] = Append(@, what)]
    /\ \E then \in IF peer[c] = "fin" THEN {"fin", "reset"} ELSE {peer[c]} :
         /\ peer' = [peer EXCEPT ![c] = then]
         /\ inbox' = IF then = "reset" THEN [inbox EXCEPT ![c] = <<>>] ELSE inbox

-----------------------------------------------------------------------------
(* accept returns -1, which is not 0, when the descriptors are used up.    *)
Accept ==
  /\ acceptor = "accept" /\ acceptor' = "hello"
  /\ \/ /\ Len(accepted) = MaxFds
        /\ new_socket' = -1 /\ UNCHANGED <<pending, accepted>>
     \/ /\ Len(accepted) < MaxFds /\ pending # <<>>
        /\ accepted' = Append(accepted, Head(pending)) /\ pending' = Tail(pending)
        /\ new_socket' = Len(accepted')
  /\ UNCHANGED <<peer, inbox, sent, outbox, created, new_sock, handlers>>

Hello ==
  /\ acceptor = "hello"
  /\ acceptor' = IF Dies(new_socket) THEN "killed" ELSE "create"
  /\ Write(new_socket, "hello")
  /\ UNCHANGED <<pending, sent, accepted, new_socket, created, new_sock, handlers>>

(* pthread_create's errors are positive and pass for success.              *)
CreateThread ==
  /\ acceptor = "create" /\ acceptor' = "accept"
  /\ IF created = MaxThreads THEN UNCHANGED <<created, new_sock, handler>>
     ELSE /\ created' = created + 1
          /\ new_sock' = [new_sock EXCEPT ![created + 1] = new_socket]
          /\ handler' = [handler EXCEPT ![created + 1] = "start"]
  /\ UNCHANGED <<peers, accepted, outbox, new_socket, sock, client_message, read_size>>

-----------------------------------------------------------------------------
(* connection_handler2.  client_message is not initialised: its first recv *)
(* leaves in the rest of it what the stack held.                           *)
Goes(t, from, to) == handler[t] = from /\ handler' = [handler EXCEPT ![t] = to]

SharesNewSocket(t) ==             \* mutant: pthread_create is given &new_socket
  /\ Goes(t, "start", "greet")
  /\ sock' = [sock EXCEPT ![t] = new_socket]
  /\ UNCHANGED <<peers, accepted, outbox, mains, client_message, read_size>>
Start(t) ==
  /\ Goes(t, "start", "greet")
  /\ sock' = [sock EXCEPT ![t] = new_sock[t]]
  /\ UNCHANGED <<peers, accepted, outbox, mains, client_message, read_size>>

Says(t, from, to, what) ==
  /\ Goes(t, from, to) /\ Write(sock[t], what)
  /\ acceptor' = IF Dies(sock[t]) THEN "killed" ELSE acceptor
  /\ UNCHANGED <<pending, sent, accepted, new_socket, created, new_sock,
                 sock, client_message, read_size>>

Greet(t) == Says(t, "greet", "invite", "greetings")
Invite(t) == Says(t, "invite", "recv", "type")

Recv(t) ==
  /\ handler[t] = "recv" /\ sock[t] > 0
  /\ LET c == accepted[sock[t]]
         n == IF Len(inbox[c]) < Size THEN Len(inbox[c]) ELSE Size
     IN  /\ n > 0
         /\ Goes(t, "recv", "echo")
         /\ \E old \in IF client_message[t] = <<>> THEN [1 .. Size -> {NUL, Junk}]
                                                   ELSE {client_message[t]} :
              client_message' = [client_message EXCEPT
                ![t] = [k \in 1 .. Size |-> IF k <= n THEN inbox[c][k] ELSE old[k]]]
         /\ inbox' = [inbox EXCEPT ![c] = SubSeq(@, n + 1, Len(@))]
         /\ read_size' = [read_size EXCEPT ![t] = n]
  /\ UNCHANGED <<peer, pending, sent, accepted, outbox, mains, sock>>

(* recv returns 0 or -1: the thread ends and leaves the socket open.       *)
RecvEnds(t) ==
  /\ Goes(t, "recv", "ended")
  /\ sock[t] > 0 =>
       inbox[accepted[sock[t]]] = <<>> /\ peer[accepted[sock[t]]] # "open"
  /\ UNCHANGED <<peers, accepted, outbox, mains, sock, client_message, read_size>>

(* write(strlen): up to the first NUL, beyond the array if there is none.  *)
CutsLastByte(t) ==                \* mutant: client_message[read_size - 1] = 0
  {SubSeq(client_message[t], 1, read_size[t] - 1)}
Text(t) ==
  LET ends == {k \in 1 .. Size : client_message[t][k] = NUL}
  IN  IF ends = {} THEN {client_message[t], Append(client_message[t], Beyond)}
      ELSE {SubSeq(client_message[t], 1, k - 1) : k \in {k \in ends : \A j \in ends : k <= j}}

Echo(t) ==
  /\ handler[t] = "echo"
  /\ \E text \in Text(t) :
       Says(t, "echo", "recv", <<SubSeq(client_message[t], 1, read_size[t]), text>>)

Main == Accept \/ Hello \/ CreateThread
connection_handler2(t) ==
  Start(t) \/ Greet(t) \/ Invite(t) \/ Recv(t) \/ RecvEnds(t) \/ Echo(t)
Next ==
  /\ acceptor # "killed"
  /\ \/ Main
     \/ \E t \in Handlers : connection_handler2(t)
     \/ \E c \in Clients : Connect(c) \/ Send(c) \/ Leave(c)
Spec == Init /\ [][Next]_vars

-----------------------------------------------------------------------------
TypeOK ==
  /\ pending \in Seq(Clients) /\ accepted \in Seq(Clients) /\ Len(accepted) <= MaxFds
  /\ created \in 0 .. MaxThreads /\ new_socket \in {-1} \cup (1 .. MaxFds)
  /\ sock \in [Handlers -> {-1} \cup (1 .. MaxFds)]
  /\ client_message \in [Handlers -> {<<>>} \cup [1 .. Size -> Int]]

(* However fast main accepts the next connection, no two handlers serve the*)
(* same one, and one that is accepted has a handler for as long as threads *)
(* can be created.                                                         *)
HandlersApart ==
  /\ \A t, u \in Handlers : t # u /\ sock[t] = sock[u] => sock[t] = -1
  /\ acceptor = "accept" => \A fd \in DOMAIN accepted :
       created = MaxThreads \/ \E t \in Handlers :
         new_sock[t] = fd /\ (handler[t] # "start" => sock[t] = fd)

Greetings == <<"hello", "greetings", "type">>

(* The last byte of what the k-th write to a client sends back.            *)
LastByte(c, k) ==
  IF k <= 3 THEN 0 ELSE LET bytes == outbox[c][k][1] IN bytes[Len(bytes)]

(* Main's hello comes first, then the handler's greetings, and then every  *)
(* write begins with all the bytes that one recv took: these beginnings    *)
(* are what the client sent, each byte once and in order.  What follows    *)
(* such a beginning in the same write, up to the first NUL, is what an     *)
(* earlier message or the stack has left in the buffer.                    *)
EchoesMessages ==
  \A c \in Clients : \A k \in DOMAIN outbox[c] :
    IF k <= 3 THEN outbox[c][k] = Greetings[k]
    ELSE LET bytes == outbox[c][k][1]
             text == outbox[c][k][2]
         IN  /\ bytes # <<>> /\ \A j \in DOMAIN bytes : bytes[j] = LastByte(c, k - 1) + j
             /\ LastByte(c, k) <= EndOf(c, sent[c])
             /\ Len(bytes) <= Len(text) /\ \A j \in DOMAIN bytes : text[j] = bytes[j]

(* "i shall repeat what you type" (line 114, and line 149 says the same):  *)
(* a client's bytes come back when they were received, and not once more   *)
(* behind a later message.                                                 *)
RepeatsWhatWasTyped ==
  \A c \in Clients : \A k \in DOMAIN outbox[c] : k > 3 =>
    LET bytes == outbox[c][k][1]
        text == outbox[c][k][2]
    IN  \A j \in DOMAIN text : text[j] > 0 => j \in DOMAIN bytes
=============================================================================
