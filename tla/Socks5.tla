------------------------------ MODULE Socks5 ------------------------------
(***************************************************************************)
(* The SOCKS5 proxy (srcs/socks5-src/src/socks5/socks5.c): one thread, a   *)
(* libev loop, a listening socket, and for each client a pair of           *)
(* cross-linked read watchers.  A callback that blocks (the handshake      *)
(* inside accept_cb, the send inside read_cb) holds the loop; the network  *)
(* and the signals do not wait for it.                                     *)
(*                                                                         *)
(* An end <<c, side>> is one of the two sockets of client c's connection.  *)
(* Bytes are counted in tokens: the handshake fields take FieldLen tokens  *)
(* each, payload tokens follow.                                            *)
(***************************************************************************)
EXTENDS Integers, Sequences

CONSTANTS
  Conns,         \* the clients, each of which connects at most once
  Fds,           \* the descriptor numbers the process may use for them
  Asks,          \* what each client may ask for
  FieldLen,      \* tokens of each field of the handshake
  Payload,       \* tokens each end sends after the handshake
  Pauses,        \* how many tokens may be on hand at each end before the rest
  Faults,        \* how the other side of each end may go away
  BUFFER_SIZE,   \* tokens that fit into the buffers of socks5_auth and read_cb
  LenMax,        \* tokens the largest length of one byte asks for
  None           \* a descriptor nobody uses

(* "longname" is a CONNECT to a name of 128 bytes or more.                 *)
Named == {"name", "longname"}
Requests == {"ipv4", "ipv6", "bind", "socks4"} \cup Named
FieldNames == {"header", "methods", "request", "addr", "len", "name", "port"}

ASSUME FdsAssumption == Fds \subseteq Nat \ {0}
ASSUME NoneAssumption == None \notin Conns \X {"client", "remote"}
ASSUME FieldLenAssumption == FieldLen \in [FieldNames -> Nat \ {0}]
ASSUME PayloadAssumption == Payload \in [Conns \X {"client", "remote"} -> Nat]
ASSUME PausesAssumption == Pauses \in [Conns \X {"client", "remote"} -> SUBSET Nat]
ASSUME BufferAssumption == BUFFER_SIZE \in Nat \ {0}
ASSUME LengthAssumption ==
  LenMax \in FieldLen["methods"] .. BUFFER_SIZE /\ FieldLen["name"] <= LenMax
ASSUME FaultsAssumption ==
  Faults \in [Conns \X {"client", "remote"} -> SUBSET {"fin", "reset", "lost", "broken"}]

Ends == Conns \X {"client", "remote"}
Client(c) == <<c, "client">>
Remote(c) == <<c, "remote">>
Accepting == <<None, "accept">>    \* g_io_accept, as an element of pending
Reply(name) == <<None, name>>    \* what the proxy itself says to a client
Peer(e) == IF e[2] = "client" THEN Remote(e[1]) ELSE Client(e[1])

VARIABLES
  request,    \* what each client asks for
  proc,       \* what became of the process
  backlog,    \* clients the kernel has connected and nobody accepted
  net,        \* what the kernel has heard from the other side of each end
  arrived, taken,  \* tokens that reached each end, tokens recv took from it
  wrote,      \* tokens send put on each end
  files,      \* the descriptor table: the end each number is open on
  watcher,    \* the state of each end's ev_io
  wfd,        \* its fd field
  pending,    \* events the last poll found and the loop has not dispatched
  pc, cur,    \* where the callback in progress blocks, the end it serves
  client_fd, remote,  \* locals of accept_cb and socks5_auth
  buf,        \* what read_cb has read and not sent
  sync,       \* every field of this handshake arrived in one recv
  dialled     \* the address connect was given: the one asked for or another

netv == <<request, backlog, net, arrived>>
evv == <<watcher, wfd, pending>>
authv == <<client_fd, remote, sync, dialled>>
vars == <<request, proc, backlog, net, arrived, taken, wrote, files, watcher, wfd,
          pending, pc, cur, client_fd, remote, buf, sync, dialled>>

Running == proc = "running"
(* The tokens of a handshake: those of the fields socks5_auth reads for     *)
(* what the client asks for.                                               *)
Handshake(c) ==
  FieldLen["header"] + FieldLen["methods"] + FieldLen["request"] + FieldLen["port"]
    + (IF request[c] \in Named THEN FieldLen["len"] + FieldLen["name"] ELSE FieldLen["addr"])
Total(e) == (IF e[2] = "client" THEN Handshake(e[1]) ELSE 0) + Payload[e]

NoEnd(value) == [e \in Ends |-> value]
NoFiles == [f \in Fds |-> None]

Init ==
  /\ request \in [Conns -> Requests] /\ \A c \in Conns : request[c] \in Asks[c]
  /\ proc = "start" /\ backlog = <<>> /\ net = NoEnd("none")
  /\ arrived = NoEnd(0) /\ taken = NoEnd(0) /\ wrote = NoEnd(<<>>)
  /\ files = NoFiles /\ watcher = NoEnd("none") /\ wfd = NoEnd(0) /\ pending = {}
  /\ pc = "loop" /\ cur = None /\ client_fd = 0 /\ remote = 0 /\ buf = <<>>
  /\ sync = TRUE /\ dialled = [c \in Conns |-> "nothing"]

(* The process is gone: the kernel closes everything, nothing is kept.     *)
Gone(how) ==
  /\ proc' = how /\ backlog' = <<>> /\ net' = NoEnd("none")
  /\ arrived' = NoEnd(0) /\ taken' = NoEnd(0) /\ wrote' = NoEnd(<<>>)
  /\ files' = NoFiles /\ watcher' = NoEnd("none") /\ wfd' = NoEnd(0) /\ pending' = {}
  /\ pc' = "loop" /\ cur' = None /\ client_fd' = 0 /\ remote' = 0 /\ buf' = <<>>
  /\ sync' = TRUE /\ dialled' = [c \in Conns |-> "nothing"]
  /\ UNCHANGED request

-----------------------------------------------------------------------------
(* The network: a client connects, tokens arrive, and an end is closed by  *)
(* the other side ("fin"), reset, found dead by the kernel's own timers    *)
(* ("lost"), or reset after it was closed, which leaves it "broken".       *)

OpenFor(e) == \E f \in Fds : files[f] = e

Connect(c) ==
  /\ Running /\ net[Client(c)] = "none"
  /\ net' = [net EXCEPT ![Client(c)] = "open"]
  /\ backlog' = Append(backlog, c)
  /\ UNCHANGED <<request, proc, arrived, taken, wrote, files, evv, pc, cur, authv, buf>>

InBacklog(e) == e[2] = "client" /\ \E i \in DOMAIN backlog : backlog[i] = e[1]

Arrive(e) ==
  /\ Running /\ (OpenFor(e) \/ InBacklog(e))
  /\ net[e] = "open"
  /\ \E n \in Pauses[e] \cup {Total(e)} :
       arrived[e] < n /\ n <= Total(e) /\ arrived' = [arrived EXCEPT ![e] = n]
  /\ UNCHANGED <<request, proc, backlog, net, taken, wrote, files, evv, pc, cur, authv, buf>>

EndBy(e, how) ==
  /\ Running /\ (OpenFor(e) \/ InBacklog(e))
  /\ net[e] = IF how = "broken" THEN "fin" ELSE "open"
  /\ net' = [net EXCEPT ![e] = how]
  /\ UNCHANGED <<request, proc, backlog, arrived, taken, wrote, files, evv, pc, cur, authv, buf>>

Network ==
  \/ \E c \in Conns : Connect(c)
  \/ \E e \in Ends : Arrive(e) \/ \E how \in Faults[e] : EndBy(e, how)

-----------------------------------------------------------------------------
(* The socket calls.                                                       *)

Lowest(S) == CHOOSE f \in S : \A g \in S : f <= g
FreeFds == {f \in Fds : files[f] = None}
Avail(e) == arrived[e] - taken[e]

(* send(f, toks, len, 0) on a socket with a send timeout: the kernel takes *)
(* all, or what fits before the timeout; an error the kernel holds for the *)
(* socket is reported once, and a send after that raises SIGPIPE, which    *)
(* nobody handles.  ok is whether the call returned something but -1.      *)
Send(f, toks, ok) ==
  LET e == files[f] IN
  \/ /\ net[e] \in {"open", "fin"}
     /\ \E n \in 0 .. Len(toks) :
          /\ ok = (n > 0)
          /\ wrote' = [wrote EXCEPT ![e] = @ \o SubSeq(toks, 1, n)]
     /\ UNCHANGED <<net, proc>>
  \/ /\ net[e] \in {"reset", "lost"} /\ ~ok
     /\ net' = [net EXCEPT ![e] = "broken"]
     /\ UNCHANGED <<wrote, proc>>

Sigpipe(f) ==
  /\ net[files[f]] = "broken"
  /\ Gone("killed")

(* socks5_sockset: a recv or a send that waits for two seconds gives up.   *)
SocksetWithoutTimeout(e) == FALSE     \* mutant: no SO_RCVTIMEO
socks5_sockset(e) == TRUE

(* recv(f, buff, n, 0) with got tokens returned: -1 is an error.           *)
RecvReturns(e, n, got) ==
  \/ Avail(e) > 0 /\ got = IF n <= Avail(e) THEN n ELSE Avail(e)
  \/ Avail(e) = 0 /\ net[e] \in {"fin", "broken"} /\ got = 0
  \/ Avail(e) = 0 /\ net[e] \in {"reset", "lost"} /\ got = -1
  \/ Avail(e) = 0 /\ net[e] = "open" /\ socks5_sockset(e) /\ got = -1

(* The error the kernel holds for a socket is gone once it was returned.   *)
Consumed(e) == IF net[e] \in {"reset", "lost"} /\ Avail(e) = 0
               THEN [net EXCEPT ![e] = "broken"] ELSE net

-----------------------------------------------------------------------------
(* main and the signals.                                                   *)

Starts(from, to) ==
  /\ proc = from /\ proc' \in to
  /\ UNCHANGED <<netv, taken, wrote, files, evv, pc, cur, authv, buf>>

(* A level out of range and -h end the process, any other option does not. *)
check_para == Starts("start", {"signals", "exited"})
signal_init == Starts("signals", {"prepare"})

(* The listening socket, then the accept watcher and the loop.             *)
socks5_srv_init == {"running", "exited"}     \* its socket, or -1
Main == check_para \/ signal_init \/ Starts("prepare", socks5_srv_init)

(* SIGINT or SIGTERM: exit(0) from the handler, whatever the loop does.    *)
(* There is no handler before signal_init, and no loop before main has one:*)
(* ev_break then writes through NULL.                                      *)
signal_func ==
  /\ proc \in {"start", "signals", "prepare", "running"}
  /\ Gone(IF Running THEN "exited" ELSE "killed")

(* One turn of ev_loop: the ready descriptors become pending events, which *)
(* are dispatched in no particular order before the next poll.             *)
Ready == {e \in Ends : watcher[e] = "active" /\ (Avail(e) > 0 \/ net[e] # "open")}
           \cup (IF backlog = <<>> THEN {} ELSE {Accepting})

Poll ==
  /\ Running /\ pc = "loop" /\ pending = {} /\ Ready # {}
  /\ pending' = Ready
  /\ UNCHANGED <<proc, netv, taken, wrote, files, watcher, wfd, pc, cur, authv, buf>>

Dispatch(w) ==
  /\ Running /\ pc = "loop" /\ w \in pending

-----------------------------------------------------------------------------
(* accept_cb, with socks5_auth inside it.                                  *)

(* The two mallocs and accept: with no memory or no descriptor the client  *)
(* stays in the backlog and the listening socket stays ready.              *)
Accept ==
  /\ Dispatch(Accepting) /\ pending' = pending \ {Accepting}
  /\ \/ /\ FreeFds # {}
        /\ LET c == Head(backlog) IN
             /\ cur' = Client(c)
             /\ watcher' = [watcher EXCEPT ![Client(c)] = "malloc", ![Remote(c)] = "malloc"]
             /\ client_fd' = Lowest(FreeFds)
             /\ files' = [files EXCEPT ![Lowest(FreeFds)] = Client(c)]
        /\ backlog' = Tail(backlog)
        /\ remote' = 0 /\ sync' = TRUE /\ pc' = "header"
        /\ UNCHANGED <<request, net, arrived, wfd, dialled>>
     \/ UNCHANGED <<netv, files, watcher, wfd, pc, cur, authv>>
  /\ UNCHANGED <<proc, taken, wrote, buf>>

Close(fs) == files' = [f \in Fds |-> IF f \in fs THEN None ELSE files[f]]

ErrClosesClient == {client_fd}          \* mutant: remote is not closed
ErrCloses == {client_fd, remote} \ {0}

(* _err, and what accept_cb does with the -1.                              *)
AuthError ==
  /\ Close(ErrCloses)
  /\ watcher' = [watcher EXCEPT ![cur] = "freed", ![Peer(cur)] = "freed"]
  /\ pc' = "loop" /\ cur' = None
  /\ client_fd' = 0 /\ remote' = 0

Goto(label) ==
  /\ pc' = label
  /\ UNCHANGED <<files, watcher, cur, client_fd, remote>>

At(label) == Running /\ pc = label

(* The length a recv asks for.  That of a name is a char, which is signed: *)
(* of 128 bytes or more it is negative.  Once a field came in pieces the   *)
(* lengths in the buffer are whatever the bytes at that place happen to be.*)
Asked(field) ==
  CASE ~sync /\ field = "methods" -> 0 .. LenMax
    [] ~sync /\ field = "name" -> {-1} \cup 0 .. LenMax
    [] sync /\ field = "name" /\ request[cur[1]] = "longname" -> {-1}
    [] OTHER -> {FieldLen[field]}

(* recv takes the length for a size_t: to a negative one the kernel says   *)
(* that the buffer is no memory of the process, or returns all it has.     *)
RecvAsked(e, n, got) ==
  \/ n = 0 /\ got = 0
  \/ n > 0 /\ RecvReturns(e, n, got)
  \/ n < 0 /\ (got = -1 \/ RecvReturns(e, Total(e), got))

(* The field came whole, and so did all before it.  A name of negative     *)
(* length has no terminator: what follows it in the buffer may belong to   *)
(* it or not.                                                              *)
InSync(field, n, got) ==
  {sync /\ got = FieldLen[field]} \cup (IF n < 0 THEN {FALSE} ELSE {})

(* What the tests on a field just read may conclude: the truth if all of   *)
(* the handshake so far came whole, otherwise anything, the buffer holding *)
(* leftovers.  A request of no byte at all leaves the reply 05 00 there.   *)
Seen(field, got) ==
  IF sync /\ got = FieldLen[field] THEN {request[cur[1]]}
  ELSE IF field = "request" /\ got = 0 THEN {"bind"}
  ELSE Requests

AfterAddressNoPort == "socket"          \* mutant: the port is not read
AfterAddress == "port"

(* Mutant: the command is not tested.                                      *)
AfterRequestAnyCommand(seen) == IF seen \in Named THEN "len" ELSE "addr"
AfterRequest(seen) ==
  CASE seen = "ipv4" -> "addr" [] seen \in Named -> "len" [] OTHER -> "refuse"

After(field, seen) ==
  CASE field = "header"  -> IF seen = "socks4" THEN "error" ELSE "methods"
    [] field = "methods" -> "method_reply"
    [] field = "request" -> AfterRequest(seen)
    [] field = "addr"    -> AfterAddress
    [] field = "len"     -> "name"
    [] field = "name"    -> "gethostbyname"
    [] field = "port"    -> "socket"

(* One recv of the handshake: only -1 is an error to it.                   *)
RecvField(field) ==
  /\ At(field)
  /\ \E n \in Asked(field), got \in -1 .. Total(cur) :
       /\ RecvAsked(cur, n, got)
       /\ IF got = -1
          THEN AuthError /\ UNCHANGED <<taken, sync>>
          ELSE /\ taken' = [taken EXCEPT ![cur] = @ + got]
               /\ sync' \in InSync(field, n, got)
               /\ \E seen \in Seen(field, got) :
                    IF After(field, seen) = "error" THEN AuthError
                    ELSE Goto(After(field, seen))
  /\ net' = Consumed(cur)
  /\ UNCHANGED <<request, proc, backlog, arrived, wrote, wfd, pending, dialled, buf>>

(* More than the buffer holds was written into it, over the stack.         *)
RecvOverruns ==
  /\ At("name") /\ -1 \in Asked("name") /\ Avail(cur) > BUFFER_SIZE
  /\ Gone("killed")

(* The replies.  Only the first send is checked.                           *)
MethodReply ==
  /\ At("method_reply")
  /\ \E ok \in BOOLEAN :
       Send(client_fd, <<Reply("method")>>, ok) /\ IF ok THEN Goto("request") ELSE AuthError
  /\ UNCHANGED <<request, backlog, arrived, taken, wfd, pending, sync, dialled, buf>>

Refuse ==
  /\ At("refuse")
  /\ \E ok \in BOOLEAN : Send(client_fd, <<Reply("refused")>>, ok)
  /\ AuthError
  /\ UNCHANGED <<request, backlog, arrived, taken, wfd, pending, sync, dialled, buf>>

gethostbyname ==
  /\ At("gethostbyname")
  /\ Goto(AfterAddress) \/ AuthError
  /\ UNCHANGED <<proc, netv, taken, wrote, wfd, pending, sync, dialled, buf>>

(* Mutant: what socket returns is not looked at.                           *)
SocketUnchecked ==
  /\ At("socket")
  /\ remote' = IF FreeFds = {} THEN -1 ELSE Lowest(FreeFds)
  /\ files' = [f \in Fds |-> IF f = remote' THEN Peer(cur) ELSE files[f]]
  /\ pc' = "connect"
  /\ UNCHANGED <<watcher, cur, client_fd>>
  /\ UNCHANGED <<proc, netv, taken, wrote, wfd, pending, sync, dialled, buf>>

Socket ==
  /\ At("socket")
  /\ \/ /\ FreeFds # {}
        /\ remote' = Lowest(FreeFds)
        /\ files' = [files EXCEPT ![Lowest(FreeFds)] = Peer(cur)]
        /\ pc' = "connect"
        /\ UNCHANGED <<watcher, cur, client_fd>>
     \/ FreeFds = {} /\ AuthError
  /\ UNCHANGED <<proc, netv, taken, wrote, wfd, pending, sync, dialled, buf>>

ConnectRemote ==
  /\ At("connect")
  /\ \/ /\ net' = [net EXCEPT ![Peer(cur)] = "open"]
        /\ dialled' = [dialled EXCEPT ![cur[1]] = IF sync THEN "asked" ELSE "other"]
        /\ Goto("getpeername")
     \/ Goto("refuse") /\ UNCHANGED <<net, dialled>>
  /\ UNCHANGED <<request, proc, backlog, arrived, taken, wrote, wfd, pending, sync, buf>>

getpeername ==
  /\ At("getpeername")
  /\ IF net[Peer(cur)] \in {"open", "fin"} THEN Goto("grant") ELSE AuthError
  /\ UNCHANGED <<proc, netv, taken, wrote, wfd, pending, sync, dialled, buf>>

(* The success reply, and accept_cb links and starts the two watchers.     *)
Grant ==
  /\ At("grant")
  /\ \E ok \in BOOLEAN : Send(client_fd, <<Reply("granted")>>, ok)
  /\ watcher' = [watcher EXCEPT ![cur] = "active", ![Peer(cur)] = "active"]
  /\ wfd' = [wfd EXCEPT ![cur] = client_fd, ![Peer(cur)] = remote]
  /\ pc' = "loop" /\ cur' = None
  /\ client_fd' = 0 /\ remote' = 0
  /\ UNCHANGED <<request, backlog, arrived, taken, files, pending, sync, dialled, buf>>

SigpipeInAuth == pc \in {"method_reply", "refuse", "grant"} /\ Running /\ Sigpipe(client_fd)

accept_cb ==
  \/ Accept \/ (\E field \in FieldNames : RecvField(field)) \/ RecvOverruns
  \/ MethodReply \/ Refuse \/ gethostbyname \/ Socket \/ ConnectRemote
  \/ getpeername \/ Grant \/ SigpipeInAuth

-----------------------------------------------------------------------------
(* read_cb.                                                                *)

(* ev_io_stop also drops the event of a watcher that is pending.           *)
ev_io_stop(ws) == pending' = pending \ ws

StoppedAlone(e) == {e}                  \* mutant: the peer is not stopped
Stopped(e) == {e, Peer(e)}

CloseBoth(e) ==
  /\ ev_io_stop(Stopped(e))
  /\ Close({wfd[e], wfd[Peer(e)]})
  /\ watcher' = [watcher EXCEPT ![e] = "freed", ![Peer(e)] = "freed"]

(* Mutants: a read short of the buffer is taken for the end; an end is not.*)
EndsPairOnShortRead(got, error) == got < BUFFER_SIZE
EndsPairOnReset(got, error) == got = -1 /\ error = "reset"

(* What ends the pair: the other side closed, or errno is ECONNRESET.      *)
EndsPair(got, error) == got = 0 \/ (got = -1 /\ error = "reset")

(* recv on the watcher's fd: the pair ends, or another error is logged and *)
(* nothing else is done, or the bytes are kept for the send.               *)
ReadRecv(e) ==
  LET s == files[wfd[e]] IN
  /\ Dispatch(e)
  /\ \E got \in -1 .. BUFFER_SIZE :
       /\ RecvReturns(s, BUFFER_SIZE, got)
       /\ taken' = [taken EXCEPT ![s] = IF got > 0 THEN @ + got ELSE @]
       /\ buf' = IF EndsPair(got, net[s]) THEN <<>>
                 ELSE [i \in 1 .. got |-> <<s, taken[s] + i>>]
       /\ IF EndsPair(got, net[s]) THEN CloseBoth(e)
          ELSE pending' = pending \ {e} /\ UNCHANGED <<files, watcher>>
       /\ IF EndsPair(got, net[s]) \/ got = -1 THEN UNCHANGED <<pc, cur>>
          ELSE pc' = "relay" /\ cur' = e
  /\ net' = Consumed(s)
  /\ UNCHANGED <<request, proc, backlog, arrived, wrote, wfd, authv>>

(* send to the peer: what it returns is not looked at.                     *)
ReadSend ==
  /\ At("relay")
  /\ \E ok \in BOOLEAN : Send(wfd[Peer(cur)], buf, ok)
  /\ pc' = "loop" /\ cur' = None /\ buf' = <<>>
  /\ UNCHANGED <<request, backlog, arrived, taken, files, evv, authv>>

read_cb ==
  \/ \E e \in Ends : ReadRecv(e)
  \/ ReadSend
  \/ At("relay") /\ Sigpipe(wfd[Peer(cur)])

Loop == Poll \/ accept_cb \/ read_cb
Next == Main \/ signal_func \/ Network \/ Loop
Spec == Init /\ [][Next]_vars
FairSpec == Spec /\ WF_vars(Loop)
-----------------------------------------------------------------------------
TypeOK ==
  /\ proc \in {"start", "signals", "prepare", "running", "exited", "killed"}
  /\ net \in [Ends -> {"none", "open", "fin", "reset", "lost", "broken"}]
  /\ arrived \in [Ends -> Nat] /\ taken \in [Ends -> Nat]
  /\ files \in [Fds -> Ends \cup {None}]
  /\ watcher \in [Ends -> {"none", "malloc", "active", "freed"}]
  /\ wfd \in [Ends -> Fds \cup {0}]
  /\ cur \in Ends \cup {None}
  /\ client_fd \in Fds \cup {0} /\ remote \in Fds \cup {0}

Active == {e \in Ends : watcher[e] = "active"}

(* Every open descriptor is either the fd of the one live watcher of the   *)
(* end it is open on or a local of the handshake in progress, and every    *)
(* live watcher and every such local names an open descriptor of its own:  *)
(* no path of socks5_auth, accept_cb or read_cb leaks a descriptor, closes *)
(* one twice, or closes one the kernel has meanwhile given to another      *)
(* client.                                                                 *)
DescriptorsOwned ==
  /\ \A e \in Active : wfd[e] \in Fds /\ files[wfd[e]] = e
  /\ client_fd # 0 => files[client_fd] = cur
  /\ remote # 0 => files[remote] = Peer(cur)
  /\ \A f \in Fds : files[f] # None =>
       f \in {client_fd, remote} \/ \E e \in Active : f = wfd[e]

(* The two watchers of a client are allocated, live and freed together;    *)
(* an event waiting to be dispatched, and the callback in progress, belong *)
(* to a watcher that is live: read_cb frees its peer's watcher while the   *)
(* peer's own event may be pending in the same batch.                      *)
NoFreedWatcherRuns ==
  /\ \A e \in Ends : watcher[e] = watcher[Peer(e)]
  /\ pending \subseteq Active \cup {Accepting}
  /\ pc = "relay" => cur \in Active
  /\ \A e \in Ends : watcher[e] = "malloc" => e \in {cur, Peer(cur)}

IsReply(token) == token[1] = None

(* What an end is sent is the proxy's replies and then tokens of its own   *)
(* peer, in their order, none twice, whatever numbers the descriptors of   *)
(* closed connections were reused for.  It need not be all of them: what   *)
(* a send did not take is lost.  A client connected to what it asked for   *)
(* has nothing of its handshake relayed; one connected elsewhere, as after *)
(* a field that came in pieces, may have what was left of it relayed.      *)
RelayInOrder ==
  \A e \in Ends : LET w == wrote[e] IN
    /\ \A i \in DOMAIN w : IsReply(w[i]) \/ w[i][1] = Peer(e)
    /\ \A i, j \in DOMAIN w : i < j /\ ~IsReply(w[j]) =>
         IsReply(w[i]) \/ w[i][2] < w[j][2]
    /\ \A i, j \in DOMAIN w : i < j /\ IsReply(w[j]) => IsReply(w[i])
    /\ e[2] = "remote" /\ dialled[e[1]] = "asked" =>
         \A i \in DOMAIN w : w[i][2] > Handshake(e[1])

(* A client that sends its handshake in one piece, and no name of 128      *)
(* bytes or more.                                                          *)
Plain(c) == Pauses[Client(c)] = {} /\ request[c] # "longname"
PlainAsAsked == \A c \in Conns : Plain(c) => dialled[c] # "other"

AnswersTold ==
  \A c \in Conns : LET says(name) == \E i \in DOMAIN wrote[Client(c)] :
                                       wrote[Client(c)][i] = Reply(name) IN
    /\ says("granted") => dialled[c] # "nothing" /\ ~says("refused")
    /\ says("refused") \/ says("granted") => says("method")
    /\ says("refused") => watcher[Client(c)] = "freed"
    /\ dialled[c] = "asked" => /\ request[c] \in {"ipv4"} \cup Named
                              /\ taken[Client(c)] >= Handshake(c)

(* A client is told success only when a remote is connected, and refusal   *)
(* only when its connection is being dropped.  What it asked for is only   *)
(* connected on a CONNECT request, after all of the request was read, and  *)
(* a client with a plain handshake is never connected to anything else,    *)
(* whenever the handshake comes and whoever hangs up in between.           *)
AnswersTrue == AnswersTold /\ PlainAsAsked

(* A proxy of the SOCKS5 protocol (the README of socks5-src) connects a    *)
(* client to the address in its request or not at all.                     *)
ConnectedAsAsked == \A c \in Conns : dialled[c] # "other"

(* A pair is torn down only when one side has ended and all that side had  *)
(* sent was read: a short read, or an end on one side with its data still  *)
(* unread, does not close the connection.                                  *)
TornDownAtEnd ==
  [][\A c \in Conns :
       watcher[Client(c)] = "active" /\ watcher'[Client(c)] = "freed" =>
         \E e \in {Client(c), Remote(c)} : net[e] # "open" /\ Avail(e) = 0]_vars

(* A handshake ends, whatever the client leaves out: its sockets give up   *)
(* after two seconds, so the loop gets back to the other clients.          *)
HandshakesEnd == (pc # "loop") ~> (pc = "loop")

(* When one side of a pair has ended, the pair is eventually taken down.   *)
PairsEnd ==
  \A c \in Conns :
    (watcher[Client(c)] = "active" /\ \E e \in {Client(c), Remote(c)} : net[e] # "open")
      ~> watcher[Client(c)] # "active"
=============================================================================
