--------------------------- MODULE Socks5Proofs ---------------------------
(***************************************************************************)
(* The descriptors and watchers of the proxy, for any clients, any table   *)
(* of descriptors and any faults: each descriptor has one owner, no event  *)
(* is dispatched to a watcher that was freed, and a pair is closed only    *)
(* when one of its sides has ended.  Then what it tells and relays: its    *)
(* answers are true, and an end gets what its peer has sent, in order.     *)
(***************************************************************************)
EXTENDS Socks5, SequenceTheorems, WellFoundedInduction, TLAPS

(* The places inside socks5_auth before there is a remote, and after.      *)
Before == {"header", "methods", "method_reply", "request", "addr", "len", "name",
           "gethostbyname", "port", "socket"}
Dialling == {"connect", "getpeername", "grant"}
InAuth == pc \notin {"loop", "relay"}

Typed ==
  /\ files \in [Fds -> Ends \cup {None}]
  /\ watcher \in [Ends -> {"none", "malloc", "active", "freed"}]
  /\ wfd \in [Ends -> Fds \cup {0}]
  /\ net \in [Ends -> {"none", "open", "fin", "reset", "lost", "broken"}]
  /\ backlog \in Seq(Conns)
  /\ pc \in {"loop", "relay", "refuse"} \cup Before \cup Dialling

(* What the locals of the callback in progress are, by where it is.        *)
Locals ==
  /\ pc = "loop" => cur = None
  /\ pc \in {"loop", "relay"} => client_fd = 0 /\ remote = 0
  /\ InAuth => /\ cur \in Ends /\ client_fd \in Fds
               /\ watcher[cur] = "malloc" /\ watcher[Peer(cur)] = "malloc"
               /\ files[client_fd] = cur
  /\ pc \in Before => remote = 0
  /\ pc \in Dialling => remote # 0
  /\ remote # 0 => remote \in Fds /\ files[remote] = Peer(cur)
  /\ \A e \in Ends : watcher[e] = "malloc" => InAuth /\ e \in {cur, Peer(cur)}

(* A client that waits to be accepted waits once and has no watcher yet.   *)
Queue ==
  /\ Accepting \in pending => backlog # <<>>
  /\ \A c \in Conns : net[Client(c)] = "none" => watcher[Client(c)] = "none"
  /\ \A i \in DOMAIN backlog :
       watcher[Client(backlog[i])] = "none" /\ net[Client(backlog[i])] # "none"
  /\ \A i, j \in DOMAIN backlog : backlog[i] = backlog[j] => i = j

IInv == Typed /\ Locals /\ Queue /\ DescriptorsOwned /\ NoFreedWatcherRuns

(* The kernel may change what it knows of an end it has heard of.          *)
NetGrows ==
  /\ net' \in [Ends -> {"none", "open", "fin", "reset", "lost", "broken"}]
  /\ \A e \in Ends : net[e] # "none" => net'[e] # "none"

-----------------------------------------------------------------------------
LEMMA EndFacts ==
  /\ \A c \in Conns : /\ Client(c) \in Ends /\ Remote(c) \in Ends
                      /\ Peer(Client(c)) = Remote(c) /\ Peer(Remote(c)) = Client(c)
  /\ \A e \in Ends : /\ Peer(e) \in Ends /\ Peer(Peer(e)) = e /\ Peer(e) # e
                     /\ e # None /\ e # Accepting
                     /\ e[1] \in Conns /\ e \in {Client(e[1]), Remote(e[1])}
  /\ \A c, d \in Conns : Client(c) = Client(d) => c = d
  /\ \A c, d \in Conns : Client(c) # Remote(d)
  BY NoneAssumption DEF Ends, Client, Remote, Peer, Accepting

LEMMA FdFacts == 0 \notin Fds
  BY FdsAssumption

LEMMA LessThanOnNat == OpToRel(<, Nat) = {p \in Nat \X Nat : p[1] < p[2]}
  BY DEF OpToRel

LEMMA LowestIsFree ==
  ASSUME FreeFds # {} PROVE Lowest(FreeFds) \in Fds /\ files[Lowest(FreeFds)] = None
<1> DEFINE LessThan == {p \in Nat \X Nat : p[1] < p[2]}
<1>1. FreeFds \subseteq Nat
  BY FdsAssumption DEF FreeFds
<1>2. IsWellFoundedOn(LessThan, Nat)
  BY LessThanOnNat, NatLessThanWellFounded
<1>3. PICK f \in FreeFds : \A g \in FreeFds : <<g, f>> \notin LessThan
  <2> HIDE DEF LessThan
  <2> QED BY <1>1, <1>2, WFMin, Zenon
<1>4. ASSUME NEW g \in FreeFds PROVE f <= g
  <2>1. f \in Nat /\ g \in Nat
    BY <1>1, <1>3
  <2>2. ~ (g < f)
    BY <1>3, <2>1
  <2> QED BY <2>1, <2>2
<1>5. Lowest(FreeFds) \in FreeFds
  BY <1>3, <1>4 DEF Lowest
<1> QED BY <1>5 DEF FreeFds

-----------------------------------------------------------------------------
(* Steps that leave descriptors and watchers alone.                        *)

LEMMA InitIInv == Init => IInv
<1> SUFFICES ASSUME Init PROVE IInv
  OBVIOUS
<1>1. Typed
  BY DEF Init, Typed, NoEnd, NoFiles
<1>2. Locals
  BY FdFacts DEF Init, Locals, InAuth, NoEnd, Before, Dialling
<1>3. Queue
  BY EndFacts DEF Init, Queue, NoEnd
<1>4. DescriptorsOwned
  BY DEF Init, DescriptorsOwned, Active, NoEnd, NoFiles
<1>5. NoFreedWatcherRuns
  BY EndFacts DEF Init, NoFreedWatcherRuns, Active, NoEnd
<1> QED BY <1>1, <1>2, <1>3, <1>4, <1>5 DEF IInv

LEMMA GoneIInv == ASSUME NEW how, Gone(how) PROVE IInv'
<1>1. Typed'
  BY DEF Gone, Typed, NoEnd, NoFiles
<1>2. Locals'
  BY FdFacts DEF Gone, Locals, InAuth, NoEnd, Before, Dialling
<1>3. Queue'
  BY EndFacts DEF Gone, Queue, NoEnd
<1>4. DescriptorsOwned'
  BY DEF Gone, DescriptorsOwned, Active, NoEnd, NoFiles
<1>5. NoFreedWatcherRuns'
  BY EndFacts DEF Gone, NoFreedWatcherRuns, Active, NoEnd
<1> QED BY <1>1, <1>2, <1>3, <1>4, <1>5 DEF IInv

(* A step of the network, or of a handshake that goes on.                  *)
LEMMA FrameIInv ==
  ASSUME IInv, NetGrows,
         UNCHANGED <<files, watcher, wfd, pending, cur, client_fd, remote, backlog>>,
         \/ pc' = pc
         \/ /\ InAuth
            /\ pc' \in Before \cup Dialling \cup {"refuse"}
            /\ pc' \in Before => remote = 0
            /\ pc' \in Dialling => remote # 0
  PROVE  IInv'
<1>1. Typed'
  BY DEF IInv, Typed, NetGrows
<1>2. Locals'
  <2>1. CASE pc' = pc
    BY <2>1 DEF IInv, Locals, InAuth
  <2>2. CASE pc' # pc
    <3>1. InAuth /\ InAuth'
      BY <2>2 DEF InAuth, Before, Dialling
    <3>2. pc' \notin {"loop", "relay"}
      BY <3>1 DEF InAuth
    <3> QED BY <2>2, <3>1, <3>2 DEF IInv, Locals
  <2> QED BY <2>1, <2>2
<1>3. Queue'
  BY EndFacts DEF IInv, Queue, NetGrows, Typed
<1>4. DescriptorsOwned'
  BY DEF IInv, DescriptorsOwned, Active
<1>5. NoFreedWatcherRuns'
  BY DEF IInv, NoFreedWatcherRuns, Active, InAuth, Before, Dialling
<1> QED BY <1>1, <1>2, <1>3, <1>4, <1>5 DEF IInv

LEMMA SendGrows ==
  ASSUME IInv, NEW f, NEW toks, NEW ok, Send(f, toks, ok) PROVE NetGrows
  BY DEF IInv, Typed, Send, NetGrows

LEMMA ConsumedGrows ==
  ASSUME IInv, NEW e, net' = Consumed(e) PROVE NetGrows
  BY DEF IInv, Typed, Consumed, NetGrows

-----------------------------------------------------------------------------
(* accept_cb.                                                              *)

LEMMA AcceptIInv == ASSUME IInv, Accept PROVE IInv'
<1>1. /\ Accepting \in pending /\ pending' = pending \ {Accepting} /\ pc = "loop"
      /\ backlog # <<>> /\ backlog \in Seq(Conns)
  BY DEF IInv, Accept, Dispatch, Queue, Typed
<1>2. CASE UNCHANGED <<netv, files, watcher, wfd, pc, cur, authv>>
  <2>1. Typed'
    BY <1>2 DEF IInv, Typed, netv
  <2>2. Locals'
    BY <1>2 DEF IInv, Locals, InAuth, authv
  <2>3. Queue'
    BY <1>1, <1>2 DEF IInv, Queue, netv
  <2>4. DescriptorsOwned'
    BY <1>2 DEF IInv, DescriptorsOwned, Active, authv
  <2>5. NoFreedWatcherRuns'
    BY <1>1, <1>2 DEF IInv, NoFreedWatcherRuns, Active
  <2> QED BY <2>1, <2>2, <2>3, <2>4, <2>5 DEF IInv
<1>3. CASE ~UNCHANGED <<netv, files, watcher, wfd, pc, cur, authv>>
  <2> DEFINE c == Head(backlog)
  <2> DEFINE f == Lowest(FreeFds)
  <2>1. /\ FreeFds # {} /\ cur' = Client(c)
        /\ watcher' = [watcher EXCEPT ![Client(c)] = "malloc", ![Remote(c)] = "malloc"]
        /\ client_fd' = f /\ files' = [files EXCEPT ![f] = Client(c)]
        /\ backlog' = Tail(backlog) /\ remote' = 0 /\ pc' = "header"
        /\ UNCHANGED <<net, wfd>>
    BY <1>3 DEF Accept
  <2>2. c \in Conns /\ c = backlog[1] /\ 1 \in DOMAIN backlog
    BY <1>1
  <2>3. f \in Fds /\ files[f] = None
    BY <2>1, LowestIsFree
  <2>4. /\ Client(c) \in Ends /\ Remote(c) \in Ends /\ Client(c) # Remote(c)
        /\ Peer(Client(c)) = Remote(c) /\ Peer(Remote(c)) = Client(c)
    BY <2>2, EndFacts
  <2>5. watcher[Client(c)] = "none" /\ watcher[Remote(c)] = "none"
    BY <2>2, <2>4 DEF IInv, Queue, NoFreedWatcherRuns
  <2>6. /\ Tail(backlog) \in Seq(Conns)
        /\ \A i \in DOMAIN Tail(backlog) :
             i + 1 \in DOMAIN backlog /\ Tail(backlog)[i] = backlog[i+1] /\ i + 1 # 1
    BY <1>1
  <2> HIDE DEF c, f
  <2>7. Typed'
    BY <2>1, <2>6, <2>4 DEF IInv, Typed, Before
  <2>8. Locals'
    BY <2>1, <2>3, <2>4, <1>1, FdFacts DEF IInv, Locals, Typed, InAuth, Before, Dialling
  <2>9. Queue'
    <3>1. Accepting \notin pending'
      BY <1>1
    <3>2. \A d \in Conns : net'[Client(d)] = "none" => watcher'[Client(d)] = "none"
      <4>1. net[Client(c)] # "none"
        BY <2>2 DEF IInv, Queue
      <4> QED BY <4>1, <2>1, <2>2, EndFacts DEF IInv, Queue, Typed
    <3>3. \A i \in DOMAIN backlog' : backlog'[i] \in Conns /\ backlog'[i] # c
      BY <2>1, <2>2, <2>6, <1>1 DEF IInv, Queue
    <3>4. \A i \in DOMAIN backlog' :
            watcher'[Client(backlog'[i])] = "none" /\ net'[Client(backlog'[i])] # "none"
      BY <3>3, <2>1, <2>2, <2>6, EndFacts DEF IInv, Queue, Typed
    <3>5. \A i, j \in DOMAIN backlog' : backlog'[i] = backlog'[j] => i = j
      <4> SUFFICES ASSUME NEW i \in DOMAIN Tail(backlog), NEW j \in DOMAIN Tail(backlog),
                          Tail(backlog)[i] = Tail(backlog)[j]
                   PROVE  i = j
        BY <2>1
      <4>1. i + 1 = j + 1
        BY <2>6 DEF IInv, Queue
      <4> QED BY <4>1, <1>1
    <3> QED BY <3>1, <3>2, <3>4, <3>5 DEF Queue
  <2>10. DescriptorsOwned'
    <3>1. Active' = Active
      BY <2>1, <2>4, <2>5 DEF Active, IInv, Typed
    <3>2. client_fd = 0 /\ remote = 0
      BY <1>1 DEF IInv, Locals
    <3>3. \A e \in Active : wfd[e] \in Fds /\ files[wfd[e]] = e /\ e \in Ends
      BY DEF IInv, DescriptorsOwned, Active
    <3>4. \A e \in Active' : wfd'[e] \in Fds /\ files'[wfd'[e]] = e
      BY <3>1, <3>3, <2>1, <2>3, EndFacts DEF IInv, Typed
    <3>5. files'[client_fd'] = cur' /\ client_fd' = f /\ remote' = 0
      BY <2>1, <2>3 DEF IInv, Typed
    <3>6. \A g \in Fds : files'[g] # None => g = f \/ files[g] # None
      BY <2>1, <2>3 DEF IInv, Typed
    <3>7. \A g \in Fds : files[g] # None => \E e \in Active : g = wfd[e]
      BY <3>2, FdFacts DEF IInv, DescriptorsOwned
    <3>8. \A g \in Fds : files'[g] # None =>
            g \in {client_fd', remote'} \/ \E e \in Active' : g = wfd'[e]
      BY <3>1, <3>5, <3>6, <3>7, <2>1
    <3> QED BY <3>4, <3>5, <3>8 DEF DescriptorsOwned
  <2>11. NoFreedWatcherRuns'
    <3>1. \A e \in Ends : e = Client(c) \/ e = Remote(c)
                           \/ (Peer(e) # Client(c) /\ Peer(e) # Remote(c))
      BY <2>4, EndFacts
    <3>2. Active' = Active
      BY <2>1, <2>4, <2>5 DEF Active, IInv, Typed
    <3>3. \A e \in Ends : watcher[e] # "malloc"
      BY <1>1 DEF IInv, Locals, InAuth
    <3> QED BY <3>1, <3>2, <3>3, <2>1, <2>4, <1>1, EndFacts
            DEF IInv, NoFreedWatcherRuns, Typed
  <2> QED BY <2>7, <2>8, <2>9, <2>10, <2>11 DEF IInv
<1> QED BY <1>2, <1>3

(* What leads to the next recv, reply or call of the handshake.            *)
LEMMA GotoIInv ==
  ASSUME IInv, InAuth, NEW label, Goto(label), NetGrows, UNCHANGED <<wfd, pending, backlog>>,
         label \in Before \cup Dialling \cup {"refuse"},
         label \in Before => remote = 0,
         label \in Dialling => remote # 0
  PROVE  IInv'
  BY FrameIInv DEF Goto

(* _err closes what the handshake holds, and nothing else.                 *)
LEMMA AuthErrorIInv ==
  ASSUME IInv, InAuth, AuthError, NetGrows, UNCHANGED <<wfd, pending, backlog>>
  PROVE  IInv'
<1>1. /\ cur \in Ends /\ client_fd \in Fds /\ Peer(cur) \in Ends /\ Peer(cur) # cur
      /\ watcher[cur] = "malloc" /\ watcher[Peer(cur)] = "malloc" /\ files[client_fd] = cur
      /\ remote # 0 => remote \in Fds /\ files[remote] = Peer(cur)
      /\ \A e \in Ends : watcher[e] = "malloc" => e \in {cur, Peer(cur)}
  BY EndFacts DEF IInv, Locals
<1>2. /\ files' = [f \in Fds |-> IF f \in {client_fd, remote} \ {0} THEN None ELSE files[f]]
      /\ watcher' = [watcher EXCEPT ![cur] = "freed", ![Peer(cur)] = "freed"]
      /\ pc' = "loop" /\ cur' = None /\ client_fd' = 0 /\ remote' = 0
  BY DEF AuthError, Close, ErrCloses
<1>3. Active' = Active
  BY <1>1, <1>2 DEF Active, IInv, Typed
<1>4. \A e \in Active : /\ e \in Ends /\ e # cur /\ e # Peer(cur)
                        /\ wfd[e] \in Fds /\ files[wfd[e]] = e
  BY <1>1 DEF Active, IInv, DescriptorsOwned
<1>5. Typed'
  BY <1>1, <1>2 DEF IInv, Typed, NetGrows
<1>6. Locals'
  BY <1>1, <1>2 DEF IInv, Locals, Typed, InAuth, Before, Dialling
<1>7. Queue'
  <2>1. \A c \in Conns : watcher[Client(c)] = "none" => watcher'[Client(c)] = "none"
    BY <1>1, <1>2, EndFacts DEF IInv, Typed
  <2>2. \A c \in Conns : net'[Client(c)] = "none" => net[Client(c)] = "none"
    BY EndFacts DEF NetGrows
  <2>3. \A i \in DOMAIN backlog : backlog[i] \in Conns
    BY DEF IInv, Typed
  <2> QED BY <2>1, <2>2, <2>3, EndFacts DEF IInv, Queue, NetGrows
<1>8. DescriptorsOwned'
  <2>1. \A e \in Active' : wfd'[e] \in Fds /\ files'[wfd'[e]] = e
    BY <1>1, <1>2, <1>3, <1>4
  <2>2. \A f \in Fds : files'[f] # None => files[f] # None /\ f # client_fd /\ f # remote
    BY <1>2, FdFacts
  <2>3. \A f \in Fds : files'[f] # None => \E e \in Active : f = wfd[e]
    BY <2>2 DEF IInv, DescriptorsOwned
  <2> QED BY <2>1, <2>3, <1>2, <1>3 DEF DescriptorsOwned
<1>9. NoFreedWatcherRuns'
  <2>1. \A e \in Ends : watcher'[e] = watcher'[Peer(e)]
    BY <1>1, <1>2, EndFacts DEF IInv, NoFreedWatcherRuns, Typed
  <2>2. \A e \in Ends : watcher'[e] # "malloc"
    BY <1>1, <1>2 DEF IInv, Typed
  <2> QED BY <2>1, <2>2, <1>2, <1>3 DEF IInv, NoFreedWatcherRuns
<1> QED BY <1>5, <1>6, <1>7, <1>8, <1>9 DEF IInv

LEMMA RecvFieldIInv ==
  ASSUME IInv, NEW field \in FieldNames, RecvField(field) PROVE IInv'
<1>1. pc = field /\ field \in Before /\ InAuth /\ remote = 0
  BY DEF RecvField, At, FieldNames, InAuth, Before, IInv, Locals
<1>2. NetGrows
  BY ConsumedGrows DEF RecvField
<1>3. UNCHANGED <<wfd, pending, backlog>>
  BY DEF RecvField
<1>4. CASE AuthError
  BY <1>1, <1>2, <1>3, <1>4, AuthErrorIInv
<1>5. CASE ~AuthError
  <2>1. PICK seen : After(field, seen) # "error" /\ Goto(After(field, seen))
    BY <1>5 DEF RecvField
  <2>2. After(field, seen) \in Before \cup {"refuse"}
    BY <2>1 DEF After, AfterRequest, AfterAddress, FieldNames, Before
  <2> QED BY <1>1, <1>2, <1>3, <2>1, <2>2, GotoIInv DEF Before, Dialling
<1> QED BY <1>4, <1>5

LEMMA ReplyIInv == ASSUME IInv, MethodReply \/ Refuse PROVE IInv'
<1>1. /\ InAuth
      /\ pc = "method_reply" => remote = 0
      /\ UNCHANGED <<wfd, pending, backlog>>
  BY DEF MethodReply, Refuse, At, InAuth, IInv, Locals, Before
<1>2. CASE MethodReply
  <2>1. PICK ok \in BOOLEAN : /\ Send(client_fd, <<Reply("method")>>, ok)
                              /\ IF ok THEN Goto("request") ELSE AuthError
    BY <1>2 DEF MethodReply
  <2>2. NetGrows
    BY <2>1, SendGrows
  <2>3. CASE ok
    BY <1>1, <1>2, <2>1, <2>2, <2>3, GotoIInv DEF MethodReply, At, Before, Dialling
  <2>4. CASE ~ok
    BY <1>1, <2>1, <2>2, <2>4, AuthErrorIInv
  <2> QED BY <2>3, <2>4
<1>3. CASE Refuse
  <2>1. PICK ok \in BOOLEAN : Send(client_fd, <<Reply("refused")>>, ok)
    BY <1>3 DEF Refuse
  <2> QED BY <1>1, <1>3, <2>1, SendGrows, AuthErrorIInv DEF Refuse
<1> QED BY <1>2, <1>3

LEMMA CallsIInv ==
  ASSUME IInv, gethostbyname \/ ConnectRemote \/ getpeername PROVE IInv'
<1>1. InAuth /\ UNCHANGED <<wfd, pending, backlog>>
  BY DEF gethostbyname, ConnectRemote, getpeername, At, InAuth, netv
<1>2. NetGrows
  <2>1. UNCHANGED net \/ net' = [net EXCEPT ![Peer(cur)] = "open"]
    BY DEF gethostbyname, ConnectRemote, getpeername, netv
  <2> QED BY <2>1 DEF IInv, Typed, NetGrows
<1>3. CASE AuthError
  BY <1>1, <1>2, <1>3, AuthErrorIInv
<1>4. CASE ~AuthError
  <2>1. \/ pc = "gethostbyname" /\ Goto("port")
        \/ pc = "connect" /\ (Goto("getpeername") \/ Goto("refuse"))
        \/ pc = "getpeername" /\ Goto("grant")
    BY <1>4 DEF gethostbyname, ConnectRemote, getpeername, At, AfterAddress
  <2>2. /\ pc = "gethostbyname" => remote = 0
        /\ pc \in {"connect", "getpeername"} => remote # 0
    BY DEF IInv, Locals, Before, Dialling
  <2> QED BY <1>1, <1>2, <2>1, <2>2, GotoIInv DEF Before, Dialling
<1> QED BY <1>3, <1>4

(* The descriptor of the remote side is a free one.                        *)
LEMMA SocketIInv == ASSUME IInv, Socket PROVE IInv'
<1>1. pc = "socket" /\ InAuth /\ remote = 0 /\ UNCHANGED <<wfd, pending, backlog, net>>
  BY DEF Socket, At, InAuth, netv, IInv, Locals, Before
<1>2. NetGrows
  BY <1>1 DEF IInv, Typed, NetGrows
<1>3. CASE AuthError
  BY <1>1, <1>2, <1>3, AuthErrorIInv
<1>4. CASE ~AuthError
  <2> DEFINE f == Lowest(FreeFds)
  <2>1. /\ FreeFds # {} /\ remote' = f /\ files' = [files EXCEPT ![f] = Peer(cur)]
        /\ pc' = "connect" /\ UNCHANGED <<watcher, cur, client_fd>>
    BY <1>4 DEF Socket
  <2>2. f \in Fds /\ files[f] = None
    BY <2>1, LowestIsFree
  <2> HIDE DEF f
  <2>3. /\ cur \in Ends /\ Peer(cur) \in Ends /\ client_fd \in Fds /\ files[client_fd] = cur
        /\ watcher[cur] = "malloc" /\ watcher[Peer(cur)] = "malloc" /\ f # client_fd
    BY <1>1, <2>2, EndFacts DEF IInv, Locals
  <2>4. Typed'
    BY <1>1, <2>1, <2>3 DEF IInv, Typed, Dialling
  <2>5. /\ client_fd' \in Fds /\ files'[client_fd'] = cur'
        /\ remote' \in Fds /\ files'[remote'] = Peer(cur') /\ remote' # 0
    BY <2>1, <2>2, <2>3, FdFacts DEF IInv, Typed
  <2>6. Locals'
    BY <1>1, <2>1, <2>3, <2>5 DEF IInv, Locals, InAuth, Before, Dialling
  <2>7. Queue'
    BY <1>1, <2>1 DEF IInv, Queue
  <2>8. DescriptorsOwned'
    <3>1. \A e \in Active : e \in Ends /\ wfd[e] \in Fds /\ files[wfd[e]] = e
      BY DEF Active, IInv, DescriptorsOwned
    <3>2. \A e \in Active' : e \in Active /\ wfd'[e] \in Fds /\ files'[wfd'[e]] = e
      BY <1>1, <2>1, <2>2, <3>1, EndFacts DEF Active, IInv, Typed
    <3>3. \A g \in Fds : files'[g] # None => g = f \/ files[g] # None
      BY <2>1, <2>2 DEF IInv, Typed
    <3>4. \A g \in Fds : files[g] # None => g = client_fd \/ \E e \in Active : g = wfd[e]
      BY <1>1, FdFacts DEF IInv, DescriptorsOwned
    <3>5. Active' = Active
      BY <2>1 DEF Active
    <3>6. \A g \in Fds : files'[g] # None =>
            g \in {client_fd', remote'} \/ \E e \in Active' : g = wfd'[e]
      BY <3>3, <3>4, <3>5, <2>1, <1>1
    <3> QED BY <2>5, <3>2, <3>6 DEF DescriptorsOwned
  <2>9. NoFreedWatcherRuns'
    BY <1>1, <2>1 DEF IInv, NoFreedWatcherRuns, Active
  <2> QED BY <2>4, <2>6, <2>7, <2>8, <2>9 DEF IInv
<1> QED BY <1>3, <1>4

(* The descriptors pass from the handshake to the two watchers.            *)
LEMMA GrantIInv == ASSUME IInv, Grant PROVE IInv'
<1>1. /\ pc = "grant" /\ InAuth /\ UNCHANGED <<files, pending, backlog>>
      /\ watcher' = [watcher EXCEPT ![cur] = "active", ![Peer(cur)] = "active"]
      /\ wfd' = [wfd EXCEPT ![cur] = client_fd, ![Peer(cur)] = remote]
      /\ pc' = "loop" /\ cur' = None /\ client_fd' = 0 /\ remote' = 0
  BY DEF Grant, At, InAuth
<1>2. NetGrows
  BY SendGrows DEF Grant
<1>3. /\ cur \in Ends /\ Peer(cur) \in Ends /\ Peer(cur) # cur
      /\ watcher[cur] = "malloc" /\ watcher[Peer(cur)] = "malloc"
      /\ client_fd \in Fds /\ files[client_fd] = cur
      /\ remote \in Fds /\ files[remote] = Peer(cur)
      /\ \A e \in Ends : watcher[e] = "malloc" => e \in {cur, Peer(cur)}
  BY <1>1, EndFacts DEF IInv, Locals, Dialling
<1>4. Active' = Active \cup {cur, Peer(cur)}
  BY <1>1, <1>3 DEF Active, IInv, Typed
<1>5. \A e \in Active : e \in Ends /\ e # cur /\ e # Peer(cur)
  BY <1>3 DEF Active
<1>6. Typed'
  BY <1>1, <1>2, <1>3 DEF IInv, Typed, NetGrows
<1>7. Locals'
  BY <1>1, <1>3 DEF IInv, Locals, Typed, InAuth, Before, Dialling
<1>8. Queue'
  <2>1. \A c \in Conns : watcher[Client(c)] = "none" => watcher'[Client(c)] = "none"
    BY <1>1, <1>3, EndFacts DEF IInv, Typed
  <2>2. \A c \in Conns : net'[Client(c)] = "none" => net[Client(c)] = "none"
    BY <1>2, EndFacts DEF NetGrows
  <2>3. \A i \in DOMAIN backlog : backlog[i] \in Conns
    BY DEF IInv, Typed
  <2> QED BY <1>1, <1>2, <2>1, <2>2, <2>3, EndFacts DEF IInv, Queue, NetGrows
<1>9. DescriptorsOwned'
  <2>1. /\ wfd'[cur] = client_fd /\ wfd'[Peer(cur)] = remote
        /\ \A e \in Active : wfd'[e] = wfd[e]
    BY <1>1, <1>3, <1>5 DEF IInv, Typed
  <2>2. \A e \in Active' : wfd'[e] \in Fds /\ files'[wfd'[e]] = e
    <3>1. \A e \in Active : wfd[e] \in Fds /\ files[wfd[e]] = e
      BY DEF IInv, DescriptorsOwned
    <3>2. files' = files
      BY <1>1
    <3>3. \A e \in Active : wfd'[e] \in Fds /\ files'[wfd'[e]] = e
      BY <2>1, <3>1, <3>2
    <3>4. /\ wfd'[cur] \in Fds /\ files'[wfd'[cur]] = cur
          /\ wfd'[Peer(cur)] \in Fds /\ files'[wfd'[Peer(cur)]] = Peer(cur)
      BY <1>3, <2>1, <3>2
    <3> QED BY <1>4, <3>3, <3>4
  <2>3. \A f \in Fds : files'[f] # None => \E e \in Active' : f = wfd'[e]
    BY <1>1, <1>4, <2>1 DEF IInv, DescriptorsOwned
  <2> QED BY <1>1, <2>2, <2>3 DEF DescriptorsOwned
<1>10. NoFreedWatcherRuns'
  <2>1. \A e \in Ends : watcher'[e] = watcher'[Peer(e)]
    BY <1>1, <1>3, EndFacts DEF IInv, NoFreedWatcherRuns, Typed
  <2>2. \A e \in Ends : watcher'[e] # "malloc"
    BY <1>1, <1>3 DEF IInv, Typed
  <2> QED BY <2>1, <2>2, <1>1, <1>4 DEF IInv, NoFreedWatcherRuns
<1> QED BY <1>6, <1>7, <1>8, <1>9, <1>10 DEF IInv

LEMMA AcceptCbIInv == ASSUME IInv, accept_cb PROVE IInv'
  BY AcceptIInv, RecvFieldIInv, ReplyIInv, CallsIInv, SocketIInv, GrantIInv, GoneIInv
     DEF accept_cb, RecvOverruns, SigpipeInAuth, Sigpipe

-----------------------------------------------------------------------------
(* read_cb.                                                                *)

(* A live pair is taken down while no handshake is in progress.            *)
LEMMA CloseBothIInv ==
  ASSUME IInv, NetGrows, NEW e \in Active, pc = "loop", CloseBoth(e),
         UNCHANGED <<wfd, pc, cur, client_fd, remote, backlog>>
  PROVE  IInv'
<1>1. /\ pending' = pending \ {e, Peer(e)}
      /\ files' = [f \in Fds |-> IF f \in {wfd[e], wfd[Peer(e)]} THEN None ELSE files[f]]
      /\ watcher' = [watcher EXCEPT ![e] = "freed", ![Peer(e)] = "freed"]
  BY DEF CloseBoth, ev_io_stop, Stopped, Close
<1>2. /\ e \in Ends /\ Peer(e) \in Ends /\ Peer(e) # e /\ Peer(e) \in Active
      /\ cur = None /\ client_fd = 0 /\ remote = 0
      /\ \A x \in Ends : watcher[x] # "malloc"
  BY EndFacts DEF Active, IInv, NoFreedWatcherRuns, Locals, InAuth
<1>3. Active' = Active \ {e, Peer(e)}
  BY <1>1, <1>2 DEF Active, IInv, Typed
<1>4. \A x \in Active : wfd[x] \in Fds /\ files[wfd[x]] = x
  BY DEF IInv, DescriptorsOwned
<1>5. Typed'
  BY <1>1, <1>2 DEF IInv, Typed, NetGrows
<1>6. Locals'
  BY <1>1, <1>2 DEF IInv, Locals, Typed, InAuth, Before, Dialling
<1>7. Queue'
  <2>1. \A c \in Conns : watcher[Client(c)] = "none" => watcher'[Client(c)] = "none"
    BY <1>1, <1>2, EndFacts DEF IInv, Typed, Active
  <2>2. \A c \in Conns : net'[Client(c)] = "none" => net[Client(c)] = "none"
    BY EndFacts DEF NetGrows
  <2>3. \A i \in DOMAIN backlog : backlog[i] \in Conns
    BY DEF IInv, Typed
  <2> QED BY <1>1, <2>1, <2>2, <2>3, EndFacts DEF IInv, Queue, NetGrows
<1>8. DescriptorsOwned'
  <2>1. \A x \in Active' : wfd'[x] \in Fds /\ files'[wfd'[x]] = x
    BY <1>1, <1>2, <1>3, <1>4
  <2>2. \A f \in Fds : files'[f] # None =>
          files[f] # None /\ f # wfd[e] /\ f # wfd[Peer(e)]
    BY <1>1
  <2>3. \A f \in Fds : files[f] # None => \E x \in Active : f = wfd[x]
    BY <1>2, FdFacts DEF IInv, DescriptorsOwned
  <2>4. \A f \in Fds : files'[f] # None => \E x \in Active' : f = wfd'[x]
    BY <1>3, <2>2, <2>3
  <2> QED BY <1>2, <2>1, <2>4 DEF DescriptorsOwned
<1>9. NoFreedWatcherRuns'
  <2>1. \A x \in Ends : watcher'[x] = watcher'[Peer(x)]
    BY <1>1, <1>2, EndFacts DEF IInv, NoFreedWatcherRuns, Typed
  <2>2. \A x \in Ends : watcher'[x] # "malloc"
    BY <1>1, <1>2 DEF IInv, Typed
  <2>3. pending' \subseteq Active' \cup {Accepting}
    BY <1>1, <1>3 DEF IInv, NoFreedWatcherRuns
  <2> QED BY <2>1, <2>2, <2>3 DEF NoFreedWatcherRuns
<1> QED BY <1>5, <1>6, <1>7, <1>8, <1>9 DEF IInv

(* A recv that ends the pair came to the end of what its side had sent.    *)
LEMMA EndsPairAtEnd ==
  ASSUME NEW e, NEW got, RecvReturns(e, BUFFER_SIZE, got), EndsPair(got, net[e])
  PROVE  Avail(e) = 0 /\ net[e] # "open"
  BY BufferAssumption DEF RecvReturns, EndsPair

LEMMA ReadRecvIInv ==
  ASSUME IInv, NEW e \in Ends, ReadRecv(e)
  PROVE  /\ IInv'
         /\ watcher' # watcher => /\ Avail(e) = 0 /\ net[e] # "open"
                                  /\ watcher' = [watcher EXCEPT ![e] = "freed",
                                                                ![Peer(e)] = "freed"]
<1>1. e \in Active /\ pc = "loop" /\ files[wfd[e]] = e
  BY EndFacts DEF ReadRecv, Dispatch, IInv, NoFreedWatcherRuns, DescriptorsOwned
<1>2. NetGrows
  BY ConsumedGrows DEF ReadRecv
<1>3. UNCHANGED <<wfd, client_fd, remote, backlog>>
  BY DEF ReadRecv, authv
<1>4. PICK got \in -1 .. BUFFER_SIZE :
        /\ RecvReturns(e, BUFFER_SIZE, got)
        /\ IF EndsPair(got, net[e]) THEN CloseBoth(e)
           ELSE pending' = pending \ {e} /\ UNCHANGED <<files, watcher>>
        /\ IF EndsPair(got, net[e]) \/ got = -1 THEN UNCHANGED <<pc, cur>>
           ELSE pc' = "relay" /\ cur' = e
  BY <1>1 DEF ReadRecv
<1>5. CASE EndsPair(got, net[e])
  <2>1. IInv'
    BY <1>1, <1>2, <1>3, <1>4, <1>5, CloseBothIInv
  <2>2. Avail(e) = 0 /\ net[e] # "open"
    BY <1>4, <1>5, EndsPairAtEnd
  <2> QED BY <1>4, <1>5, <2>1, <2>2 DEF CloseBoth
<1>6. CASE ~EndsPair(got, net[e])
  <2>1. /\ UNCHANGED <<files, watcher>> /\ pending' \subseteq pending
        /\ UNCHANGED <<pc, cur>> \/ (pc' = "relay" /\ cur' = e)
    BY <1>4, <1>6
  <2>2. Typed'
    BY <1>2, <1>3, <2>1 DEF IInv, Typed, NetGrows
  <2>3. Locals'
    BY <1>1, <1>3, <2>1 DEF IInv, Locals, InAuth, Before, Dialling
  <2>4. Queue'
    <3>1. \A c \in Conns : net'[Client(c)] = "none" => net[Client(c)] = "none"
      BY <1>2, EndFacts DEF NetGrows
    <3>2. \A i \in DOMAIN backlog : backlog[i] \in Conns
      BY DEF IInv, Typed
    <3> QED BY <1>2, <1>3, <2>1, <3>1, <3>2, EndFacts DEF IInv, Queue, NetGrows
  <2>5. client_fd = 0 /\ remote = 0
    BY <1>1 DEF IInv, Locals
  <2>6. DescriptorsOwned'
    BY <1>3, <2>1, <2>5 DEF IInv, DescriptorsOwned, Active
  <2>7. NoFreedWatcherRuns'
    <3>1. \A x \in Ends : watcher[x] # "malloc"
      BY <1>1 DEF IInv, Locals, InAuth
    <3> QED BY <1>1, <2>1, <3>1 DEF IInv, NoFreedWatcherRuns, Active
  <2> QED BY <2>1, <2>2, <2>3, <2>4, <2>6, <2>7 DEF IInv
<1> QED BY <1>5, <1>6

LEMMA ReadSendIInv == ASSUME IInv, ReadSend PROVE IInv'
<1>1. /\ pc = "relay" /\ pc' = "loop" /\ cur' = None
      /\ UNCHANGED <<backlog, files, watcher, wfd, pending, client_fd, remote>>
  BY DEF ReadSend, At, evv, authv
<1>2. NetGrows
  BY SendGrows DEF ReadSend
<1>3. client_fd = 0 /\ remote = 0 /\ \A e \in Ends : watcher[e] # "malloc"
  BY <1>1 DEF IInv, Locals, InAuth
<1>4. Typed'
  BY <1>1, <1>2 DEF IInv, Typed, NetGrows
<1>5. Locals'
  BY <1>1, <1>3 DEF IInv, Locals, InAuth, Before, Dialling
<1>6. Queue'
  <2>1. \A c \in Conns : net'[Client(c)] = "none" => net[Client(c)] = "none"
    BY <1>2, EndFacts DEF NetGrows
  <2>2. \A i \in DOMAIN backlog : backlog[i] \in Conns
    BY DEF IInv, Typed
  <2> QED BY <1>1, <1>2, <2>1, <2>2, EndFacts DEF IInv, Queue, NetGrows
<1>7. DescriptorsOwned' /\ NoFreedWatcherRuns'
  BY <1>1, <1>3 DEF IInv, DescriptorsOwned, NoFreedWatcherRuns, Active
<1> QED BY <1>4, <1>5, <1>6, <1>7 DEF IInv

-----------------------------------------------------------------------------
(* The loop, the network and main.                                         *)

LEMMA PollIInv == ASSUME IInv, Poll PROVE IInv'
<1>1. /\ UNCHANGED <<netv, files, watcher, wfd, pc, cur, authv>> /\ pending' = Ready
      /\ pc = "loop"
  BY DEF Poll
<1>2. Ready \subseteq Active \cup {Accepting} /\ (Accepting \in Ready => backlog # <<>>)
  BY EndFacts DEF Ready, Active
<1>3. Typed' /\ Locals'
  BY <1>1 DEF IInv, Typed, Locals, InAuth, netv, authv
<1>4. Queue'
  BY <1>1, <1>2 DEF IInv, Queue, netv
<1>5. DescriptorsOwned'
  BY <1>1 DEF IInv, DescriptorsOwned, Active, authv
<1>6. NoFreedWatcherRuns'
  BY <1>1, <1>2 DEF IInv, NoFreedWatcherRuns, Active
<1> QED BY <1>3, <1>4, <1>5, <1>6 DEF IInv

LEMMA ConnectIInv == ASSUME IInv, NEW c \in Conns, Connect(c) PROVE IInv'
<1>1. /\ net[Client(c)] = "none" /\ net' = [net EXCEPT ![Client(c)] = "open"]
      /\ backlog' = Append(backlog, c) /\ backlog \in Seq(Conns)
      /\ UNCHANGED <<files, watcher, wfd, pending, pc, cur, client_fd, remote>>
  BY DEF Connect, evv, authv, IInv, Typed
<1>2. watcher[Client(c)] = "none" /\ \A i \in DOMAIN backlog : backlog[i] \in Conns \ {c}
  BY <1>1 DEF IInv, Queue
<1>3. /\ backlog' \in Seq(Conns) /\ backlog' # <<>>
      /\ \A i \in DOMAIN backlog' : \/ i \in DOMAIN backlog /\ backlog'[i] = backlog[i]
                                    \/ i = Len(backlog) + 1 /\ backlog'[i] = c
  BY <1>1
<1>4. Typed'
  BY <1>1, <1>3 DEF IInv, Typed
<1>5. Locals'
  BY <1>1 DEF IInv, Locals, InAuth
<1>6. Queue'
  <2>1. \A d \in Conns : net'[Client(d)] = "none" => watcher'[Client(d)] = "none"
    BY <1>1, <1>2, EndFacts DEF IInv, Queue, Typed
  <2>2. \A d \in Conns : net[Client(d)] # "none" => net'[Client(d)] # "none"
    BY <1>1, EndFacts DEF IInv, Typed
  <2>3. net'[Client(c)] # "none"
    BY <1>1, EndFacts DEF IInv, Typed
  <2>4. \A i \in DOMAIN backlog' :
          watcher'[Client(backlog'[i])] = "none" /\ net'[Client(backlog'[i])] # "none"
    BY <1>1, <1>2, <1>3, <2>2, <2>3 DEF IInv, Queue
  <2>5. \A i, j \in DOMAIN backlog' : backlog'[i] = backlog'[j] => i = j
    BY <1>2, <1>3 DEF IInv, Queue
  <2> QED BY <1>1, <1>3, <2>1, <2>4, <2>5 DEF Queue
<1>7. DescriptorsOwned' /\ NoFreedWatcherRuns'
  BY <1>1 DEF IInv, DescriptorsOwned, NoFreedWatcherRuns, Active
<1> QED BY <1>4, <1>5, <1>6, <1>7 DEF IInv

LEMMA QuietIInv ==
  ASSUME IInv, \/ Main \/ UNCHANGED vars
               \/ \E e \in Ends : Arrive(e) \/ \E how \in Faults[e] : EndBy(e, how)
  PROVE  IInv' /\ watcher' = watcher
<1>1. UNCHANGED <<files, watcher, wfd, pending, pc, cur, client_fd, remote, backlog>>
  BY DEF Main, check_para, signal_init, Starts, Arrive, EndBy, netv, evv, authv, vars
<1>2. NetGrows
  <2>1. CASE UNCHANGED net
    BY <2>1 DEF IInv, Typed, NetGrows
  <2>2. CASE \E e \in Ends : \E how \in Faults[e] : EndBy(e, how)
    <3>0. PICK e \in Ends : \E how \in Faults[e] : EndBy(e, how)
      BY <2>2
    <3>1. PICK how \in Faults[e] : EndBy(e, how)
      BY <3>0
    <3>2. how \in {"fin", "reset", "lost", "broken"}
      BY <3>1, FaultsAssumption DEF Ends
    <3> QED BY <3>1, <3>2 DEF EndBy, IInv, Typed, NetGrows
  <2> QED BY <2>1, <2>2 DEF Main, check_para, signal_init, Starts, Arrive, netv, vars
<1> QED BY <1>1, <1>2, FrameIInv

LEMMA NextIInv == ASSUME IInv, [Next]_vars PROVE IInv'
<1>1. CASE Main \/ UNCHANGED vars
  BY <1>1, QuietIInv
<1>2. CASE signal_func
  BY <1>2, GoneIInv DEF signal_func
<1>3. CASE Network
  BY <1>3, ConnectIInv, QuietIInv DEF Network
<1>4. CASE Loop
  <2>1. CASE Poll \/ accept_cb
    BY <2>1, PollIInv, AcceptCbIInv
  <2>2. CASE read_cb
    BY <2>2, ReadRecvIInv, ReadSendIInv, GoneIInv DEF read_cb, Sigpipe
  <2> QED BY <1>4, <2>1, <2>2 DEF Loop
<1> QED BY <1>1, <1>2, <1>3, <1>4 DEF Next

LEMMA Invariance == Spec => []IInv
  BY InitIInv, NextIInv, PTL DEF Spec

(* Every descriptor has one owner, on every path of socks5_auth, accept_cb *)
(* and read_cb.                                                            *)
THEOREM DescriptorsAreOwned == Spec => []DescriptorsOwned
  BY Invariance, PTL DEF IInv

(* The two watchers of a pair live and die together, and no event is left  *)
(* for one that was freed.                                                 *)
THEOREM NoEventOutlivesItsWatcher == Spec => []NoFreedWatcherRuns
  BY Invariance, PTL DEF IInv

-----------------------------------------------------------------------------
(* How a pair ends.                                                        *)

NoPairFreed == \A e \in Active : watcher'[e] # "freed"

LEMMA GoneFreesNoPair == ASSUME NEW how, Gone(how) PROVE NoPairFreed
  BY DEF Gone, NoEnd, NoPairFreed, Active

LEMMA AcceptCbFreesNoPair == ASSUME IInv, accept_cb PROVE NoPairFreed
<1>1. CASE Accept
  <2>1. Client(Head(backlog)) # Remote(Head(backlog))
    BY DEF Client, Remote
  <2> QED BY <1>1, <2>1 DEF Accept, NoPairFreed, Active, IInv, Typed
<1>2. CASE SigpipeInAuth \/ RecvOverruns
  BY <1>2, GoneFreesNoPair DEF SigpipeInAuth, Sigpipe, RecvOverruns
<1>3. CASE Grant
  BY <1>3 DEF Grant, NoPairFreed, Active, IInv, Typed
<1>4. CASE InAuth /\ AuthError
  <2>1. watcher[cur] = "malloc" /\ watcher[Peer(cur)] = "malloc"
    BY <1>4 DEF IInv, Locals
  <2> QED BY <1>4, <2>1 DEF AuthError, NoPairFreed, Active, IInv, Typed
<1>5. CASE UNCHANGED watcher
  BY <1>5 DEF NoPairFreed, Active
<1>6. ASSUME NEW field \in FieldNames, RecvField(field)
      PROVE  (InAuth /\ AuthError) \/ UNCHANGED watcher
  BY <1>6 DEF RecvField, At, Goto, InAuth, FieldNames
<1>7. ASSUME MethodReply \/ Refuse \/ gethostbyname \/ Socket \/ ConnectRemote \/ getpeername
      PROVE  (InAuth /\ AuthError) \/ UNCHANGED watcher
  BY <1>7 DEF MethodReply, Refuse, gethostbyname, Socket, ConnectRemote, getpeername,
              At, Goto, InAuth
<1> QED BY <1>1, <1>2, <1>3, <1>4, <1>5, <1>6, <1>7 DEF accept_cb

LEMMA PairsFreedAtEnd ==
  ASSUME IInv, [Next]_vars, NEW c \in Conns,
         watcher[Client(c)] = "active", watcher'[Client(c)] = "freed"
  PROVE  \E e \in {Client(c), Remote(c)} : net[e] # "open" /\ Avail(e) = 0
<1>1. Client(c) \in Active /\ ~NoPairFreed /\ watcher' # watcher
  BY EndFacts DEF Active, NoPairFreed
<1>2. ~ (Main \/ UNCHANGED vars \/ Network)
  BY <1>1, QuietIInv DEF Network, Connect, evv
<1>3. ~ (signal_func \/ accept_cb \/ Poll)
  BY <1>1, GoneFreesNoPair, AcceptCbFreesNoPair DEF signal_func, Poll
<1>4. read_cb
  BY <1>2, <1>3 DEF Next, Loop
<1>5. PICK e \in Ends : ReadRecv(e)
  BY <1>1, <1>4, GoneFreesNoPair DEF read_cb, ReadSend, Sigpipe, evv
<1>6. /\ Avail(e) = 0 /\ net[e] # "open"
      /\ watcher' = [watcher EXCEPT ![e] = "freed", ![Peer(e)] = "freed"]
  BY <1>1, <1>5, ReadRecvIInv
<1>7. Client(c) \in {e, Peer(e)}
  BY <1>6, EndFacts DEF IInv, Typed
<1>8. e \in {Client(c), Remote(c)}
  BY <1>7, EndFacts
<1> QED BY <1>6, <1>8

(* read_cb takes a pair down only when one of its sides has ended and all  *)
(* that side had sent was read: the other ways out of recv keep the pair.  *)
THEOREM PairsEndWhenASideHasEnded == Spec => TornDownAtEnd
<1>1. IInv /\ [Next]_vars =>
        [\A c \in Conns :
           watcher[Client(c)] = "active" /\ watcher'[Client(c)] = "freed" =>
             \E e \in {Client(c), Remote(c)} : net[e] # "open" /\ Avail(e) = 0]_vars
  BY PairsFreedAtEnd
<1> QED BY <1>1, Invariance, PTL DEF Spec, TornDownAtEnd

-----------------------------------------------------------------------------
(* What has been read, and what has been said to whom.                     *)

Names == {"method", "refused", "granted"}
Tokens == {Reply(name) : name \in Names} \cup (Ends \X Nat)
Says(c, name) == \E i \in DOMAIN wrote[Client(c)] : wrote[Client(c)][i] = Reply(name)

Counted ==
  /\ proc \in {"start", "signals", "prepare", "running", "exited", "killed"}
  /\ request \in [Conns -> Requests]
  /\ arrived \in [Ends -> Nat] /\ taken \in [Ends -> Nat]
  /\ wrote \in [Ends -> Seq(Tokens)]
  /\ dialled \in [Conns -> {"nothing", "asked", "other"}]
  /\ sync \in BOOLEAN
  /\ InAuth => cur[2] = "client"

(* The tokens of the fields before a place of socks5_auth.                 *)
ReadBefore(place, c) ==
  LET sum == FieldLen["header"] + FieldLen["methods"] IN
  CASE place = "header" -> 0
    [] place = "methods" -> FieldLen["header"]
    [] place \in {"method_reply", "request"} -> sum
    [] place \in {"addr", "len"} -> sum + FieldLen["request"]
    [] place = "name" -> sum + FieldLen["request"] + FieldLen["len"]
    [] place = "gethostbyname" -> Handshake(c) - FieldLen["port"]
    [] place = "port" -> Handshake(c) - FieldLen["port"]
    [] OTHER -> Handshake(c)

(* As long as every field came whole, the place in the code tells what was *)
(* read and what the client asked for.                                     *)
InStepWithClient ==
  /\ \A c \in Conns : watcher[Client(c)] = "none" => taken[Client(c)] = 0
  /\ InAuth /\ sync /\ pc # "refuse" =>
       taken[cur] = ReadBefore(pc, cur[1])
  /\ InAuth /\ sync /\ pc = "addr" => request[cur[1]] = "ipv4"
  /\ InAuth /\ sync /\ pc \in {"len", "name", "gethostbyname"} => request[cur[1]] \in Named
  /\ InAuth /\ sync /\ pc \in {"port", "socket"} \cup Dialling =>
       request[cur[1]] \in {"ipv4"} \cup Named

(* Before it is decided a client has heard the reply to its methods only.  *)
Undecided ==
  /\ \A e \in Ends : watcher[e] \in {"none", "malloc"} =>
       \A i \in DOMAIN wrote[e] : e[2] = "client" /\ wrote[e][i] = Reply("method")
  /\ \A c \in Conns : watcher[Client(c)] = "none" => dialled[c] = "nothing"
  /\ InAuth /\ pc \notin {"header", "methods", "method_reply"} => Says(cur[1], "method")
  /\ pc \in {"getpeername", "grant"} => dialled[cur[1]] # "nothing"

(* What an end was sent: replies, then tokens of its peer up to a limit.   *)
InOrder(w, e, limit) ==
  /\ \A i \in DOMAIN w : ~IsReply(w[i]) => w[i][1] = Peer(e) /\ w[i][2] <= limit
  /\ \A i, j \in DOMAIN w : i < j /\ ~IsReply(w[j]) => IsReply(w[i]) \/ w[i][2] < w[j][2]
  /\ \A i, j \in DOMAIN w : i < j /\ IsReply(w[j]) => IsReply(w[i])

InBuf(e) == IF pc = "relay" /\ cur = e THEN Len(buf) ELSE 0

(* read_cb holds what it read last; everything before has been sent.       *)
Relayed ==
  /\ pc = "relay" => /\ buf \in Seq(Tokens) /\ Len(buf) <= taken[cur]
                     /\ \A i \in DOMAIN buf : buf[i] = <<cur, taken[cur] - Len(buf) + i>>
  /\ \A e \in Ends : InOrder(wrote[e], e, taken[Peer(e)] - InBuf(Peer(e)))
  /\ \A c \in Conns : \A i \in DOMAIN wrote[Remote(c)] : ~IsReply(wrote[Remote(c)][i])
  /\ \A c \in Conns : dialled[c] = "asked" =>
       /\ taken[Client(c)] - InBuf(Client(c)) >= Handshake(c)
       /\ \A i \in DOMAIN wrote[Remote(c)] : wrote[Remote(c)][i][2] > Handshake(c)

TalkInv == Counted /\ InStepWithClient /\ Undecided /\ Relayed /\ AnswersTold

LEMMA ReplyFacts ==
  /\ \A name \in Names : Reply(name) \in Tokens
  /\ \A name : IsReply(Reply(name))
  /\ \A x \in Ends \X Nat : ~IsReply(x)
  /\ \A x \in Tokens : ~IsReply(x) => x \in Ends \X Nat
  /\ \A m, n : Reply(m) = Reply(n) => m = n
  BY NoneAssumption DEF Reply, IsReply, Tokens, Ends

LEMMA HandshakeType == ASSUME NEW c PROVE Handshake(c) \in Nat
  BY FieldLenAssumption DEF Handshake, FieldNames

LEMMA TotalType == ASSUME NEW e \in Ends PROVE Total(e) \in Nat
  BY HandshakeType, PayloadAssumption DEF Total, Ends

LEMMA InOrderLater ==
  ASSUME NEW w \in Seq(Tokens), NEW e, NEW limit \in Int, NEW later \in Int,
         limit <= later, InOrder(w, e, limit)
  PROVE  InOrder(w, e, later)
<1>1. \A i \in DOMAIN w : ~IsReply(w[i]) => w[i][2] \in Nat
  BY ReplyFacts
<1> QED BY <1>1 DEF InOrder

LEMMA InOrderReply ==
  ASSUME NEW w \in Seq(Tokens), NEW e, NEW limit, NEW name \in Names,
         InOrder(w, e, limit), \A i \in DOMAIN w : IsReply(w[i])
  PROVE  InOrder(Append(w, Reply(name)), e, limit)
<1> DEFINE v == Append(w, Reply(name))
<1>1. \A i \in DOMAIN v : IsReply(v[i])
  <2>1. DOMAIN v = 1 .. Len(w) + 1 /\ \A i \in DOMAIN v :
          (i \in DOMAIN w /\ v[i] = w[i]) \/ v[i] = Reply(name)
    OBVIOUS
  <2> QED BY <2>1, ReplyFacts
<1> HIDE DEF v
<1> QED BY <1>1 DEF InOrder, v

(* What read_cb sends next continues what the end was sent.                *)
LEMMA InOrderBlock ==
  ASSUME NEW w \in Seq(Tokens), NEW e \in Ends, NEW limit \in Int, NEW n \in Nat,
         NEW t \in Seq(Tokens), Len(t) = n, InOrder(w, e, limit),
         \A i \in DOMAIN t : t[i] = <<Peer(e), limit + i>>
  PROVE  InOrder(w \o t, e, limit + n)
<1> DEFINE v == w \o t
<1>1. /\ DOMAIN v = 1 .. Len(w) + n /\ Len(w) \in Nat
      /\ \A i \in 1 .. Len(w) : v[i] = w[i] /\ i \in DOMAIN w
      /\ \A i \in DOMAIN v : i > Len(w) => /\ i - Len(w) \in DOMAIN t
                                           /\ v[i] = <<Peer(e), limit + (i - Len(w))>>
  <2>1. Len(w) \in Nat /\ DOMAIN w = 1 .. Len(w) /\ DOMAIN t = 1 .. n
    OBVIOUS
  <2>2. /\ DOMAIN v = 1 .. Len(w) + n
        /\ \A i \in 1 .. Len(w) + n : v[i] = IF i <= Len(w) THEN w[i] ELSE t[i - Len(w)]
    <3>1. /\ v \in Seq(Tokens) /\ Len(v) = Len(w) + Len(t)
          /\ \A i \in 1 .. Len(w) + Len(t) : v[i] = IF i <= Len(w) THEN w[i] ELSE t[i - Len(w)]
      BY ConcatProperties
    <3> HIDE DEF v
    <3>2. DOMAIN v = 1 .. Len(v)
      BY <3>1
    <3> QED BY <3>1, <3>2
  <2> HIDE DEF v
  <2>3. \A i \in DOMAIN v : i > Len(w) => i - Len(w) \in DOMAIN t
    BY <2>1, <2>2
  <2> QED BY <2>1, <2>2, <2>3
<1>2. \A i \in DOMAIN w : ~IsReply(w[i]) => w[i][2] \in Nat /\ w[i][2] <= limit
  BY ReplyFacts DEF InOrder
<1>3. \A i \in DOMAIN v : i > Len(w) => ~IsReply(v[i])
  BY <1>1, EndFacts DEF IsReply, NoneAssumption
<1> HIDE DEF v
<1>4. \A i \in DOMAIN v : ~IsReply(v[i]) => v[i][1] = Peer(e) /\ v[i][2] <= limit + n
  <2> SUFFICES ASSUME NEW i \in DOMAIN v, ~IsReply(v[i])
               PROVE  v[i][1] = Peer(e) /\ v[i][2] <= limit + n
    OBVIOUS
  <2>1. CASE i > Len(w)
    BY <1>1, <2>1
  <2>2. CASE i <= Len(w)
    BY <1>1, <1>2, <2>2 DEF InOrder
  <2> QED BY <1>1, <2>1, <2>2
<1>5. \A i, j \in DOMAIN v : i < j /\ ~IsReply(v[j]) => IsReply(v[i]) \/ v[i][2] < v[j][2]
  <2> SUFFICES ASSUME NEW i \in DOMAIN v, NEW j \in DOMAIN v, i < j, ~IsReply(v[j]),
                      ~IsReply(v[i])
               PROVE  v[i][2] < v[j][2]
    OBVIOUS
  <2>1. CASE j <= Len(w)
    BY <1>1, <2>1 DEF InOrder
  <2>2. CASE j > Len(w) /\ i > Len(w)
    BY <1>1, <2>2
  <2>3. CASE j > Len(w) /\ i <= Len(w)
    BY <1>1, <1>2, <2>3
  <2> QED BY <1>1, <2>1, <2>2, <2>3
<1>6. \A i, j \in DOMAIN v : i < j /\ IsReply(v[j]) => IsReply(v[i])
  BY <1>1, <1>3 DEF InOrder
<1> QED BY <1>4, <1>5, <1>6 DEF InOrder, v

LEMMA InitTalk == Init => TalkInv
<1> SUFFICES ASSUME Init PROVE TalkInv
  OBVIOUS
<1>1. Counted
  BY DEF Init, Counted, InAuth, NoEnd
<1>2. InStepWithClient /\ Undecided
  BY EndFacts DEF Init, InStepWithClient, Undecided, InAuth, NoEnd, Says, Dialling
<1>3. Relayed
  BY EndFacts DEF Init, Relayed, NoEnd, InOrder, InBuf
<1>4. AnswersTold
  <2>1. \A c \in Conns : wrote[Client(c)] = <<>> /\ dialled[c] = "nothing"
    BY EndFacts DEF Init, NoEnd
  <2>2. \A c \in Conns : \A name : ~ \E i \in DOMAIN wrote[Client(c)] :
                                     wrote[Client(c)][i] = Reply(name)
    BY <2>1
  <2> QED BY <2>1, <2>2 DEF AnswersTold
<1> QED BY <1>1, <1>2, <1>3, <1>4 DEF TalkInv

LEMMA GoneTalk ==
  ASSUME TalkInv, NEW how \in {"exited", "killed"}, Gone(how) PROVE TalkInv'
<1>1. Counted'
  BY DEF Gone, TalkInv, Counted, InAuth, NoEnd
<1>2. InStepWithClient' /\ Undecided'
  BY EndFacts DEF Gone, InStepWithClient, Undecided, InAuth, NoEnd, Says, Dialling
<1>3. Relayed'
  BY EndFacts DEF Gone, Relayed, NoEnd, InOrder, InBuf
<1>4. AnswersTold'
  BY EndFacts DEF Gone, AnswersTold, NoEnd
<1> QED BY <1>1, <1>2, <1>3, <1>4 DEF TalkInv

-----------------------------------------------------------------------------
(* Steps that neither read nor write on an end.                            *)

LEMMA FrameTalk ==
  ASSUME IInv, TalkInv,
         UNCHANGED <<request, taken, wrote, dialled, sync, watcher, pc, cur>>,
         pc = "relay" => UNCHANGED buf,
         proc' \in {"start", "signals", "prepare", "running", "exited", "killed"},
         arrived' \in [Ends -> Nat]
  PROVE  TalkInv'
<1>1. Counted'
  BY DEF TalkInv, Counted, InAuth
<1>2. InStepWithClient'
  BY DEF TalkInv, InStepWithClient, InAuth, ReadBefore, Handshake
<1>3. Undecided'
  BY DEF TalkInv, Undecided, InAuth, Says
<1>4. Relayed'
  <2>1. \A e \in Ends : InBuf(e)' = InBuf(e)
    BY DEF InBuf
  <2>2. \A c \in Conns : Handshake(c)' = Handshake(c)
    BY DEF Handshake
  <2>3. Relayed
    BY DEF TalkInv
  <2> QED BY <2>1, <2>2, <2>3, EndFacts DEF Relayed, InOrder
<1>5. AnswersTold'
  BY DEF TalkInv, AnswersTold, Handshake
<1> QED BY <1>1, <1>2, <1>3, <1>4, <1>5 DEF TalkInv

LEMMA QuietTalk ==
  ASSUME IInv, TalkInv,
         \/ Main \/ UNCHANGED vars \/ Poll
         \/ \E c \in Conns : Connect(c)
         \/ \E e \in Ends : Arrive(e) \/ \E how \in Faults[e] : EndBy(e, how)
  PROVE  TalkInv'
<1>1. UNCHANGED <<request, taken, wrote, dialled, sync, buf, watcher, pc, cur>>
  BY DEF Main, check_para, signal_init, Starts, Poll, Connect, Arrive, EndBy, netv, evv,
     authv, vars
<1>2. proc' \in {"start", "signals", "prepare", "running", "exited", "killed"}
  BY DEF Main, check_para, signal_init, socks5_srv_init, Starts, Poll, Connect, Arrive, EndBy,
     vars, TalkInv, Counted
<1>3. arrived' \in [Ends -> Nat]
  <2>1. CASE UNCHANGED arrived
    BY <2>1 DEF TalkInv, Counted
  <2>2. ASSUME NEW e \in Ends, Arrive(e)
        PROVE  arrived' \in [Ends -> Nat]
    <3>1. PICK n \in Pauses[e] \cup {Total(e)} : arrived' = [arrived EXCEPT ![e] = n]
      BY <2>2 DEF Arrive
    <3>2. n \in Nat
      BY <3>1, TotalType, PausesAssumption DEF Ends
    <3> QED BY <3>1, <3>2 DEF TalkInv, Counted
  <2> QED BY <2>1, <2>2 DEF Main, check_para, signal_init, Starts, Poll, Connect, EndBy, netv,
             vars
<1> QED BY <1>1, <1>2, <1>3, FrameTalk

-----------------------------------------------------------------------------
(* accept_cb.                                                              *)

LEMMA AcceptTalk == ASSUME IInv, TalkInv, Accept PROVE TalkInv'
<1>1. CASE UNCHANGED <<netv, files, watcher, wfd, pc, cur, authv>>
  BY <1>1, FrameTalk DEF Accept, netv, authv, TalkInv, Counted
<1>2. CASE ~UNCHANGED <<netv, files, watcher, wfd, pc, cur, authv>>
  <2> DEFINE c == Head(backlog)
  <2>1. /\ cur' = Client(c) /\ sync' = TRUE /\ pc' = "header" /\ pc = "loop"
        /\ watcher' = [watcher EXCEPT ![Client(c)] = "malloc", ![Remote(c)] = "malloc"]
        /\ UNCHANGED <<request, arrived, dialled, proc, taken, wrote, buf>>
    BY <1>2 DEF Accept, Dispatch
  <2>2. c \in Conns /\ watcher[Client(c)] = "none" /\ watcher[Remote(c)] = "none"
    <3>1. backlog # <<>> /\ backlog \in Seq(Conns)
      BY DEF IInv, Accept, Dispatch, Queue, Typed
    <3>2. c \in Conns /\ c = backlog[1] /\ 1 \in DOMAIN backlog
      BY <3>1
    <3> QED BY <3>2, EndFacts DEF IInv, Queue, NoFreedWatcherRuns
  <2>3. taken[Client(c)] = 0
    BY <2>2 DEF TalkInv, InStepWithClient
  <2> HIDE DEF c
  <2>4. Counted'
    BY <2>1, <2>2 DEF TalkInv, Counted, Client
  <2>5. InStepWithClient'
    BY <2>1, <2>2, <2>3, EndFacts
       DEF TalkInv, InStepWithClient, ReadBefore, IInv, Typed, Dialling
  <2>6. Undecided'
    <3>1. ASSUME NEW e \in Ends, watcher'[e] \in {"none", "malloc"}
          PROVE  watcher[e] \in {"none", "malloc"}
      BY <2>1, <2>2, <3>1, EndFacts DEF IInv, Typed
    <3>2. ASSUME NEW d \in Conns, watcher'[Client(d)] = "none"
          PROVE  watcher[Client(d)] = "none"
      BY <2>1, <2>2, <3>2, EndFacts DEF IInv, Typed
    <3> QED BY <2>1, <3>1, <3>2 DEF TalkInv, Undecided
  <2>7. Relayed'
    <3>1. /\ \A e \in Ends : InBuf(e)' = 0 /\ InBuf(e) = 0
          /\ \A d \in Conns : Handshake(d)' = Handshake(d)
          /\ pc' # "relay" /\ UNCHANGED <<taken, wrote, dialled>>
      BY <2>1 DEF InBuf, Handshake
    <3> QED BY <3>1, EndFacts DEF TalkInv, Relayed, InOrder
  <2>8. AnswersTold'
    <3>1. \A d \in Conns : Handshake(d)' = Handshake(d)
      BY <2>1 DEF Handshake
    <3>2. \A d \in Conns : watcher[Client(d)] = "freed" => watcher'[Client(d)] = "freed"
      BY <2>1, <2>2, EndFacts DEF IInv, Typed
    <3> QED BY <2>1, <3>1, <3>2 DEF TalkInv, AnswersTold
  <2> QED BY <2>4, <2>5, <2>6, <2>7, <2>8 DEF TalkInv
<1> QED BY <1>1, <1>2

(* What a step of socks5_auth may do to what was read, said and dialled.   *)
TakesMore ==
  /\ taken' \in [Ends -> Nat]
  /\ \A e \in Ends : taken'[e] >= taken[e] /\ (e # cur => taken'[e] = taken[e])
MaySay ==
  \/ wrote' = wrote
  \/ \E name \in Names :
       /\ wrote' = [wrote EXCEPT ![cur] = Append(@, Reply(name))]
       /\ name = "refused" => watcher'[cur] = "freed"
       /\ name # "method" => Says(cur[1], "method")
       /\ name = "granted" => dialled[cur[1]] # "nothing"
MayDial ==
  \A c \in Conns : dialled'[c] # dialled[c] =>
    /\ c = cur[1] /\ dialled'[c] # "nothing"
    /\ dialled'[c] = "asked" => /\ request[c] \in {"ipv4"} \cup Named
                               /\ taken[Client(c)] >= Handshake(c)

LEMMA CurIsClient ==
  ASSUME IInv, TalkInv, InAuth
  PROVE  /\ cur \in Ends /\ cur[1] \in Conns /\ cur = Client(cur[1]) /\ Peer(cur) = Remote(cur[1])
         /\ watcher[cur] = "malloc" /\ watcher[Peer(cur)] = "malloc"
         /\ wrote[cur] \in Seq(Tokens) /\ taken[cur] \in Nat
         /\ \A i \in DOMAIN wrote[cur] : wrote[cur][i] = Reply("method")
         /\ DOMAIN wrote[Peer(cur)] = {}
         /\ pc \notin {"loop", "relay"}
<1>1. /\ cur \in Ends /\ watcher[cur] = "malloc" /\ watcher[Peer(cur)] = "malloc"
      /\ cur[2] = "client"
  BY DEF IInv, Locals, TalkInv, Counted
<1>2. /\ cur[1] \in Conns /\ cur = Client(cur[1]) /\ Peer(cur) = Remote(cur[1])
      /\ Peer(cur) \in Ends /\ Peer(cur)[2] = "remote"
  BY <1>1, EndFacts DEF Client, Remote, Peer, Ends
<1>3. /\ \A i \in DOMAIN wrote[cur] : wrote[cur][i] = Reply("method")
      /\ DOMAIN wrote[Peer(cur)] = {}
  BY <1>1, <1>2 DEF TalkInv, Undecided
<1> QED BY <1>1, <1>2, <1>3 DEF TalkInv, Counted, InAuth

LEMMA AuthRelayed ==
  ASSUME IInv, TalkInv, InAuth, pc' # "relay", request' = request, TakesMore, MaySay, MayDial
  PROVE  Relayed'
<1>1. /\ \A e \in Ends : InBuf(e)' = 0 /\ InBuf(e) = 0
      /\ \A c \in Conns : Handshake(c)' = Handshake(c)
  BY DEF InBuf, Handshake, InAuth
<1>2. \A e \in Ends : /\ taken[e] \in Nat /\ taken'[e] \in Nat /\ taken[e] <= taken'[e]
                      /\ wrote[e] \in Seq(Tokens)
  BY DEF TalkInv, Counted, TakesMore
<1>3. ASSUME NEW e \in Ends
      PROVE  InOrder(wrote'[e], e, taken'[Peer(e)])
  <2>1. InOrder(wrote[e], e, taken[Peer(e)])
    <3>1. InOrder(wrote[e], e, taken[Peer(e)] - InBuf(Peer(e)))
      BY DEF TalkInv, Relayed
    <3>2. taken[Peer(e)] - InBuf(Peer(e)) = taken[Peer(e)]
      BY <1>1, <1>2, EndFacts
    <3> QED BY <3>1, <3>2
  <2>2. InOrder(wrote[e], e, taken'[Peer(e)])
    BY <2>1, <1>2, InOrderLater, EndFacts
  <2>3. CASE wrote'[e] = wrote[e]
    BY <2>2, <2>3
  <2>4. CASE wrote'[e] # wrote[e]
    <3>1. PICK name \in Names : wrote' = [wrote EXCEPT ![cur] = Append(@, Reply(name))]
      BY <2>4 DEF MaySay
    <3>2. e = cur /\ wrote'[e] = Append(wrote[e], Reply(name))
      BY <2>4, <3>1 DEF TalkInv, Counted
    <3>3. \A i \in DOMAIN wrote[e] : IsReply(wrote[e][i])
      BY <3>2, CurIsClient, ReplyFacts
    <3> QED BY <2>2, <3>2, <3>3, <1>2, InOrderReply
  <2> QED BY <2>3, <2>4
<1>4. \A c \in Conns : wrote'[Remote(c)] = wrote[Remote(c)]
  BY CurIsClient, EndFacts DEF MaySay, TalkInv, Counted
<1>5. ASSUME NEW c \in Conns, dialled'[c] = "asked"
      PROVE  /\ taken'[Client(c)] >= Handshake(c)
             /\ \A i \in DOMAIN wrote[Remote(c)] : wrote[Remote(c)][i][2] > Handshake(c)
  <2>1. CASE dialled[c] = "asked"
    BY <2>1, <1>1, <1>2, EndFacts, HandshakeType DEF TalkInv, Relayed
  <2>2. CASE dialled[c] # "asked"
    BY <2>2, <1>2, <1>5, CurIsClient, EndFacts, HandshakeType DEF MayDial
  <2> QED BY <2>1, <2>2
<1>6. \A e \in Ends : taken'[e] - 0 = taken'[e]
  BY <1>2
<1>7. \A e \in Ends : InOrder(wrote'[e], e, taken'[Peer(e)] - InBuf(Peer(e))')
  BY <1>1, <1>3, <1>6, EndFacts
<1>8. \A c \in Conns : dialled'[c] = "asked" =>
        taken'[Client(c)] - InBuf(Client(c))' >= Handshake(c)'
  BY <1>1, <1>5, <1>6, EndFacts
<1> QED BY <1>1, <1>4, <1>5, <1>7, <1>8 DEF Relayed, InOrder, TalkInv

LEMMA AuthAnswers ==
  ASSUME IInv, TalkInv, InAuth, request' = request, TakesMore, MaySay, MayDial,
         \A e \in Ends : watcher[e] = "freed" => watcher'[e] = "freed"
  PROVE  AnswersTold'
<1> SUFFICES ASSUME NEW c \in Conns
             PROVE  /\ Says(c, "granted")' => dialled'[c] # "nothing" /\ ~Says(c, "refused")'
                    /\ Says(c, "refused")' \/ Says(c, "granted")' => Says(c, "method")'
                    /\ Says(c, "refused")' => watcher'[Client(c)] = "freed"
                    /\ dialled'[c] = "asked" => /\ request[c] \in {"ipv4"} \cup Named
                                               /\ taken'[Client(c)] >= Handshake(c)'
  BY DEF AnswersTold, Says
<1>1. /\ Says(c, "granted") => dialled[c] # "nothing" /\ ~Says(c, "refused")
      /\ Says(c, "refused") \/ Says(c, "granted") => Says(c, "method")
      /\ Says(c, "refused") => watcher[Client(c)] = "freed"
      /\ dialled[c] = "asked" => /\ request[c] \in {"ipv4"} \cup Named
                                /\ taken[Client(c)] >= Handshake(c)
  BY DEF TalkInv, AnswersTold, Says
<1>2. /\ Client(c) \in Ends /\ taken'[Client(c)] >= taken[Client(c)]
      /\ taken[Client(c)] \in Nat /\ taken'[Client(c)] \in Nat /\ Handshake(c) \in Nat
      /\ Handshake(c)' = Handshake(c)
  BY EndFacts, HandshakeType DEF TakesMore, TalkInv, Counted, Handshake
<1>3. /\ dialled[c] # "nothing" => dialled'[c] # "nothing"
      /\ dialled'[c] = "asked" => /\ request[c] \in {"ipv4"} \cup Named
                                 /\ taken'[Client(c)] >= Handshake(c)'
  BY <1>1, <1>2 DEF MayDial
<1>4. CASE wrote'[Client(c)] = wrote[Client(c)]
  BY <1>1, <1>2, <1>3, <1>4 DEF Says
<1>5. CASE wrote'[Client(c)] # wrote[Client(c)]
  <2>1. PICK name \in Names :
           /\ wrote' = [wrote EXCEPT ![cur] = Append(@, Reply(name))]
           /\ name = "refused" => watcher'[cur] = "freed"
           /\ name # "method" => Says(cur[1], "method")
           /\ name = "granted" => dialled[cur[1]] # "nothing"
    BY <1>5 DEF MaySay
  <2>2. cur = Client(c) /\ cur[1] = c /\ wrote'[cur] = Append(wrote[cur], Reply(name))
    BY <1>2, <1>5, <2>1, CurIsClient, EndFacts DEF TalkInv, Counted
  <2>3. /\ wrote[cur] \in Seq(Tokens)
        /\ \A i \in DOMAIN wrote[cur] : wrote[cur][i] = Reply("method")
    BY CurIsClient
  <2>4. \A other : Says(c, other)' <=> Says(c, other) \/ other = name
    <3>1. /\ DOMAIN wrote'[cur] = 1 .. Len(wrote[cur]) + 1 /\ DOMAIN wrote[cur] = 1 .. Len(wrote[cur])
          /\ \A i \in DOMAIN wrote[cur] : wrote'[cur][i] = wrote[cur][i]
          /\ wrote'[cur][Len(wrote[cur]) + 1] = Reply(name) /\ Len(wrote[cur]) \in Nat
      BY <2>2, <2>3
    <3>2. \A i \in DOMAIN wrote'[cur] : i \in DOMAIN wrote[cur] \/ i = Len(wrote[cur]) + 1
      BY <3>1
    <3>3. Len(wrote[cur]) + 1 \in DOMAIN wrote'[cur] /\ DOMAIN wrote[cur] \subseteq DOMAIN wrote'[cur]
      BY <3>1
    <3> QED BY <2>2, <3>1, <3>2, <3>3, ReplyFacts DEF Says
  <2>5. ~Says(c, "refused") /\ ~Says(c, "granted")
    BY <2>2, <2>3, ReplyFacts DEF Says
  <2> QED BY <1>3, <2>1, <2>2, <2>4, <2>5 DEF Names
<1> QED BY <1>4, <1>5

LEMMA AuthErrorTalk ==
  ASSUME IInv, TalkInv, InAuth, AuthError, TakesMore, MaySay, wrote' \in [Ends -> Seq(Tokens)],
         proc' = proc, sync' \in BOOLEAN, UNCHANGED <<request, arrived, dialled>>
  PROVE  TalkInv'
<1>1. /\ cur \in Ends /\ Peer(cur) \in Ends /\ cur # Peer(cur)
      /\ watcher[cur] = "malloc" /\ watcher[Peer(cur)] = "malloc"
  BY CurIsClient, EndFacts
<1>2. /\ watcher' = [watcher EXCEPT ![cur] = "freed", ![Peer(cur)] = "freed"]
      /\ pc' = "loop" /\ cur' = None
  BY DEF AuthError
<1>3. \A e \in Ends : watcher'[e] \in {"none", "malloc"} =>
        e # cur /\ e # Peer(cur) /\ watcher'[e] = watcher[e]
  BY <1>1, <1>2 DEF IInv, Typed
<1>4. Counted'
  BY <1>2 DEF TalkInv, Counted, InAuth, TakesMore
<1>5. MayDial
  BY DEF MayDial
<1>6. Relayed'
  BY <1>2, <1>5, AuthRelayed
<1>7. AnswersTold'
  <2>1. \A e \in Ends : watcher[e] = "freed" => watcher'[e] = "freed"
    BY <1>1, <1>2 DEF IInv, Typed
  <2> QED BY <2>1, <1>5, AuthAnswers
<1>8. ~InAuth'
  BY <1>2 DEF InAuth
<1>9. Undecided'
  <2>1. ASSUME NEW e \in Ends, watcher'[e] \in {"none", "malloc"}
        PROVE  wrote'[e] = wrote[e] /\ watcher[e] \in {"none", "malloc"}
    BY <1>1, <1>3, <2>1 DEF MaySay, TalkInv, Counted
  <2>2. \A c \in Conns : watcher'[Client(c)] = "none" => dialled'[c] = "nothing"
    BY <1>3, EndFacts DEF TalkInv, Undecided
  <2>3. \A e \in Ends : watcher'[e] \in {"none", "malloc"} =>
          \A i \in DOMAIN wrote'[e] : e[2] = "client" /\ wrote'[e][i] = Reply("method")
    BY <2>1 DEF TalkInv, Undecided
  <2> QED BY <1>2, <1>8, <2>2, <2>3 DEF Undecided
<1>10. InStepWithClient'
  <2>1. \A c \in Conns : watcher'[Client(c)] = "none" => taken'[Client(c)] = 0
    BY <1>3, EndFacts DEF TalkInv, InStepWithClient, TakesMore
  <2> QED BY <1>8, <2>1 DEF InStepWithClient
<1> QED BY <1>4, <1>6, <1>7, <1>9, <1>10 DEF TalkInv

(* On to another place of socks5_auth; what was read so far is what the    *)
(* places before it read.                                                  *)
LEMMA GotoTalk ==
  ASSUME IInv, TalkInv, InAuth, NEW label, pc' = label, UNCHANGED <<watcher, cur>>,
         TakesMore, MaySay, MayDial,
         wrote' \in [Ends -> Seq(Tokens)], dialled' \in [Conns -> {"nothing", "asked", "other"}],
         proc' = proc, sync' \in BOOLEAN, UNCHANGED <<request, arrived>>,
         label \in Before \cup Dialling \cup {"refuse"},
         \A name \in Names : wrote'[cur] = Append(wrote[cur], Reply(name)) => name = "method",
         label \notin {"header", "methods", "method_reply"} =>
           Says(cur[1], "method") \/ Says(cur[1], "method")',
         label \in {"getpeername", "grant"} => dialled'[cur[1]] # "nothing",
         sync' /\ label # "refuse" => taken'[cur] = ReadBefore(label, cur[1]),
         sync' /\ label = "addr" => request[cur[1]] = "ipv4",
         sync' /\ label \in {"len", "name", "gethostbyname"} => request[cur[1]] \in Named,
         sync' /\ label \in {"port", "socket"} \cup Dialling => request[cur[1]] \in {"ipv4"} \cup Named
  PROVE  TalkInv'
<1>1. /\ pc' = label /\ UNCHANGED <<watcher, cur>> /\ label \notin {"loop", "relay"}
  BY DEF Before, Dialling
<1>2. /\ cur \in Ends /\ cur[1] \in Conns /\ cur = Client(cur[1])
      /\ watcher[cur] = "malloc" /\ watcher[Peer(cur)] = "malloc"
      /\ wrote[cur] \in Seq(Tokens)
      /\ \A i \in DOMAIN wrote[cur] : wrote[cur][i] = Reply("method")
  BY CurIsClient
<1>3. Counted'
  BY <1>1 DEF TalkInv, Counted, InAuth, TakesMore
<1>4. Relayed'
  BY <1>1, AuthRelayed
<1>5. AnswersTold'
  BY <1>1, AuthAnswers
<1>6. InStepWithClient'
  <2>1. \A c \in Conns : watcher'[Client(c)] = "none" => taken'[Client(c)] = 0
    BY <1>1, <1>2, EndFacts DEF TalkInv, InStepWithClient, TakesMore
  <2>2. ReadBefore(label, cur[1])' = ReadBefore(label, cur[1])
    BY <1>1 DEF ReadBefore, Handshake
  <2> QED BY <1>1, <2>1, <2>2 DEF InStepWithClient, ReadBefore, Handshake
<1>7. Undecided'
  <2>1. ASSUME NEW e \in Ends, watcher'[e] \in {"none", "malloc"}, NEW i \in DOMAIN wrote'[e]
        PROVE  e[2] = "client" /\ wrote'[e][i] = Reply("method")
    <3>1. CASE wrote'[e] = wrote[e]
      BY <1>1, <2>1, <3>1 DEF TalkInv, Undecided
    <3>2. CASE wrote'[e] # wrote[e]
      <4>1. PICK name \in Names : wrote' = [wrote EXCEPT ![cur] = Append(@, Reply(name))]
        BY <3>2 DEF MaySay
      <4>2. e = cur /\ wrote'[e] = Append(wrote[e], Reply("method"))
        BY <3>2, <4>1 DEF TalkInv, Counted
      <4>3. e[2] = "client"
        BY <4>2 DEF TalkInv, Counted
      <4>4. (i \in DOMAIN wrote[e] /\ wrote'[e][i] = wrote[e][i]) \/ wrote'[e][i] = Reply("method")
        BY <1>2, <2>1, <4>2
      <4> QED BY <1>2, <4>2, <4>3, <4>4
    <3> QED BY <3>1, <3>2
  <2>2. \A c \in Conns : watcher'[Client(c)] = "none" => dialled'[c] = "nothing"
    BY <1>1, <1>2, EndFacts DEF TalkInv, Undecided, MayDial
  <2>3. Says(cur[1], "method") => Says(cur[1], "method")'
    <3>1. CASE wrote'[cur] = wrote[cur]
      BY <1>1, <1>2, <3>1 DEF Says
    <3>2. CASE wrote'[cur] # wrote[cur]
      <4>1. PICK name \in Names : wrote' = [wrote EXCEPT ![cur] = Append(@, Reply(name))]
        BY <3>2 DEF MaySay
      <4>2. wrote'[cur] = Append(wrote[cur], Reply(name))
        BY <1>2, <4>1 DEF TalkInv, Counted
      <4>3. \A i \in DOMAIN wrote[cur] : i \in DOMAIN wrote'[cur] /\ wrote'[cur][i] = wrote[cur][i]
        BY <1>2, <4>2
      <4> QED BY <1>1, <1>2, <4>3 DEF Says
    <3> QED BY <3>1, <3>2
  <2> QED BY <1>1, <2>1, <2>2, <2>3 DEF Undecided, Says
<1> QED BY <1>3, <1>4, <1>5, <1>6, <1>7 DEF TalkInv

(* A reply is one token: it is sent or it is not.                          *)
LEMMA ReplySent ==
  ASSUME IInv, TalkInv, InAuth, NEW name \in Names, NEW ok \in BOOLEAN,
         Send(client_fd, <<Reply(name)>>, ok)
  PROVE  /\ proc' = proc /\ wrote' \in [Ends -> Seq(Tokens)]
         /\ ~ok => wrote' = wrote
         /\ ok => wrote' = [wrote EXCEPT ![cur] = Append(@, Reply(name))]
<1>1. files[client_fd] = cur /\ cur \in Ends /\ wrote[cur] \in Seq(Tokens) /\ Reply(name) \in Tokens
  BY CurIsClient, ReplyFacts DEF IInv, Locals
<1>2. wrote \in [Ends -> Seq(Tokens)]
  BY DEF TalkInv, Counted
<1>3. CASE /\ proc' = proc /\ ~ok /\ wrote' = wrote
  BY <1>2, <1>3
<1>4. ASSUME NEW n \in 0 .. Len(<<Reply(name)>>), ok = (n > 0), proc' = proc,
             wrote' = [wrote EXCEPT ![cur] = @ \o SubSeq(<<Reply(name)>>, 1, n)]
      PROVE  /\ proc' = proc /\ wrote' \in [Ends -> Seq(Tokens)]
             /\ ~ok => wrote' = wrote
             /\ ok => wrote' = [wrote EXCEPT ![cur] = Append(@, Reply(name))]
  <2>1. n = 0 \/ n = 1
    OBVIOUS
  <2>2. CASE n = 0
    <3>1. wrote[cur] \o SubSeq(<<Reply(name)>>, 1, n) = wrote[cur]
      <4>1. SubSeq(<<Reply(name)>>, 1, 0) = <<>>
        BY SubSeqEmpty
      <4> QED BY <4>1, <2>2, <1>1, ConcatEmptySeq
    <3>2. ~ (n > 0)
      BY <2>2
    <3>3. ~ok
      BY <1>4, <3>2, Zenon
    <3>4. wrote' = [wrote EXCEPT ![cur] = wrote[cur]]
      BY <1>4, <3>1
    <3> QED BY <1>1, <1>2, <1>4, <3>3, <3>4
  <2>3. CASE n = 1
    <3>1. SubSeq(<<Reply(name)>>, 1, 1) = <<Reply(name)>>
      <4>1. <<Reply(name)>> \in Seq(Tokens) /\ Len(<<Reply(name)>>) = 1
        BY <1>1
      <4> QED BY <4>1, SubSeqFull
    <3>2. wrote[cur] \o <<Reply(name)>> = Append(wrote[cur], Reply(name))
      BY <1>1, AppendIsConcat
    <3>3. Append(wrote[cur], Reply(name)) \in Seq(Tokens)
      BY <1>1
    <3>4. n > 0
      BY <2>3
    <3>5. ok
      BY <1>4, <3>4, Zenon
    <3>6. wrote' = [wrote EXCEPT ![cur] = Append(wrote[cur], Reply(name))]
      BY <1>4, <2>3, <3>1, <3>2
    <3> QED BY <1>1, <1>2, <1>4, <3>3, <3>5, <3>6
  <2> QED BY <2>1, <2>2, <2>3
<1> QED BY <1>1, <1>3, <1>4 DEF Send

LEMMA NothingTaken == ASSUME TalkInv, UNCHANGED taken PROVE TakesMore
  BY DEF TalkInv, Counted, TakesMore

LEMMA NothingSaid ==
  ASSUME IInv, TalkInv, InAuth, UNCHANGED wrote
  PROVE  /\ MaySay /\ wrote' \in [Ends -> Seq(Tokens)]
         /\ \A name \in Names : wrote'[cur] # Append(wrote[cur], Reply(name))
<1>1. ASSUME NEW name \in Names, wrote[cur] = Append(wrote[cur], Reply(name)) PROVE FALSE
  <2>1. wrote[cur] \in Seq(Tokens) /\ Reply(name) \in Tokens
    BY CurIsClient, ReplyFacts
  <2>2. Len(wrote[cur]) \in Nat /\ Len(Append(wrote[cur], Reply(name))) = Len(wrote[cur]) + 1
    BY <2>1
  <2> QED BY <1>1, <2>2
<1> QED BY <1>1 DEF MaySay, TalkInv, Counted

LEMMA MethodReplyTalk == ASSUME IInv, TalkInv, MethodReply PROVE TalkInv'
<1>1. /\ pc = "method_reply" /\ InAuth /\ TakesMore /\ MayDial
      /\ UNCHANGED <<request, arrived, dialled, sync, taken>>
  BY NothingTaken DEF MethodReply, At, InAuth, MayDial
<1>2. PICK ok \in BOOLEAN : /\ Send(client_fd, <<Reply("method")>>, ok)
                           /\ IF ok THEN Goto("request") ELSE AuthError
  BY DEF MethodReply
<1>3. "method" \in Names
  BY DEF Names
<1>4. /\ proc' = proc /\ wrote' \in [Ends -> Seq(Tokens)]
      /\ ~ok => wrote' = wrote
      /\ ok => wrote' = [wrote EXCEPT ![cur] = Append(@, Reply("method"))]
  BY <1>1, <1>2, <1>3, ReplySent
<1>5. MaySay
  BY <1>3, <1>4 DEF MaySay
<1>6. sync' \in BOOLEAN /\ dialled' \in [Conns -> {"nothing", "asked", "other"}]
  BY <1>1 DEF TalkInv, Counted
<1>7. CASE ~ok
  BY <1>1, <1>2, <1>4, <1>5, <1>6, <1>7, AuthErrorTalk
<1>8. CASE ok
  <2>1. /\ wrote'[cur] = Append(wrote[cur], Reply("method")) /\ wrote[cur] \in Seq(Tokens)
        /\ cur = Client(cur[1]) /\ cur' = cur
    BY <1>1, <1>2, <1>4, <1>8, CurIsClient DEF TalkInv, Counted, Goto
  <2>2. Says(cur[1], "method")'
    <3>1. /\ Len(wrote[cur]) + 1 \in DOMAIN wrote'[cur]
          /\ wrote'[cur][Len(wrote[cur]) + 1] = Reply("method")
      BY <2>1
    <3> QED BY <2>1, <3>1 DEF Says
  <2>3. \A name \in Names : wrote'[cur] = Append(wrote[cur], Reply(name)) => name = "method"
    <3> SUFFICES ASSUME NEW name \in Names,
                        Append(wrote[cur], Reply(name)) = Append(wrote[cur], Reply("method"))
                 PROVE  name = "method"
      BY <2>1
    <3>1. Append(wrote[cur], Reply(name))[Len(wrote[cur]) + 1] = Reply(name)
      BY <2>1, ReplyFacts
    <3>2. Append(wrote[cur], Reply("method"))[Len(wrote[cur]) + 1] = Reply("method")
      BY <2>1, ReplyFacts
    <3> QED BY <3>1, <3>2, ReplyFacts
  <2>4. sync' => taken'[cur] = ReadBefore("request", cur[1])
    BY <1>1 DEF TalkInv, InStepWithClient, ReadBefore
  <2>5. Goto("request")
    BY <1>2, <1>8
  <2> QED BY <1>1, <1>4, <1>5, <1>6, <2>2, <2>3, <2>4, <2>5, GotoTalk DEF Goto, Before, Dialling
<1> QED BY <1>7, <1>8

(* One field, read whole, brings socks5_auth to the place after it.        *)
LEMMA FieldRead ==
  ASSUME TalkInv, InAuth, NEW field \in FieldNames, pc = field, sync, cur[1] \in Conns,
         NEW label, label = After(field, request[cur[1]]), label \notin {"error", "refuse"}
  PROVE  /\ taken[cur] + FieldLen[field] = ReadBefore(label, cur[1])
         /\ label = "addr" => request[cur[1]] = "ipv4"
         /\ label \in {"len", "name", "gethostbyname"} => request[cur[1]] \in Named
         /\ label \in {"port", "socket"} \cup Dialling => request[cur[1]] \in {"ipv4"} \cup Named
<1>1. taken[cur] = ReadBefore(field, cur[1])
  BY DEF TalkInv, InStepWithClient, FieldNames
<1>2. /\ \A f \in FieldNames : FieldLen[f] \in Nat
      /\ {"header", "methods", "request", "addr", "len", "name", "port"} \subseteq FieldNames
  BY FieldLenAssumption DEF FieldNames
<1>3. CASE field \in {"header", "methods"}
  BY <1>1, <1>2, <1>3 DEF After, ReadBefore, Dialling
<1>4. CASE field = "request"
  BY <1>1, <1>2, <1>4 DEF After, AfterRequest, ReadBefore, Dialling
<1>5. CASE field = "addr"
  <2>1. request[cur[1]] = "ipv4"
    BY <1>5 DEF TalkInv, InStepWithClient
  <2> QED BY <1>1, <1>2, <1>5, <2>1 DEF After, AfterAddress, ReadBefore, Dialling, Handshake, Named
<1>6. CASE field \in {"len", "name"}
  <2>1. request[cur[1]] \in Named
    BY <1>6 DEF TalkInv, InStepWithClient
  <2> QED BY <1>1, <1>2, <1>6, <2>1 DEF After, ReadBefore, Dialling, Handshake
<1>7. CASE field = "port"
  <2>1. request[cur[1]] \in {"ipv4"} \cup Named
    BY <1>7 DEF TalkInv, InStepWithClient
  <2> QED BY <1>1, <1>2, <1>7, <2>1, HandshakeType DEF After, ReadBefore, Dialling
<1> QED BY <1>3, <1>4, <1>5, <1>6, <1>7 DEF FieldNames

LEMMA RecvFieldTalk ==
  ASSUME IInv, TalkInv, NEW field \in FieldNames, RecvField(field) PROVE TalkInv'
<1>1. /\ pc = field /\ InAuth /\ field \in Before /\ field # "method_reply"
      /\ UNCHANGED <<request, proc, arrived, wrote, dialled>>
  BY DEF RecvField, At, InAuth, FieldNames, Before
<1>2. /\ cur \in Ends /\ cur[1] \in Conns /\ taken[cur] \in Nat
  BY <1>1, CurIsClient
<1>3. MaySay /\ MayDial /\ wrote' \in [Ends -> Seq(Tokens)]
      /\ dialled' \in [Conns -> {"nothing", "asked", "other"}]
  BY <1>1 DEF MaySay, MayDial, TalkInv, Counted
<1>4. FieldLen[field] \in Nat /\ FieldLen[field] # 0
  BY FieldLenAssumption
<1>5. PICK n \in Asked(field), got \in -1 .. Total(cur) :
        IF got = -1 THEN AuthError /\ UNCHANGED <<taken, sync>>
        ELSE /\ taken' = [taken EXCEPT ![cur] = @ + got]
             /\ sync' \in InSync(field, n, got)
             /\ \E seen \in Seen(field, got) :
                  IF After(field, seen) = "error" THEN AuthError ELSE Goto(After(field, seen))
  BY DEF RecvField
<1>6. TakesMore /\ sync' \in BOOLEAN
  <2>1. CASE got = -1
    BY <1>5, <2>1, NothingTaken DEF TalkInv, Counted
  <2>2. CASE got # -1
    <3>1. got \in Nat /\ taken' = [taken EXCEPT ![cur] = @ + got]
      BY <1>2, <1>5, <2>2, TotalType
    <3>1a. sync' \in BOOLEAN
      BY <1>5, <2>2 DEF InSync, TalkInv, Counted
    <3>2. \A e \in Ends : taken[e] \in Nat
      BY DEF TalkInv, Counted
    <3>3. TakesMore
      BY <1>2, <3>1, <3>2 DEF TakesMore, TalkInv, Counted
    <3> QED BY <3>1a, <3>3
  <2> QED BY <2>1, <2>2
<1>7. CASE AuthError
  BY <1>1, <1>3, <1>6, <1>7, AuthErrorTalk
<1>8. CASE ~AuthError
  <2>1. /\ got # -1 /\ taken' = [taken EXCEPT ![cur] = @ + got]
        /\ sync' => sync /\ got = FieldLen[field]
    BY <1>5, <1>8 DEF InSync
  <2>2. PICK seen \in Seen(field, got) : After(field, seen) # "error" /\ Goto(After(field, seen))
    BY <1>5, <1>8
  <2> DEFINE label == After(field, seen)
  <2>3. label \in (Before \ {"header", "method_reply"}) \cup {"method_reply", "refuse"}
    BY <2>2 DEF After, AfterRequest, AfterAddress, FieldNames, Before
  <2>4. label \notin {"header", "methods", "method_reply"} => field \notin {"header", "methods"}
    BY <2>2 DEF After
  <2>5. ASSUME sync' PROVE sync /\ seen = request[cur[1]] /\ taken'[cur] = taken[cur] + FieldLen[field]
    <3>1. sync /\ got = FieldLen[field]
      BY <2>1, <2>5, Zenon
    <3> QED BY <1>2, <2>1, <2>2, <3>1 DEF Seen, TalkInv, Counted
  <2>6. ASSUME sync', label # "refuse"
        PROVE  /\ taken'[cur] = ReadBefore(label, cur[1])
               /\ label = "addr" => request[cur[1]] = "ipv4"
               /\ label \in {"len", "name", "gethostbyname"} => request[cur[1]] \in Named
               /\ label \in {"port", "socket"} \cup Dialling => request[cur[1]] \in {"ipv4"} \cup Named
    <3>1. /\ sync /\ taken'[cur] = taken[cur] + FieldLen[field] /\ label = After(field, request[cur[1]])
          /\ label \notin {"error", "refuse"}
      BY <2>2, <2>5, <2>6
    <3> HIDE DEF label
    <3> QED BY <1>1, <1>2, <3>1, FieldRead
  <2>7. field \notin {"header", "methods"} => Says(cur[1], "method")
    BY <1>1 DEF TalkInv, Undecided
  <2>8. \A name \in Names : wrote'[cur] = Append(wrote[cur], Reply(name)) => name = "method"
    BY <1>1, NothingSaid
  <2>9. Goto(label)
    BY <2>2
  <2> HIDE DEF label
  <2> QED BY <1>1, <1>3, <1>6, <2>3, <2>4, <2>6, <2>7, <2>8, <2>9, GotoTalk DEF Goto, Before, Dialling
<1> QED BY <1>7, <1>8

LEMMA RefuseTalk == ASSUME IInv, TalkInv, Refuse PROVE TalkInv'
<1>1. /\ pc = "refuse" /\ InAuth /\ AuthError /\ TakesMore
      /\ UNCHANGED <<request, arrived, dialled, sync, taken>>
  BY NothingTaken DEF Refuse, At, InAuth
<1>2. PICK ok \in BOOLEAN : Send(client_fd, <<Reply("refused")>>, ok)
  BY DEF Refuse
<1>3. "refused" \in Names
  BY DEF Names
<1>4. /\ proc' = proc /\ wrote' \in [Ends -> Seq(Tokens)]
      /\ ~ok => wrote' = wrote
      /\ ok => wrote' = [wrote EXCEPT ![cur] = Append(@, Reply("refused"))]
  BY <1>1, <1>2, <1>3, ReplySent
<1>5. MaySay
  <2>1. Says(cur[1], "method")
    BY <1>1 DEF TalkInv, Undecided
  <2>2. watcher'[cur] = "freed"
    BY <1>1, CurIsClient, EndFacts DEF AuthError, IInv, Typed
  <2> QED BY <1>3, <1>4, <2>1, <2>2 DEF MaySay
<1>6. sync' \in BOOLEAN
  BY <1>1 DEF TalkInv, Counted
<1> QED BY <1>1, <1>4, <1>5, <1>6, AuthErrorTalk

(* Calls that read and say nothing.                                        *)
LEMMA CallsTalk ==
  ASSUME IInv, TalkInv, gethostbyname \/ Socket \/ ConnectRemote \/ getpeername PROVE TalkInv'
<1>1. /\ pc \in {"gethostbyname", "socket", "connect", "getpeername"} /\ InAuth
      /\ UNCHANGED <<request, proc, arrived, taken, wrote, sync>>
  BY DEF gethostbyname, Socket, ConnectRemote, getpeername, At, InAuth, netv
<1>2. /\ TakesMore /\ MaySay /\ wrote' \in [Ends -> Seq(Tokens)] /\ sync' \in BOOLEAN
      /\ \A name \in Names : wrote'[cur] # Append(wrote[cur], Reply(name))
  BY <1>1, NothingTaken, NothingSaid DEF TalkInv, Counted
<1>3. /\ Says(cur[1], "method") /\ cur[1] \in Conns /\ cur = Client(cur[1])
      /\ taken[cur] \in Nat
  BY <1>1, CurIsClient DEF TalkInv, Undecided
<1>4. sync => /\ taken[cur] = ReadBefore(pc, cur[1])
              /\ request[cur[1]] \in {"ipv4"} \cup Named
              /\ pc # "gethostbyname" => taken[cur] = Handshake(cur[1])
              /\ pc = "gethostbyname" => taken[cur] = ReadBefore("port", cur[1])
  BY <1>1 DEF TalkInv, InStepWithClient, Dialling, ReadBefore
<1>5. /\ \A label \in {"socket"} \cup Dialling : ReadBefore(label, cur[1]) = Handshake(cur[1])
  BY DEF ReadBefore, Dialling
<1>6. CASE AuthError /\ UNCHANGED dialled
  BY <1>1, <1>2, <1>6, AuthErrorTalk
<1>7. CASE gethostbyname /\ Goto("port")
  <2>1. MayDial /\ dialled' \in [Conns -> {"nothing", "asked", "other"}]
    BY <1>7 DEF gethostbyname, MayDial, TalkInv, Counted
  <2>2. pc = "gethostbyname"
    BY <1>7 DEF gethostbyname, At
  <2> QED BY <1>1, <1>2, <1>3, <1>4, <1>7, <2>1, <2>2, GotoTalk DEF Goto, Before, Dialling
<1>8. CASE getpeername /\ Goto("grant")
  <2>1. MayDial /\ dialled' \in [Conns -> {"nothing", "asked", "other"}]
    BY <1>8 DEF getpeername, MayDial, TalkInv, Counted
  <2>2. pc = "getpeername" /\ dialled'[cur[1]] # "nothing"
    BY <1>8 DEF getpeername, At, TalkInv, Undecided
  <2> QED BY <1>1, <1>2, <1>3, <1>4, <1>5, <1>8, <2>1, <2>2, GotoTalk DEF Goto, Before, Dialling
<1>9. CASE ConnectRemote
  <2>1. /\ pc = "connect"
        /\ \/ /\ dialled' = [dialled EXCEPT ![cur[1]] = IF sync THEN "asked" ELSE "other"]
              /\ Goto("getpeername")
           \/ Goto("refuse") /\ UNCHANGED dialled
    BY <1>9 DEF ConnectRemote, At
  <2>2. /\ MayDial /\ dialled' \in [Conns -> {"nothing", "asked", "other"}]
    <3>1. CASE UNCHANGED dialled
      BY <3>1 DEF MayDial, TalkInv, Counted
    <3>2. CASE dialled' = [dialled EXCEPT ![cur[1]] = IF sync THEN "asked" ELSE "other"]
      <4>1. taken[Client(cur[1])] >= Handshake(cur[1]) \/ ~sync
        BY <1>3, <1>4, <2>1, HandshakeType
      <4>2. dialled'[cur[1]] \in {"asked", "other"} /\ (dialled'[cur[1]] = "asked" => sync)
        BY <1>3, <3>2 DEF TalkInv, Counted
      <4>3. \A c \in Conns : c # cur[1] => dialled'[c] = dialled[c]
        BY <3>2 DEF TalkInv, Counted
      <4>4. dialled' \in [Conns -> {"nothing", "asked", "other"}]
        BY <3>2 DEF TalkInv, Counted
      <4> QED BY <1>3, <1>4, <4>1, <4>2, <4>3, <4>4 DEF MayDial
    <3> QED BY <2>1, <3>1, <3>2
  <2>3. CASE Goto("refuse")
    BY <1>1, <1>2, <1>3, <2>2, <2>3, GotoTalk DEF Goto, Before, Dialling
  <2>4. CASE ~Goto("refuse")
    <3>1. Goto("getpeername") /\ dialled'[cur[1]] # "nothing"
      BY <1>3, <2>1, <2>4 DEF TalkInv, Counted
    <3> QED BY <1>1, <1>2, <1>3, <1>4, <1>5, <2>1, <2>2, <3>1, GotoTalk DEF Goto, Before, Dialling
  <2> QED BY <2>3, <2>4
<1>10. CASE Socket /\ ~AuthError
  <2>1. /\ pc = "socket" /\ pc' = "connect" /\ UNCHANGED <<watcher, cur, dialled>>
    BY <1>10 DEF Socket, At
  <2>2. MayDial /\ dialled' \in [Conns -> {"nothing", "asked", "other"}]
    BY <2>1 DEF MayDial, TalkInv, Counted
  <2> QED BY <1>1, <1>2, <1>3, <1>4, <1>5, <2>1, <2>2, GotoTalk DEF Before, Dialling
<1> QED BY <1>6, <1>7, <1>8, <1>9, <1>10
        DEF gethostbyname, AfterAddress, Socket, getpeername, Goto

LEMMA GrantTalk == ASSUME IInv, TalkInv, Grant PROVE TalkInv'
<1>1. /\ pc = "grant" /\ InAuth /\ TakesMore /\ MayDial
      /\ watcher' = [watcher EXCEPT ![cur] = "active", ![Peer(cur)] = "active"]
      /\ pc' = "loop"
      /\ UNCHANGED <<request, arrived, dialled, sync, taken>>
  BY NothingTaken DEF Grant, At, InAuth, MayDial
<1>2. PICK ok \in BOOLEAN : Send(client_fd, <<Reply("granted")>>, ok)
  BY DEF Grant
<1>3. "granted" \in Names
  BY DEF Names
<1>4. /\ proc' = proc /\ wrote' \in [Ends -> Seq(Tokens)]
      /\ ~ok => wrote' = wrote
      /\ ok => wrote' = [wrote EXCEPT ![cur] = Append(@, Reply("granted"))]
  BY <1>1, <1>2, <1>3, ReplySent
<1>5. MaySay
  <2>1. Says(cur[1], "method") /\ dialled[cur[1]] # "nothing"
    BY <1>1 DEF TalkInv, Undecided
  <2> QED BY <1>3, <1>4, <2>1 DEF MaySay
<1>6. /\ cur \in Ends /\ Peer(cur) \in Ends /\ watcher[cur] = "malloc" /\ watcher[Peer(cur)] = "malloc"
      /\ ~InAuth'
  BY <1>1, CurIsClient, EndFacts DEF InAuth
<1>7. \A e \in Ends : /\ watcher[e] = "freed" => watcher'[e] = "freed"
                      /\ watcher'[e] \in {"none", "malloc"} =>
                           watcher'[e] = watcher[e] /\ e # cur
  BY <1>1, <1>6 DEF IInv, Typed
<1>8. Counted'
  BY <1>1, <1>4, <1>6 DEF TalkInv, Counted
<1>9. InStepWithClient'
  BY <1>1, <1>6, <1>7, EndFacts DEF TalkInv, InStepWithClient
<1>10. Undecided'
  <2>1. \A e \in Ends : e # cur => wrote'[e] = wrote[e]
    BY <1>4 DEF TalkInv, Counted
  <2>2. \A e \in Ends : watcher'[e] \in {"none", "malloc"} =>
          \A i \in DOMAIN wrote'[e] : e[2] = "client" /\ wrote'[e][i] = Reply("method")
    BY <1>7, <2>1 DEF TalkInv, Undecided
  <2>3. \A c \in Conns : watcher'[Client(c)] = "none" => dialled'[c] = "nothing"
    BY <1>1, <1>7, EndFacts DEF TalkInv, Undecided
  <2> QED BY <1>1, <1>6, <2>2, <2>3 DEF Undecided
<1>11. Relayed'
  BY <1>1, <1>5, AuthRelayed
<1>12. AnswersTold'
  BY <1>1, <1>5, <1>7, AuthAnswers
<1> QED BY <1>8, <1>9, <1>10, <1>11, <1>12 DEF TalkInv

LEMMA AcceptCbTalk == ASSUME IInv, TalkInv, accept_cb PROVE TalkInv'
  BY AcceptTalk, RecvFieldTalk, MethodReplyTalk, RefuseTalk, CallsTalk, GrantTalk, GoneTalk
     DEF accept_cb, RecvOverruns, SigpipeInAuth, Sigpipe

-----------------------------------------------------------------------------
(* read_cb.                                                                *)

LEMMA CloseTalk ==
  ASSUME IInv, TalkInv, NEW e \in Active, pc = "loop", CloseBoth(e),
         UNCHANGED <<request, proc, arrived, taken, wrote, dialled, sync, pc, cur>>
  PROVE  TalkInv'
<1>1. /\ watcher' = [watcher EXCEPT ![e] = "freed", ![Peer(e)] = "freed"]
      /\ ~InAuth /\ ~InAuth'
  BY DEF CloseBoth, InAuth
<1>2. \A x \in Ends : /\ watcher'[x] \in {"none", "malloc"} => watcher'[x] = watcher[x]
                      /\ watcher[x] = "freed" => watcher'[x] = "freed"
  BY <1>1 DEF IInv, Typed
<1>3. \A c \in Conns : Handshake(c)' = Handshake(c)
  BY DEF Handshake
<1>4. Counted'
  BY <1>1 DEF TalkInv, Counted
<1>5. InStepWithClient'
  BY <1>1, <1>2, EndFacts DEF TalkInv, InStepWithClient
<1>6. Undecided'
  BY <1>1, <1>2, EndFacts DEF TalkInv, Undecided
<1>7. Relayed'
  <2>1. \A x \in Ends : InBuf(x)' = InBuf(x)
    BY DEF InBuf
  <2> QED BY <1>3, <2>1, EndFacts DEF TalkInv, Relayed, InOrder
<1>8. AnswersTold'
  BY <1>2, <1>3, EndFacts DEF TalkInv, AnswersTold
<1> QED BY <1>4, <1>5, <1>6, <1>7, <1>8 DEF TalkInv

LEMMA ReadRecvTalk == ASSUME IInv, TalkInv, NEW e \in Ends, ReadRecv(e) PROVE TalkInv'
<1>1. e \in Active /\ pc = "loop" /\ files[wfd[e]] = e
  BY EndFacts DEF ReadRecv, Dispatch, IInv, NoFreedWatcherRuns, DescriptorsOwned
<1>2. UNCHANGED <<request, proc, arrived, wrote, dialled, sync>>
  BY DEF ReadRecv, authv
<1>3. PICK got \in -1 .. BUFFER_SIZE :
        /\ taken' = [taken EXCEPT ![e] = IF got > 0 THEN @ + got ELSE @]
        /\ buf' = IF EndsPair(got, net[e]) THEN <<>> ELSE [i \in 1 .. got |-> <<e, taken[e] + i>>]
        /\ IF EndsPair(got, net[e]) THEN CloseBoth(e)
           ELSE pending' = pending \ {e} /\ UNCHANGED <<files, watcher>>
        /\ IF EndsPair(got, net[e]) \/ got = -1 THEN UNCHANGED <<pc, cur>>
           ELSE pc' = "relay" /\ cur' = e
  BY <1>1 DEF ReadRecv
<1>4. \A x \in Ends : taken[x] \in Nat /\ wrote[x] \in Seq(Tokens)
  BY DEF TalkInv, Counted
<1>5. CASE EndsPair(got, net[e])
  <2>1. taken' = taken
    BY <1>3, <1>5 DEF EndsPair, TalkInv, Counted
  <2> QED BY <1>1, <1>2, <1>3, <1>5, <2>1, CloseTalk
<1>6. CASE ~EndsPair(got, net[e]) /\ got = -1
  <2>1. UNCHANGED <<taken, watcher, pc, cur>>
    BY <1>3, <1>6 DEF TalkInv, Counted
  <2> QED BY <1>1, <1>2, <2>1, FrameTalk DEF TalkInv, Counted
<1>7. CASE ~EndsPair(got, net[e]) /\ got # -1
  <2>1. got \in Nat /\ got > 0
    BY <1>7, BufferAssumption DEF EndsPair
  <2>2. /\ taken' = [taken EXCEPT ![e] = @ + got] /\ pc' = "relay" /\ cur' = e
        /\ buf' = [i \in 1 .. got |-> <<e, taken[e] + i>>] /\ UNCHANGED watcher
    BY <1>3, <1>7, <2>1
  <2>3. /\ taken'[e] = taken[e] + got /\ \A x \in Ends : x # e => taken'[x] = taken[x]
        /\ taken' \in [Ends -> Nat] /\ \A x \in Ends : taken'[x] >= taken[x]
    BY <1>4, <2>1, <2>2 DEF TalkInv, Counted
  <2>4. /\ buf' \in Seq(Tokens) /\ Len(buf') = got /\ DOMAIN buf' = 1 .. got
        /\ \A i \in 1 .. got : buf'[i] = <<e, taken[e] + i>>
    <3>1. \A i \in 1 .. got : <<e, taken[e] + i>> \in Tokens
      <4>1. \A i \in 1 .. got : taken[e] + i \in Nat
        BY <1>4, <2>1
      <4> QED BY <4>1 DEF Tokens
    <3> QED BY <2>1, <2>2, <3>1
  <2>5. \A x \in Ends : InBuf(x) = 0 /\ taken'[x] - InBuf(x)' = taken[x] - InBuf(x)
    BY <1>1, <1>4, <2>1, <2>2, <2>3, <2>4 DEF InBuf
  <2>6. \A c \in Conns : Handshake(c)' = Handshake(c)
    BY <1>2 DEF Handshake
  <2>7. Counted'
    BY <1>2, <2>2, <2>3 DEF TalkInv, Counted, InAuth
  <2>8. InStepWithClient'
    <3>1. watcher[e] = "active" /\ ~InAuth'
      BY <1>1, <2>2 DEF Active, InAuth
    <3> QED BY <2>2, <2>3, <3>1, EndFacts DEF TalkInv, InStepWithClient
  <2>9. Undecided'
    BY <1>2, <2>2, EndFacts DEF TalkInv, Undecided, InAuth
  <2>10. Relayed'
    <3>1. Relayed
      BY DEF TalkInv
    <3>2. \A i \in DOMAIN buf' : buf'[i] = <<cur', (taken'[cur'] - Len(buf')) + i>>
      BY <1>4, <2>1, <2>2, <2>3, <2>4
    <3>3. Len(buf') <= taken'[cur'] /\ buf' \in Seq(Tokens)
      BY <1>4, <2>1, <2>2, <2>3, <2>4
    <3>4. \A x \in Ends : InOrder(wrote'[x], x, taken'[Peer(x)] - InBuf(Peer(x))')
      BY <1>2, <2>5, <3>1, EndFacts DEF Relayed
    <3>5. \A c \in Conns : dialled'[c] = "asked" =>
            /\ taken'[Client(c)] - InBuf(Client(c))' >= Handshake(c)'
            /\ \A i \in DOMAIN wrote'[Remote(c)] : wrote'[Remote(c)][i][2] > Handshake(c)'
      BY <1>2, <2>5, <2>6, <3>1, EndFacts DEF Relayed
    <3> QED BY <1>2, <3>1, <3>2, <3>3, <3>4, <3>5 DEF Relayed, InOrder
  <2>11. AnswersTold'
    <3>1. \A c \in Conns : taken'[Client(c)] >= taken[Client(c)] /\ Client(c) \in Ends
                           /\ Handshake(c) \in Nat
      BY <2>3, EndFacts, HandshakeType
    <3> QED BY <1>2, <1>4, <2>2, <2>3, <2>6, <3>1 DEF TalkInv, AnswersTold
  <2> QED BY <2>7, <2>8, <2>9, <2>10, <2>11 DEF TalkInv
<1> QED BY <1>5, <1>6, <1>7

LEMMA ReadSendTalk == ASSUME IInv, TalkInv, ReadSend PROVE TalkInv'
<1> DEFINE x == Peer(cur)
<1>1. /\ pc = "relay" /\ pc' = "loop" /\ UNCHANGED <<request, arrived, taken, watcher, sync, dialled>>
  BY DEF ReadSend, At, evv, authv
<1>2. /\ cur \in Ends /\ x \in Ends /\ Peer(x) = cur /\ cur # x /\ cur \in Active /\ x \in Active
      /\ files[wfd[x]] = x
  BY <1>1, EndFacts DEF IInv, NoFreedWatcherRuns, DescriptorsOwned, Active
<1>3. /\ \A e \in Ends : taken[e] \in Nat /\ wrote[e] \in Seq(Tokens)
      /\ \A c \in Conns : Handshake(c) \in Nat /\ Handshake(c)' = Handshake(c)
  BY <1>1, HandshakeType DEF TalkInv, Counted, Handshake
<1> DEFINE base == taken[cur] - Len(buf)
<1>4. /\ buf \in Seq(Tokens) /\ Len(buf) \in Nat /\ DOMAIN buf = 1 .. Len(buf)
      /\ Len(buf) <= taken[cur] /\ \A i \in DOMAIN buf : buf[i] = <<cur, base + i>>
  <2>1. buf \in Seq(Tokens)
    BY <1>1 DEF TalkInv, Relayed
  <2> QED BY <1>1, <2>1 DEF TalkInv, Relayed
<1>5. base \in Nat
  BY <1>2, <1>3, <1>4
<1>6. proc' = proc /\ \E n \in 0 .. Len(buf) : wrote' = [wrote EXCEPT ![x] = @ \o SubSeq(buf, 1, n)]
  <2>1. PICK ok \in BOOLEAN : Send(wfd[x], buf, ok)
    BY DEF ReadSend
  <2>2. CASE UNCHANGED <<wrote, proc>>
    <3>1. SubSeq(buf, 1, 0) = <<>>
      BY SubSeqEmpty
    <3>2. wrote[x] \o SubSeq(buf, 1, 0) = wrote[x]
      BY <1>2, <1>3, <3>1, ConcatEmptySeq
    <3>3. wrote' = [wrote EXCEPT ![x] = wrote[x] \o SubSeq(buf, 1, 0)]
      BY <2>2, <3>2 DEF TalkInv, Counted
    <3>4. 0 \in 0 .. Len(buf)
      BY <1>4
    <3> QED BY <2>2, <3>3, <3>4
  <2>3. CASE ~UNCHANGED <<wrote, proc>>
    BY <1>2, <2>1, <2>3 DEF Send
  <2> QED BY <2>2, <2>3
<1>7. PICK n \in 0 .. Len(buf) : wrote' = [wrote EXCEPT ![x] = @ \o SubSeq(buf, 1, n)]
  BY <1>6
<1> DEFINE t == SubSeq(buf, 1, n)
<1>8. /\ t \in Seq(Tokens) /\ Len(t) = n /\ n \in Nat /\ n <= Len(buf) /\ DOMAIN t = 1 .. n
      /\ \A i \in DOMAIN t : t[i] = <<cur, base + i>>
  <2>1. n \in Nat /\ n <= Len(buf)
    BY <1>4
  <2>2. /\ t \in Seq(Tokens) /\ Len(t) = n /\ \A i \in 1 .. n : t[i] = buf[i]
    BY <1>4, <2>1
  <2>3. DOMAIN t = 1 .. n
    BY <2>2
  <2> QED BY <1>4, <2>1, <2>2, <2>3
<1>9. /\ wrote'[x] = wrote[x] \o t /\ wrote'[x] \in Seq(Tokens) /\ wrote' \in [Ends -> Seq(Tokens)]
      /\ \A e \in Ends : e # x => wrote'[e] = wrote[e]
  <2>1. wrote[x] \o t \in Seq(Tokens)
    BY <1>2, <1>3, <1>8, ConcatProperties
  <2> QED BY <1>2, <1>7, <2>1 DEF TalkInv, Counted
<1> HIDE DEF t, base, x
<1>9a. /\ DOMAIN wrote'[x] = 1 .. Len(wrote[x]) + n /\ DOMAIN wrote[x] = 1 .. Len(wrote[x])
       /\ Len(wrote[x]) \in Nat
       /\ \A i \in 1 .. Len(wrote[x]) + n : wrote'[x][i] =
             IF i <= Len(wrote[x]) THEN wrote[x][i] ELSE t[i - Len(wrote[x])]
  <2>1. /\ Len(wrote'[x]) = Len(wrote[x]) + n
        /\ \A i \in 1 .. Len(wrote[x]) + n : wrote'[x][i] =
              IF i <= Len(wrote[x]) THEN wrote[x][i] ELSE t[i - Len(wrote[x])]
    <3>1. wrote[x] \in Seq(Tokens)
      BY <1>2, <1>3
    <3>2. t \in Seq(Tokens) /\ Len(t) = n /\ wrote'[x] = wrote[x] \o t
      BY <1>8, <1>9
    <3>3. /\ Len(wrote[x] \o t) = Len(wrote[x]) + Len(t)
          /\ \A i \in 1 .. Len(wrote[x]) + Len(t) : (wrote[x] \o t)[i] =
                IF i <= Len(wrote[x]) THEN wrote[x][i] ELSE t[i - Len(wrote[x])]
      BY <3>1, <3>2, ConcatProperties
    <3> QED BY <3>2, <3>3
  <2>2. DOMAIN wrote'[x] = 1 .. Len(wrote'[x])
    BY <1>9
  <2>3. DOMAIN wrote[x] = 1 .. Len(wrote[x]) /\ Len(wrote[x]) \in Nat
    BY <1>2, <1>3
  <2> QED BY <2>1, <2>2, <2>3
<1>10. \A i \in DOMAIN wrote'[x] :
         \/ i \in DOMAIN wrote[x] /\ wrote'[x][i] = wrote[x][i]
         \/ wrote'[x][i] \in Ends \X Nat /\ wrote'[x][i][2] > base
  <2>1. \A j \in 1 .. n : t[j] \in Ends \X Nat /\ t[j][2] > base
    <3> SUFFICES ASSUME NEW j \in 1 .. n PROVE t[j] \in Ends \X Nat /\ t[j][2] > base
      OBVIOUS
    <3>1. base + j \in Nat /\ base + j > base
      BY <1>5, <1>8
    <3>2. t[j] = <<cur, base + j>>
      BY <1>8
    <3> QED BY <1>2, <3>1, <3>2
  <2>2. \A i \in 1 .. Len(wrote[x]) + n : i > Len(wrote[x]) => i - Len(wrote[x]) \in 1 .. n
    BY <1>8, <1>9a
  <2>3. \A i \in 1 .. Len(wrote[x]) + n : i > Len(wrote[x]) =>
          wrote'[x][i] \in Ends \X Nat /\ wrote'[x][i][2] > base
    <3> SUFFICES ASSUME NEW i \in 1 .. Len(wrote[x]) + n, i > Len(wrote[x])
                 PROVE  wrote'[x][i] \in Ends \X Nat /\ wrote'[x][i][2] > base
      OBVIOUS
    <3>1. wrote'[x][i] = t[i - Len(wrote[x])]
      BY <1>9a
    <3> QED BY <2>1, <2>2, <3>1
  <2> QED BY <1>9a, <2>3
<1>11. \A i \in DOMAIN wrote[x] : i \in DOMAIN wrote'[x] /\ wrote'[x][i] = wrote[x][i]
  BY <1>8, <1>9a
<1>12. ~InAuth' /\ \A e \in Ends : e = Peer(x) \/ Peer(e) # cur \/ e = x
  BY <1>1, <1>2, EndFacts DEF InAuth
<1>13. Counted'
  BY <1>1, <1>6, <1>9, <1>12 DEF TalkInv, Counted
<1>14. InStepWithClient'
  BY <1>1, <1>12 DEF TalkInv, InStepWithClient
<1>15. Undecided'
  <2>1. \A e \in Ends : watcher'[e] \in {"none", "malloc"} => e # x
    BY <1>1, <1>2 DEF Active
  <2> QED BY <1>1, <1>9, <1>12, <2>1 DEF TalkInv, Undecided
<1>16. ASSUME NEW e \in Ends
       PROVE  InOrder(wrote'[e], e, taken'[Peer(e)] - InBuf(Peer(e))')
  <2>1. InBuf(Peer(e))' = 0 /\ taken'[Peer(e)] - 0 = taken[Peer(e)] /\ Peer(e) \in Ends
    BY <1>1, <1>3, EndFacts DEF InBuf
  <2>2. InOrder(wrote[e], e, taken[Peer(e)] - InBuf(Peer(e)))
    BY DEF TalkInv, Relayed
  <2>3. CASE e = x
    <3>1. InOrder(wrote[x], x, base)
      BY <1>1, <1>2, <2>2, <2>3 DEF InBuf, base
    <3>2. InOrder(wrote[x] \o t, x, base + n)
      <4>1. wrote[x] \in Seq(Tokens) /\ base \in Int /\ \A i \in DOMAIN t : t[i] = <<Peer(x), base + i>>
        BY <1>2, <1>3, <1>5, <1>8
      <4> QED BY <1>2, <1>8, <3>1, <4>1, InOrderBlock
    <3>3. base + n <= taken[cur] /\ base + n \in Int /\ taken[cur] \in Int
      BY <1>2, <1>3, <1>4, <1>5, <1>8 DEF base
    <3>4. InOrder(wrote'[x], x, taken[cur])
      BY <1>9, <3>2, <3>3, InOrderLater
    <3>5. taken'[Peer(e)] - InBuf(Peer(e))' = taken[cur]
      BY <1>1, <1>2, <2>1, <2>3
    <3> QED BY <2>3, <3>4, <3>5
  <2>4. CASE e # x
    <3>1. InBuf(Peer(e)) = 0
      BY <1>2, <2>4, EndFacts DEF InBuf
    <3>2. taken'[Peer(e)] - InBuf(Peer(e))' = taken[Peer(e)] - InBuf(Peer(e))
      BY <1>1, <2>1, <3>1
    <3> QED BY <1>9, <2>2, <2>4, <3>2
  <2> QED BY <2>3, <2>4
<1>17. Relayed'
  <2>1. ASSUME NEW c \in Conns, NEW i \in DOMAIN wrote'[Remote(c)]
        PROVE  ~IsReply(wrote'[Remote(c)][i])
    <3>1. \A j \in DOMAIN wrote[Remote(c)] : ~IsReply(wrote[Remote(c)][j])
      BY DEF TalkInv, Relayed
    <3> QED BY <1>9, <1>10, <2>1, <3>1, ReplyFacts, EndFacts
  <2>2. ASSUME NEW c \in Conns, dialled[c] = "asked"
        PROVE  /\ taken'[Client(c)] - InBuf(Client(c))' >= Handshake(c)
               /\ \A i \in DOMAIN wrote'[Remote(c)] : wrote'[Remote(c)][i][2] > Handshake(c)
    <3>1. /\ taken[Client(c)] - InBuf(Client(c)) >= Handshake(c)
          /\ \A i \in DOMAIN wrote[Remote(c)] : wrote[Remote(c)][i][2] > Handshake(c)
      BY <2>2 DEF TalkInv, Relayed
    <3>2. /\ InBuf(Client(c)) \in Nat /\ InBuf(Client(c))' = 0
          /\ Client(c) = cur => InBuf(Client(c)) = Len(buf)
      BY <1>1, <1>4 DEF InBuf
    <3>3. taken'[Client(c)] - InBuf(Client(c))' >= Handshake(c)
      BY <1>1, <1>3, <3>1, <3>2, EndFacts
    <3>4. ASSUME NEW i \in DOMAIN wrote'[Remote(c)]
          PROVE  wrote'[Remote(c)][i][2] > Handshake(c)
      <4>1. CASE Remote(c) # x
        BY <1>9, <3>1, <3>4, <4>1, EndFacts
      <4>2. CASE Remote(c) = x
        <5>1. cur = Client(c)
          BY <1>2, <4>2, EndFacts
        <5>2. base >= Handshake(c)
          BY <3>1, <3>2, <5>1 DEF base
        <5>3. CASE i \in DOMAIN wrote[x] /\ wrote'[x][i] = wrote[x][i]
          BY <3>1, <4>2, <5>3
        <5>4. CASE wrote'[x][i] \in Ends \X Nat /\ wrote'[x][i][2] > base
          <6>1. wrote'[x][i][2] \in Nat /\ Handshake(c) \in Nat
            BY <1>3, <5>4
          <6> QED BY <1>5, <4>2, <5>2, <5>4, <6>1
        <5> QED BY <1>10, <3>4, <4>2, <5>3, <5>4
      <4> QED BY <4>1, <4>2
    <3> QED BY <3>3, <3>4
  <2> QED BY <1>1, <1>3, <1>16, <2>1, <2>2 DEF Relayed, InOrder
<1>18. AnswersTold'
  <2>1. ASSUME NEW c \in Conns, NEW name
        PROVE  (\E i \in DOMAIN wrote'[Client(c)] : wrote'[Client(c)][i] = Reply(name)) <=>
               (\E i \in DOMAIN wrote[Client(c)] : wrote[Client(c)][i] = Reply(name))
    <3>1. CASE Client(c) # x
      BY <1>9, <3>1, EndFacts
    <3>2. CASE Client(c) = x
      BY <1>10, <1>11, <3>2, ReplyFacts
    <3> QED BY <3>1, <3>2
  <2> QED BY <1>1, <1>3, <2>1 DEF TalkInv, AnswersTold
<1> QED BY <1>13, <1>14, <1>15, <1>17, <1>18 DEF TalkInv

-----------------------------------------------------------------------------
LEMMA NextTalk == ASSUME IInv, TalkInv, [Next]_vars PROVE TalkInv'
<1>1. CASE Main \/ UNCHANGED vars \/ Network \/ Poll
  BY <1>1, QuietTalk DEF Network
<1>2. CASE signal_func
  BY <1>2, GoneTalk DEF signal_func
<1>3. CASE accept_cb
  BY <1>3, AcceptCbTalk
<1>4. CASE read_cb
  BY <1>4, ReadRecvTalk, ReadSendTalk, GoneTalk DEF read_cb, Sigpipe
<1> QED BY <1>1, <1>2, <1>3, <1>4 DEF Next, Loop

LEMMA TalkInvariance == Spec => [](IInv /\ TalkInv)
<1>1. IInv /\ TalkInv /\ [Next]_vars => (IInv /\ TalkInv)'
  BY NextIInv, NextTalk
<1> QED BY InitIInv, InitTalk, <1>1, PTL DEF Spec

-----------------------------------------------------------------------------
(* A plain handshake is there as a whole or not at all.  It goes out of    *)
(* step only when the client left without a byte: the fields are then      *)
(* empty, and the request read that way is refused.                        *)

OnHand ==
  \A e \in Ends : /\ taken[e] <= arrived[e]
                  /\ Pauses[e] = {} => arrived[e] \in {0, Total(e)}

LeftEarly == {"methods", "method_reply", "request", "refuse"}
PlainInStep ==
  InAuth /\ Plain(cur[1]) /\ ~sync =>
    arrived[cur] = 0 /\ net[cur] \in {"fin", "broken"} /\ pc \in LeftEarly

Delivered == OnHand /\ PlainAsAsked /\ PlainInStep

StaysEnded ==
  cur \in Ends /\ net[cur] \in {"fin", "broken"} => net'[cur] \in {"fin", "broken"}

LEMMA SameTotal ==
  ASSUME request' = request
  PROVE  /\ \A e \in Ends : Total(e)' = Total(e)
         /\ \A c \in Conns : Plain(c)' = Plain(c)
  BY DEF Total, Handshake, Plain, Ends

LEMMA InitDelivered == Init => Delivered
<1> SUFFICES ASSUME Init PROVE Delivered
  OBVIOUS
<1>1. OnHand
  BY DEF Init, NoEnd, OnHand
<1>2. PlainAsAsked /\ PlainInStep
  BY DEF Init, PlainAsAsked, PlainInStep, InAuth
<1> QED BY <1>1, <1>2 DEF Delivered

LEMMA GoneDelivered == ASSUME NEW how, Gone(how) PROVE Delivered'
<1>1. OnHand'
  BY DEF Gone, NoEnd, OnHand
<1>2. PlainAsAsked' /\ PlainInStep'
  BY DEF Gone, PlainAsAsked, PlainInStep, InAuth
<1> QED BY <1>1, <1>2 DEF Delivered

(* Outside a handshake nothing is out of step.                             *)
LEMMA LoopDelivered ==
  ASSUME Delivered, OnHand', UNCHANGED <<request, dialled>>, ~InAuth' PROVE Delivered'
  BY SameTotal DEF Delivered, PlainAsAsked, PlainInStep

LEMMA SameOnHand == ASSUME OnHand, UNCHANGED <<request, arrived, taken>> PROVE OnHand'
  BY SameTotal DEF OnHand

(* A step that reads nothing.                                              *)
LEMMA KeepsDelivered ==
  ASSUME IInv, Delivered, UNCHANGED <<request, arrived, taken, sync, cur>>, StaysEnded,
         PlainAsAsked',
         \/ pc' = pc
         \/ InAuth /\ (Plain(cur[1]) => sync \/ pc' \in LeftEarly)
  PROVE  Delivered'
<1>1. OnHand'
  BY SameOnHand DEF Delivered
<1>2. PlainInStep'
  <2>1. InAuth => cur \in Ends /\ cur[1] \in Conns
    BY EndFacts DEF IInv, Locals
  <2>2. InAuth' => InAuth
    BY DEF InAuth
  <2> QED BY <2>1, <2>2, SameTotal DEF Delivered, PlainInStep, StaysEnded, InAuth
<1> QED BY <1>1, <1>2 DEF Delivered

LEMMA SendKeepsEnded ==
  ASSUME IInv, NEW f, NEW toks, NEW ok, Send(f, toks, ok) PROVE StaysEnded
  BY DEF Send, StaysEnded, IInv, Typed

LEMMA QuietDelivered ==
  ASSUME IInv, TalkInv, Delivered, Main \/ UNCHANGED vars \/ Poll \/ Network
  PROVE  Delivered'
<1>1. /\ UNCHANGED <<request, taken, sync, cur, pc, dialled>> /\ PlainAsAsked'
  <2>1. UNCHANGED <<request, taken, sync, cur, pc, dialled>>
    BY DEF Main, check_para, signal_init, Starts, vars, netv, authv, Poll, Network, Connect,
           Arrive, EndBy
  <2> QED BY <2>1, SameTotal DEF Delivered, PlainAsAsked
<1>2. CASE UNCHANGED arrived /\ StaysEnded
  BY <1>1, <1>2, KeepsDelivered
<1>3. ASSUME NEW e \in Ends, Arrive(e) PROVE Delivered'
  <2>1. PICK n \in Pauses[e] \cup {Total(e)} :
          arrived[e] < n /\ n <= Total(e) /\ arrived' = [arrived EXCEPT ![e] = n]
    BY <1>3 DEF Arrive
  <2>2. n \in Nat /\ taken[e] \in Nat /\ arrived[e] \in Nat /\ arrived'[e] = n
        /\ \A x \in Ends : x # e => arrived'[x] = arrived[x]
    BY <2>1, PausesAssumption, TotalType DEF Ends, TalkInv, Counted
  <2>3. OnHand'
    <3>1. taken'[e] <= arrived'[e] /\ (Pauses[e] = {} => arrived'[e] = Total(e))
      BY <1>1, <2>1, <2>2 DEF Delivered, OnHand
    <3> QED BY <1>1, <2>2, <3>1, SameTotal DEF Delivered, OnHand
  <2>4. net[e] = "open" /\ net' = net
    BY <1>3 DEF Arrive
  <2>5. PlainInStep'
    <3>1. InAuth => cur \in Ends /\ cur[1] \in Conns
      BY EndFacts DEF IInv, Locals
    <3>2. InAuth' = InAuth
      BY <1>1 DEF InAuth
    <3> QED BY <1>1, <2>2, <2>4, <3>1, <3>2, SameTotal DEF Delivered, PlainInStep
  <2> QED BY <1>1, <2>3, <2>5 DEF Delivered
<1>4. ASSUME NEW c \in Conns, Connect(c) PROVE UNCHANGED arrived /\ StaysEnded
  BY <1>4 DEF Connect, StaysEnded, IInv, Typed, Locals
<1>5. ASSUME NEW e \in Ends, NEW how \in Faults[e], EndBy(e, how)
      PROVE  UNCHANGED arrived /\ StaysEnded
  BY <1>5 DEF EndBy, StaysEnded, IInv, Typed
<1>6. Main \/ UNCHANGED vars \/ Poll => UNCHANGED arrived /\ StaysEnded
  BY <1>1 DEF Main, check_para, signal_init, Starts, vars, netv, Poll, StaysEnded
<1> QED BY <1>2, <1>3, <1>4, <1>5, <1>6 DEF Network

LEMMA AcceptDelivered == ASSUME IInv, TalkInv, Delivered, Accept PROVE Delivered'
<1>1. UNCHANGED <<request, arrived, taken, dialled>> /\ pc = "loop"
  BY DEF Accept, Dispatch, netv, authv
<1>2. sync' \/ ~InAuth'
  BY <1>1 DEF Accept, InAuth
<1>3. OnHand' /\ PlainAsAsked'
  BY <1>1, SameOnHand, SameTotal DEF Delivered, PlainAsAsked
<1> QED BY <1>2, <1>3 DEF Delivered, PlainInStep

-----------------------------------------------------------------------------
(* The fields of a plain handshake.                                        *)

LEMMA AskedType == ASSUME NEW field \in FieldNames PROVE Asked(field) \subseteq Int
  BY FieldLenAssumption, LengthAssumption, BufferAssumption DEF Asked, FieldNames

(* No recv takes more than has come.                                       *)
LEMMA RecvWithin ==
  ASSUME TalkInv, Delivered, NEW e \in Ends, NEW n \in Int, NEW got \in Int, got # -1,
         RecvAsked(e, n, got)
  PROVE  got <= Avail(e)
<1>1. Avail(e) \in Nat
  BY DEF Avail, Delivered, OnHand, TalkInv, Counted
<1>2. Total(e) \in Int
  BY TotalType
<1> QED BY <1>1, <1>2 DEF RecvAsked, RecvReturns

(* What follows a place of socks5_auth is part of the handshake.           *)
LEMMA FieldFits ==
  ASSUME TalkInv, InAuth, sync, NEW field \in FieldNames, pc = field, cur[1] \in Conns,
         cur = Client(cur[1])
  PROVE  /\ taken[cur] = ReadBefore(field, cur[1])
         /\ taken[cur] + FieldLen[field] <= Total(cur)
         /\ field # "header" => taken[cur] > 0
<1>1. taken[cur] = ReadBefore(field, cur[1])
  BY DEF TalkInv, InStepWithClient, FieldNames
<1>2. /\ \A f \in FieldNames : FieldLen[f] \in Nat /\ FieldLen[f] > 0
      /\ {"header", "methods", "request", "addr", "len", "name", "port"} \subseteq FieldNames
  BY FieldLenAssumption DEF FieldNames
<1>3. Payload[cur] \in Nat /\ Total(cur) = Handshake(cur[1]) + Payload[cur]
  BY PayloadAssumption DEF Total, Client
<1>4. /\ field = "addr" => request[cur[1]] = "ipv4"
      /\ field \in {"len", "name"} => request[cur[1]] \in Named
  BY DEF TalkInv, InStepWithClient
<1>5. CASE field \in {"header", "methods", "request"}
  BY <1>1, <1>2, <1>3, <1>5 DEF ReadBefore, Handshake
<1>6. CASE field = "addr"
  BY <1>1, <1>2, <1>3, <1>4, <1>6 DEF ReadBefore, Handshake, Named
<1>7. CASE field \in {"len", "name"}
  BY <1>1, <1>2, <1>3, <1>4, <1>7 DEF ReadBefore, Handshake
<1>8. CASE field = "port"
  BY <1>1, <1>2, <1>3, <1>8 DEF ReadBefore, Handshake
<1> QED BY <1>1, <1>5, <1>6, <1>7, <1>8 DEF FieldNames

LEMMA RecvFieldDelivered ==
  ASSUME IInv, TalkInv, Delivered, NEW field \in FieldNames, RecvField(field)
  PROVE  Delivered'
<1>1. /\ pc = field /\ InAuth /\ UNCHANGED <<request, arrived, dialled>> /\ net' = Consumed(cur)
  BY DEF RecvField, At, InAuth, FieldNames
<1>2. /\ cur \in Ends /\ cur[1] \in Conns /\ cur = Client(cur[1])
      /\ taken[cur] \in Nat /\ arrived[cur] \in Nat /\ Total(cur) \in Nat
  BY <1>1, CurIsClient, TotalType DEF TalkInv, Counted
<1>3. PICK n \in Asked(field), got \in -1 .. Total(cur) :
        /\ RecvAsked(cur, n, got)
        /\ IF got = -1 THEN AuthError /\ UNCHANGED <<taken, sync>>
           ELSE /\ taken' = [taken EXCEPT ![cur] = @ + got]
                /\ sync' \in InSync(field, n, got)
                /\ \E seen \in Seen(field, got) :
                     IF After(field, seen) = "error" THEN AuthError ELSE Goto(After(field, seen))
  BY DEF RecvField
<1>4. n \in Int /\ got \in Int
  BY <1>2, <1>3, AskedType
<1>5. OnHand'
  <2>1. CASE got = -1
    BY <1>1, <1>3, <2>1, SameOnHand DEF Delivered
  <2>2. CASE got # -1
    <3>1. got <= Avail(cur)
      BY <1>2, <1>3, <1>4, <2>2, RecvWithin
    <3>2. taken'[cur] = taken[cur] + got /\ \A e \in Ends : e # cur => taken'[e] = taken[e]
      BY <1>2, <1>3, <2>2 DEF TalkInv, Counted
    <3>3. taken'[cur] <= arrived'[cur]
      BY <1>1, <1>2, <1>4, <3>1, <3>2 DEF Avail
    <3> QED BY <1>1, <3>2, <3>3, SameTotal DEF Delivered, OnHand
  <2> QED BY <2>1, <2>2
<1>6. CASE AuthError
  BY <1>1, <1>5, <1>6, LoopDelivered DEF AuthError, InAuth
<1>7. CASE ~AuthError
  <2>1. PICK seen \in Seen(field, got) : After(field, seen) # "error" /\ Goto(After(field, seen))
    BY <1>3, <1>7
  <2>2. /\ got # -1 /\ sync' \in InSync(field, n, got)
        /\ pc' = After(field, seen) /\ cur' = cur
    BY <1>3, <1>7, <2>1 DEF Goto
  <2>3. PlainAsAsked'
    BY <1>1, SameTotal DEF Delivered, PlainAsAsked
  <2>4. PlainInStep'
    <3> SUFFICES ASSUME Plain(cur[1]), ~sync'
                 PROVE  arrived[cur] = 0 /\ net'[cur] \in {"fin", "broken"} /\ pc' \in LeftEarly
      BY <1>1, <1>2, <2>2, SameTotal DEF PlainInStep
    <3>1. /\ Pauses[cur] = {} /\ request[cur[1]] # "longname"
          /\ taken[cur] <= arrived[cur] /\ arrived[cur] \in {0, Total(cur)}
      BY <1>2 DEF Plain, Delivered, OnHand
    <3>2. FieldLen[field] \in Nat /\ FieldLen[field] > 0
      BY FieldLenAssumption
    <3>3. ASSUME arrived[cur] = 0, net[cur] \in {"fin", "broken"}
          PROVE  got = 0 /\ net'[cur] \in {"fin", "broken"}
      <4>1. Avail(cur) = 0
        BY <1>2, <3>1, <3>3 DEF Avail
      <4>2. got = 0
        BY <1>3, <2>2, <3>3, <4>1 DEF RecvAsked, RecvReturns
      <4> QED BY <1>1, <3>3, <4>2 DEF Consumed
    <3>4. CASE sync
      <4>1. n = FieldLen[field] /\ got # FieldLen[field]
        <5>1. n = FieldLen[field]
          BY <1>3, <3>1, <3>4 DEF Asked
        <5>2. ~(n < 0)
          BY <3>2, <5>1
        <5>3. sync' = (sync /\ got = FieldLen[field])
          BY <2>2, <5>2 DEF InSync
        <5> QED BY <3>4, <5>1, <5>3
      <4>2. /\ RecvReturns(cur, n, got)
            /\ taken[cur] + FieldLen[field] <= Total(cur)
            /\ field # "header" => taken[cur] > 0
        BY <1>1, <1>2, <1>3, <3>2, <3>4, <4>1, FieldFits DEF RecvAsked
      <4>3. arrived[cur] # Total(cur)
        <5>1. arrived[cur] = Total(cur) => Avail(cur) >= FieldLen[field]
          BY <1>2, <3>2, <4>2 DEF Avail
        <5>2. Avail(cur) \in Int
          BY <1>2 DEF Avail
        <5> QED BY <3>2, <4>1, <4>2, <5>1, <5>2 DEF RecvReturns
      <4>4. arrived[cur] = 0 /\ field = "header" /\ Avail(cur) = 0
        BY <1>2, <3>1, <4>2, <4>3 DEF Avail
      <4>5. net[cur] \in {"fin", "broken"}
        BY <2>2, <4>2, <4>4 DEF RecvReturns
      <4> QED BY <2>1, <2>2, <3>3, <4>4, <4>5 DEF After, LeftEarly
    <3>5. CASE ~sync
      <4>1. arrived[cur] = 0 /\ net[cur] \in {"fin", "broken"} /\ field \in LeftEarly
        BY <1>1, <3>5 DEF Delivered, PlainInStep
      <4>2. got = 0 /\ net'[cur] \in {"fin", "broken"}
        BY <3>3, <4>1
      <4>3. CASE field = "methods"
        BY <2>2, <4>1, <4>2, <4>3 DEF After, LeftEarly
      <4>4. CASE field = "request"
        <5>1. seen = "bind"
          BY <2>1, <3>2, <3>5, <4>2, <4>4 DEF Seen
        <5> QED BY <2>2, <4>1, <4>2, <4>4, <5>1 DEF After, AfterRequest, LeftEarly, Named
      <4> QED BY <4>1, <4>3, <4>4 DEF LeftEarly, FieldNames
    <3> QED BY <3>4, <3>5
  <2> QED BY <1>5, <2>3, <2>4 DEF Delivered
<1> QED BY <1>6, <1>7

(* The rest of accept_cb and read_cb.                                      *)
LEMMA AuthDelivered ==
  ASSUME IInv, TalkInv, Delivered,
         MethodReply \/ Refuse \/ gethostbyname \/ Socket \/ ConnectRemote \/ getpeername \/ Grant
  PROVE  Delivered'
<1>1. InAuth /\ UNCHANGED <<request, arrived, taken, sync>> /\ cur[1] \in Conns /\ OnHand'
  <2>1. InAuth /\ UNCHANGED <<request, arrived, taken, sync>>
    BY DEF MethodReply, Refuse, gethostbyname, Socket, ConnectRemote, getpeername, Grant, At,
           InAuth, netv
  <2> QED BY <2>1, CurIsClient, SameOnHand DEF Delivered
<1>2. CASE UNCHANGED dialled /\ ~InAuth'
  BY <1>1, <1>2, LoopDelivered
<1>3. UNCHANGED dialled => PlainAsAsked'
  BY <1>1, SameTotal DEF Delivered, PlainAsAsked
<1>4. pc \notin LeftEarly => (Plain(cur[1]) => sync)
  BY <1>1 DEF Delivered, PlainInStep
<1>5. CASE MethodReply /\ ~AuthError
  <2>1. cur' = cur /\ pc' = "request" /\ UNCHANGED dialled /\ StaysEnded
    BY <1>5, SendKeepsEnded DEF MethodReply, Goto
  <2> QED BY <1>1, <1>3, <2>1, KeepsDelivered DEF LeftEarly
<1>6. CASE (gethostbyname \/ Socket \/ getpeername) /\ ~AuthError
  <2>1. UNCHANGED <<cur, net, dialled>> /\ pc \notin LeftEarly
    BY <1>6 DEF gethostbyname, Socket, getpeername, Goto, netv, At, LeftEarly
  <2> QED BY <1>1, <1>3, <1>4, <2>1, KeepsDelivered DEF StaysEnded
<1>7. CASE ConnectRemote
  <2>1. cur' = cur /\ pc \notin LeftEarly
    BY <1>7 DEF ConnectRemote, Goto, At, LeftEarly
  <2>2. StaysEnded
    <3>1. Peer(cur) # cur /\ cur \in Ends
      BY <1>1, CurIsClient, EndFacts
    <3> QED BY <1>7, <3>1 DEF ConnectRemote, StaysEnded, IInv, Typed
  <2>3. PlainAsAsked'
    <3>1. CASE UNCHANGED dialled
      BY <1>3, <3>1
    <3>2. CASE dialled' = [dialled EXCEPT ![cur[1]] = IF sync THEN "asked" ELSE "other"]
      <4>1. Plain(cur[1]) => dialled'[cur[1]] # "other"
        BY <1>1, <1>4, <2>1, <3>2 DEF TalkInv, Counted
      <4>2. \A c \in Conns : c # cur[1] => dialled'[c] = dialled[c]
        BY <3>2 DEF TalkInv, Counted
      <4> QED BY <1>1, <4>1, <4>2, SameTotal DEF Delivered, PlainAsAsked
    <3> QED BY <1>7, <3>1, <3>2 DEF ConnectRemote
  <2> QED BY <1>1, <1>4, <2>1, <2>2, <2>3, KeepsDelivered
<1>8. (AuthError \/ Grant) /\ ~ConnectRemote => UNCHANGED dialled /\ ~InAuth'
  BY DEF AuthError, MethodReply, Refuse, gethostbyname, Socket, getpeername, Grant, InAuth
<1> QED BY <1>2, <1>5, <1>6, <1>7, <1>8 DEF Refuse

LEMMA AcceptCbDelivered == ASSUME IInv, TalkInv, Delivered, accept_cb PROVE Delivered'
  BY AcceptDelivered, RecvFieldDelivered, AuthDelivered, GoneDelivered
     DEF accept_cb, RecvOverruns, SigpipeInAuth, Sigpipe

LEMMA ReadCbDelivered == ASSUME IInv, TalkInv, Delivered, read_cb PROVE Delivered'
<1>1. ASSUME NEW e \in Ends, ReadRecv(e) PROVE Delivered'
  <2>1. e \in Active /\ pc = "loop" /\ files[wfd[e]] = e
    BY <1>1, EndFacts DEF ReadRecv, Dispatch, IInv, NoFreedWatcherRuns, DescriptorsOwned
  <2>2. PICK got \in -1 .. BUFFER_SIZE :
          /\ RecvReturns(e, BUFFER_SIZE, got)
          /\ taken' = [taken EXCEPT ![e] = IF got > 0 THEN @ + got ELSE @]
    BY <1>1, <2>1 DEF ReadRecv
  <2>3. UNCHANGED <<request, arrived, dialled>> /\ ~InAuth'
    BY <1>1, <2>1 DEF ReadRecv, authv, InAuth
  <2>4. got \in Int /\ BUFFER_SIZE \in Nat
    BY <2>2, BufferAssumption
  <2>5. taken[e] \in Nat /\ arrived[e] \in Nat /\ taken[e] <= arrived[e]
    BY DEF TalkInv, Counted, Delivered, OnHand
  <2>6. taken'[e] <= arrived[e] /\ \A x \in Ends : x # e => taken'[x] = taken[x]
    <3>1. got > 0 => got <= Avail(e)
      BY <2>2, <2>4, <2>5 DEF RecvReturns, Avail
    <3> QED BY <2>2, <2>4, <2>5, <3>1 DEF Avail, TalkInv, Counted
  <2>7. OnHand'
    BY <2>3, <2>6, SameTotal DEF Delivered, OnHand
  <2> QED BY <2>3, <2>7, LoopDelivered
<1>2. CASE ReadSend
  <2>1. UNCHANGED <<request, arrived, taken, dialled>> /\ ~InAuth'
    BY <1>2 DEF ReadSend, authv, InAuth
  <2> QED BY <2>1, SameOnHand, LoopDelivered DEF Delivered
<1> QED BY <1>1, <1>2, GoneDelivered DEF read_cb, Sigpipe

LEMMA NextDelivered == ASSUME IInv, TalkInv, Delivered, [Next]_vars PROVE Delivered'
  BY QuietDelivered, AcceptCbDelivered, ReadCbDelivered, GoneDelivered
     DEF Next, Loop, signal_func

LEMMA DeliveredInvariance == Spec => [](IInv /\ TalkInv /\ Delivered)
<1>1. IInv /\ TalkInv /\ Delivered /\ [Next]_vars => (IInv /\ TalkInv /\ Delivered)'
  BY NextIInv, NextTalk, NextDelivered
<1> QED BY InitIInv, InitTalk, InitDelivered, <1>1, PTL DEF Spec

-----------------------------------------------------------------------------
(* Every variable keeps its type: no descriptor local is ever left at the  *)
(* -1 of a call that failed.                                               *)
THEOREM TypeCorrect == Spec => []TypeOK
<1>1. IInv /\ TalkInv => TypeOK
  BY EndFacts DEF IInv, Typed, Locals, NoFreedWatcherRuns, Active, TalkInv, Counted, InAuth, TypeOK
<1> QED BY <1>1, TalkInvariance, PTL

(* What an end is sent is the proxy's replies and then what its own peer   *)
(* sent, in order and none twice, though not always all of it.  A client   *)
(* connected to what it asked for has nothing of its handshake relayed.    *)
THEOREM RelaysInOrder == Spec => []RelayInOrder
<1>1. ASSUME IInv, TalkInv PROVE RelayInOrder
  <2>1. ASSUME NEW e \in Ends
        PROVE  InOrder(wrote[e], e, taken[Peer(e)] - InBuf(Peer(e)))
    BY <1>1 DEF TalkInv, Relayed
  <2>2. ASSUME NEW e \in Ends, e[2] = "remote", dialled[e[1]] = "asked"
        PROVE  \A i \in DOMAIN wrote[e] : wrote[e][i][2] > Handshake(e[1])
    <3>1. e = Remote(e[1]) /\ e[1] \in Conns
      BY <2>2 DEF Ends, Remote
    <3> QED BY <1>1, <2>2, <3>1 DEF TalkInv, Relayed
  <2> QED BY <2>1, <2>2 DEF RelayInOrder, InOrder
<1> QED BY <1>1, TalkInvariance, PTL

(* Success is told only of a remote that is connected, refusal only of a   *)
(* connection that is dropped; a client gets what it asked for only after  *)
(* all of its CONNECT request was read; and one that sends its handshake   *)
(* in one piece, with a name of less than 128 bytes, is never connected to *)
(* anything else, even if it leaves in the middle.                         *)
THEOREM AnswersAreTrue == Spec => []AnswersTrue
<1>1. IInv /\ TalkInv /\ Delivered => AnswersTrue
  BY DEF TalkInv, Delivered, AnswersTrue
<1> QED BY <1>1, DeliveredInvariance, PTL
===========================================================================
