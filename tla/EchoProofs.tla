---------------------------- MODULE EchoProofs ----------------------------
(***************************************************************************)
(* The threads of Handle-multiple-socket-connections-with-threads.c, for   *)
(* any numbers of clients, messages, descriptors and threads and any size  *)
(* of the buffer.  Descriptor k is the k-th connection; what main has      *)
(* stored for a thread is the thread's own.                                *)
(***************************************************************************)
EXTENDS Programs, SequenceTheorems, TLAPS

(* A step of one program is a step of it, or a stutter of all others.      *)
LEMMA EachProgram ==
  ASSUME [AnyNext]_allv
  PROVE  /\ [N!Next]_netv /\ [Next]_vars /\ [W!Next]_watchv /\ [D!Next]_dotv
         /\ [A!Next]_addv /\ [E!Next]_echov /\ [G!Next]_aptv
  BY DEF AnyNext, allv

Sockets == {-1} \cup (1 .. MaxFds)
EchoTyped ==
  /\ pending \in Seq(Clients) /\ accepted \in Seq(Clients) /\ Len(accepted) <= MaxFds
  /\ acceptor \in {"accept", "hello", "create", "killed"}
  /\ created \in 0 .. MaxThreads /\ new_socket \in Sockets
  /\ new_sock \in [E!Handlers -> Sockets] /\ sock \in [E!Handlers -> Sockets]
  /\ handler \in [E!Handlers -> {"none", "start", "greet", "invite", "recv", "echo", "ended"}]

(* A thread that is not there has no socket, one that has not started has  *)
(* not looked at what main stored for it.                                  *)
Handed ==
  \A t \in E!Handlers :
    /\ t > created <=> handler[t] = "none"
    /\ t > created => new_sock[t] = -1
    /\ sock[t] = IF handler[t] \in {"none", "start"} THEN -1 ELSE new_sock[t]
    /\ new_sock[t] <= Len(accepted)

(* Between accept and pthread_create the last connection is main's.        *)
NotYetServed(fd) == acceptor \in {"hello", "create"} /\ fd = new_socket
Served ==
  /\ \A t, u \in E!Handlers : t # u /\ new_sock[t] = new_sock[u] => new_sock[t] = -1
  /\ acceptor \in {"hello", "create"} /\ new_socket # -1 =>
       new_socket = Len(accepted) /\ \A t \in E!Handlers : new_sock[t] # new_socket
  /\ acceptor # "killed" => \A fd \in 1 .. Len(accepted) :
       \/ NotYetServed(fd) \/ created = MaxThreads
       \/ \E t \in E!Handlers : t <= created /\ new_sock[t] = fd

EchoInv == EchoTyped /\ Handed /\ Served

LEMMA EchoInit == ASSUME E!Init PROVE EchoInv
  BY EchoAssumption
  DEF E!Init, EchoInv, EchoTyped, Handed, Served, NotYetServed, Sockets, E!Handlers

LEMMA EchoAccept == ASSUME EchoInv, E!Accept PROVE EchoInv'
<1>0. MaxFds \in Nat /\ MaxThreads \in Nat BY EchoAssumption
<1> USE <1>0
<1> USE DEF EchoInv, EchoTyped, Handed, Served, NotYetServed, Sockets, E!Handlers, E!Accept, E!handlers
<1>1. CASE Len(accepted) = MaxFds /\ new_socket' = -1 /\ UNCHANGED <<pending, accepted>>
  <2>1. EchoTyped' BY <1>1
  <2>2. Handed' BY <1>1
  <2>3. Served' BY <1>1
  <2> QED BY <2>1, <2>2, <2>3
<1>2. CASE /\ Len(accepted) < MaxFds /\ pending # <<>>
           /\ accepted' = Append(accepted, Head(pending)) /\ pending' = Tail(pending)
           /\ new_socket' = Len(accepted')
  <2>1. Head(pending) \in Clients /\ Tail(pending) \in Seq(Clients)
    BY <1>2, HeadTailProperties
  <2>2. /\ accepted' \in Seq(Clients) /\ Len(accepted') = Len(accepted) + 1
        /\ Len(accepted) \in Nat
    <3>1. accepted' = Append(accepted, Head(pending)) BY <1>2
    <3>2. accepted \in Seq(Clients) OBVIOUS
    <3> QED BY ONLY <2>1, <3>1, <3>2, AppendProperties, LenProperties
  <2>3. EchoTyped' BY <1>2, <2>1, <2>2
  <2>4. Handed' BY <1>2, <2>2
  <2>5. acceptor' = "hello" /\ new_socket' = Len(accepted) + 1 BY <1>2, <2>2
  <2>6. \A fd \in 1 .. Len(accepted') :
          \/ NotYetServed(fd)' \/ created = MaxThreads
          \/ \E t \in E!Handlers : t <= created /\ new_sock[t] = fd
    <3> TAKE fd \in 1 .. Len(accepted')
    <3>1. CASE fd = Len(accepted) + 1 BY <3>1, <2>5
    <3>2. CASE fd \in 1 .. Len(accepted)
      <4>1. ~NotYetServed(fd) BY <1>2
      <4> QED BY <3>2, <4>1
    <3> QED BY <2>2, <3>1, <3>2
  <2>7. Served' BY <1>2, <2>2, <2>5, <2>6
  <2> QED BY <2>3, <2>4, <2>7
<1> QED BY <1>1, <1>2

LEMMA EchoHello == ASSUME EchoInv, E!Hello PROVE EchoInv'
  BY DEF EchoInv, EchoTyped, Handed, Served, NotYetServed, Sockets, E!Handlers, E!Hello, E!handlers

LEMMA EchoCreate == ASSUME EchoInv, E!CreateThread PROVE EchoInv'
<1>0. MaxFds \in Nat /\ MaxThreads \in Nat BY EchoAssumption
<1> USE <1>0
<1> USE DEF EchoInv, EchoTyped, Handed, Served, NotYetServed, Sockets, E!Handlers, E!CreateThread, E!peers
<1>1. CASE created = MaxThreads BY <1>1
<1>2. CASE created # MaxThreads
  <2>1. EchoTyped' BY <1>2
  <2>2. Handed' BY <1>2
  <2>3. Served' BY <1>2
  <2> QED BY <2>1, <2>2, <2>3
<1> QED BY <1>1, <1>2

(* What a handler does after its start changes neither its socket nor main,*)
(* except that a SIGPIPE ends it.                                          *)
LEMMA EchoHandler ==
  ASSUME EchoInv, NEW t \in E!Handlers, E!connection_handler2(t) PROVE EchoInv'
<1> USE DEF E!Goes, E!peers, E!mains
<1>1. CASE E!Start(t)
  BY <1>1 DEF E!Start, EchoInv, EchoTyped, Handed, Served, NotYetServed, Sockets, E!Handlers
<1>2. CASE ~E!Start(t)
  <2>1. /\ UNCHANGED <<pending, accepted, new_socket, created, new_sock, sock>>
        /\ acceptor' \in {acceptor, "killed"}
        /\ handler[t] \notin {"none", "start"}
        /\ \E to \in {"invite", "recv", "echo", "ended"} :
             handler' = [handler EXCEPT ![t] = to]
    BY <1>2 DEF E!connection_handler2, E!Greet, E!Invite, E!Recv, E!RecvEnds, E!Echo, E!Says
  <2> QED
    BY <2>1 DEF EchoInv, EchoTyped, Handed, Served, NotYetServed, Sockets, E!Handlers
<1> QED BY <1>1, <1>2

LEMMA EchoStep == ASSUME EchoInv, [E!Next]_echov PROVE EchoInv'
<1>1. CASE \E c \in Clients : E!Connect(c)
  <2>1. PICK c \in Clients : E!Connect(c) BY <1>1
  <2>2. pending' \in Seq(Clients) BY <2>1, AppendProperties DEF E!Connect, EchoInv, EchoTyped
  <2> QED BY <2>1, <2>2 DEF E!Connect, E!mains, E!handlers, EchoInv, EchoTyped, Handed, Served,
                            NotYetServed
<1>2. CASE \E c \in Clients : E!Send(c) \/ E!Leave(c)
  <2>1. UNCHANGED <<pending, accepted, E!mains, E!handlers>> BY <1>2 DEF E!Send, E!Leave
  <2> QED BY <2>1 DEF E!mains, E!handlers, EchoInv, EchoTyped, Handed, Served, NotYetServed
<1>3. CASE UNCHANGED echov
  BY <1>3 DEF echov, EchoInv, EchoTyped, Handed, Served, NotYetServed
<1> QED
  BY <1>1, <1>2, <1>3, EchoAccept, EchoHello, EchoCreate, EchoHandler DEF E!Next, E!Main

LEMMA EchoAlways == AnyFairSpec => []EchoInv
<1>1. AnyInit => EchoInv BY EchoInit DEF AnyInit
<1>2. EchoInv /\ [AnyNext]_allv => EchoInv' BY EchoStep, EachProgram
<1> QED BY <1>1, <1>2, PTL DEF AnyFairSpec

(* However fast main accepts, no two handlers serve one connection, and    *)
(* each connection has its handler as long as threads can be created, for  *)
(* any number of descriptors and threads.                                  *)
THEOREM HandlersAreApart == AnyFairSpec => []HandlersApart
<1>1. EchoInv => HandlersApart
  BY DEF EchoInv, EchoTyped, Handed, Served, NotYetServed, Sockets, HandlersApart, E!HandlersApart, E!Handlers
<1> QED BY <1>1, EchoAlways, PTL

-----------------------------------------------------------------------------
(* What a client has been sent back, and what has been received of it.     *)
Echoed(c) == E!LastByte(c, Len(outbox[c]))
Got(c) == E!EndOf(c, sent[c]) - Len(inbox[c])
Pairs == Seq(Int) \X Seq(Int)
Said == {"hello", "greetings", "type"} \cup Pairs
TalkTyped ==
  /\ peer \in [Clients -> {"idle", "open", "fin", "reset"}]
  /\ inbox \in [Clients -> Seq(Int)] /\ outbox \in [Clients -> Seq(Said)]
  /\ sent \in [Clients -> Nat] /\ \A c \in Clients : sent[c] <= Len(Sends[c])
  /\ client_message \in [E!Handlers -> {<<>>} \cup [1 .. Size -> Int]]
  /\ read_size \in [E!Handlers -> 0 .. Size]
EchoesTyped == \A c \in Clients : \A k \in DOMAIN outbox[c] : k > 3 => outbox[c][k] \in Pairs
Once ==
  /\ \A c \in Clients : peer[c] = "idle" =>
       (\A k \in 1 .. Len(pending) : pending[k] # c) /\ (\A k \in 1 .. Len(accepted) : accepted[k] # c)
  /\ \A j, k \in 1 .. Len(pending) : pending[j] = pending[k] => j = k
  /\ \A j, k \in 1 .. Len(accepted) : accepted[j] = accepted[k] => j = k
  /\ \A j \in 1 .. Len(pending), k \in 1 .. Len(accepted) : pending[j] # accepted[k]
Streams ==
  \A c \in Clients :
    /\ Echoed(c) \in Nat
    /\ IF peer[c] = "reset" THEN inbox[c] = <<>>
       ELSE \A k \in 1 .. Len(inbox[c]) : inbox[c][k] = Got(c) + k
Fresh(c) == peer[c] # "reset" => Got(c) = 0
Unserved ==
  \A c \in Clients : (\A k \in 1 .. Len(accepted) : accepted[k] # c)
     => Len(outbox[c]) = 0 /\ peer[c] # "reset" /\ Got(c) = 0
Greeted ==
  acceptor \in {"hello", "create"} /\ new_socket # -1 =>
    /\ Len(outbox[accepted[new_socket]]) = IF acceptor = "hello" THEN 0 ELSE 1
    /\ Fresh(accepted[new_socket])
HoldsBytes(t, c) ==
  handler[t] = "echo" =>
    /\ client_message[t] \in [1 .. Size -> Int] /\ read_size[t] >= 1
    /\ \A k \in 1 .. read_size[t] : client_message[t][k] = Echoed(c) + k
    /\ Echoed(c) + read_size[t] <= E!EndOf(c, sent[c])
Talks(t, c) ==
  /\ handler[t] \in {"start", "greet"} => Len(outbox[c]) = 1
  /\ handler[t] = "invite" => Len(outbox[c]) = 2
  /\ handler[t] \in {"recv", "echo", "ended"} => Len(outbox[c]) >= 3
  /\ peer[c] # "reset" => Got(c) = Echoed(c) + IF handler[t] = "echo" THEN read_size[t] ELSE 0
  /\ HoldsBytes(t, c)
Rest ==
  /\ Streams /\ Unserved /\ Greeted
  /\ \A t \in E!Handlers : new_sock[t] # -1 => Talks(t, accepted[new_sock[t]])
TalkKnown ==
  \A t \in E!Handlers :
    handler[t] = "echo" => client_message[t] \in [1 .. Size -> Int] /\ read_size[t] >= 1
TalkInv ==
  /\ TalkTyped /\ TalkKnown /\ Once /\ EchoesMessages /\ EchoesTyped
  /\ acceptor # "killed" => Rest

LEMMA EndsRise ==
  ASSUME NEW c \in Clients, NEW m \in Nat, m <= Len(Sends[c])
  PROVE  /\ E!EndOf(c, m) \in Nat
         /\ m < Len(Sends[c]) => E!EndOf(c, m + 1) \in Nat /\ E!EndOf(c, m) <= E!EndOf(c, m + 1)
<1>1. Sends[c] \in Seq(Nat) /\ Len(Sends[c]) \in Nat BY EchoAssumption, LenProperties
<1>2. \A k \in 1 .. Len(Sends[c]) : Sends[c][k] \in Nat BY <1>1, ElementOfSeq
<1>3. \A k \in 1 .. Len(Sends[c]) : E!EndOf(c, k - 1) <= Sends[c][k]
  BY <1>1, EchoAssumption, LenProperties
<1>4. E!EndOf(c, m) \in Nat BY <1>1, <1>2 DEF E!EndOf
<1>5. ASSUME m < Len(Sends[c])
      PROVE  E!EndOf(c, m + 1) \in Nat /\ E!EndOf(c, m) <= E!EndOf(c, m + 1)
  <2>1. m + 1 \in 1 .. Len(Sends[c]) /\ m + 1 # 0 /\ (m + 1) - 1 = m BY <1>1, <1>5
  <2>2. E!EndOf(c, m + 1) = Sends[c][m + 1] BY <2>1 DEF E!EndOf
  <2> QED BY <1>2, <1>3, <2>1, <2>2
<1> QED BY <1>4, <1>5

(* A message is the bytes that come next.                                  *)
LEMMA MessageIs ==
  ASSUME NEW c \in Clients, NEW m \in Nat, m < Len(Sends[c]), NEW from, from = E!EndOf(c, m)
  PROVE  /\ E!Message(c, m + 1) \in Seq(Int)
         /\ Len(E!Message(c, m + 1)) = E!EndOf(c, m + 1) - from
         /\ \A k \in 1 .. E!EndOf(c, m + 1) - from : E!Message(c, m + 1)[k] = from + k
<1>1. from \in Nat /\ E!EndOf(c, m + 1) \in Nat /\ from <= E!EndOf(c, m + 1) BY EndsRise
<1>2. PICK l \in Nat : l = E!EndOf(c, m + 1) - from BY <1>1
<1>3. (m + 1) - 1 = m OBVIOUS
<1>4. E!Message(c, m + 1) = [n \in 1 .. l |-> from + n] BY <1>2, <1>3 DEF E!Message
<1>5. \A k \in 1 .. l : from + k \in Int BY <1>1
<1>6. [n \in 1 .. l |-> from + n] \in Seq(Int) /\ Len([n \in 1 .. l |-> from + n]) = l BY <1>5, <1>2
<1> QED BY <1>2, <1>4, <1>6

(* A write reaches its peer, which may answer with a reset; a process that *)
(* dies of it writes nothing.                                              *)
LEMMA Written ==
  ASSUME TalkTyped, EchoTyped, NEW fd \in Sockets, fd <= Len(accepted), NEW what \in Said, E!Write(fd, what)
  PROVE  \/ UNCHANGED <<peer, inbox, outbox>> /\ (fd = -1 \/ E!Dies(fd))
         \/ fd # -1 /\ ~E!Dies(fd) /\ \E c \in Clients :
              /\ c = accepted[fd] /\ peer[c] # "reset"
              /\ outbox' = [outbox EXCEPT ![c] = Append(@, what)]
              /\ \/ peer' = [peer EXCEPT ![c] = "reset"] /\ inbox' = [inbox EXCEPT ![c] = <<>>]
                 \/ UNCHANGED <<peer, inbox>>
<1>1. CASE fd = -1 \/ E!Dies(fd)
  BY <1>1 DEF E!Write, Sockets
<1>2. CASE fd # -1 /\ ~E!Dies(fd)
  <2>0. fd \in 1 .. Len(accepted) /\ ~(fd < 0)
    <3>1. Len(accepted) \in Nat BY LenProperties DEF EchoTyped
    <3> QED BY <1>2, <3>1, EchoAssumption DEF Sockets
  <2>1. PICK c \in Clients : c = accepted[fd] BY <2>0, ElementOfSeq DEF EchoTyped
  <2>2. peer[c] # "reset" BY <1>2, <2>0, <2>1 DEF E!Dies
  <2>3. outbox' = [outbox EXCEPT ![c] = Append(@, what)] BY <1>2, <2>0, <2>1 DEF E!Write
  <2>4. PICK then \in IF peer[c] = "fin" THEN {"fin", "reset"} ELSE {peer[c]} :
           /\ peer' = [peer EXCEPT ![c] = then]
           /\ inbox' = IF then = "reset" THEN [inbox EXCEPT ![c] = <<>>] ELSE inbox
    BY <1>2, <2>0, <2>1 DEF E!Write
  <2>5. CASE then = "reset" BY <1>2, <2>1, <2>2, <2>3, <2>4, <2>5
  <2>6. CASE then # "reset"
    <3>1. then = peer[c] BY <2>4, <2>6
    <3>2. UNCHANGED <<peer, inbox>> BY <2>4, <2>6, <3>1 DEF TalkTyped
    <3> QED BY <1>2, <2>1, <2>2, <2>3, <3>2
  <2> QED BY <2>5, <2>6
<1> QED BY <1>1, <1>2
LEMMA WriteTyped ==
  ASSUME TalkTyped, EchoTyped, NEW fd \in Sockets, fd <= Len(accepted), NEW what \in Said, E!Write(fd, what)
  PROVE  /\ peer' \in [Clients -> {"idle", "open", "fin", "reset"}]
         /\ inbox' \in [Clients -> Seq(Int)] /\ outbox' \in [Clients -> Seq(Said)]
<1>1. CASE UNCHANGED <<peer, inbox, outbox>> BY <1>1 DEF TalkTyped
<1>2. ASSUME NEW c \in Clients, outbox' = [outbox EXCEPT ![c] = Append(@, what)],
             \/ peer' = [peer EXCEPT ![c] = "reset"] /\ inbox' = [inbox EXCEPT ![c] = <<>>]
             \/ UNCHANGED <<peer, inbox>>
      PROVE  /\ peer' \in [Clients -> {"idle", "open", "fin", "reset"}]
             /\ inbox' \in [Clients -> Seq(Int)] /\ outbox' \in [Clients -> Seq(Said)]
  <2>1. Append(outbox[c], what) \in Seq(Said) BY AppendProperties DEF TalkTyped
  <2>2. outbox' \in [Clients -> Seq(Said)] BY <1>2, <2>1 DEF TalkTyped
  <2>3. <<>> \in Seq(Int) OBVIOUS
  <2>4. inbox' \in [Clients -> Seq(Int)] BY <1>2, <2>3 DEF TalkTyped
  <2>5. peer' \in [Clients -> {"idle", "open", "fin", "reset"}] BY <1>2 DEF TalkTyped
  <2> QED BY <2>2, <2>4, <2>5
<1> QED BY <1>1, <1>2, Written

(* What a handler may write back.                                          *)
LEMMA EchoedTyped ==
  ASSUME NEW t, client_message[t] \in [1 .. Size -> Int], read_size[t] \in 1 .. Size, NEW text \in E!Text(t)
  PROVE  /\ client_message[t] \in Seq(Int) /\ Len(client_message[t]) = Size
         /\ SubSeq(client_message[t], 1, read_size[t]) \in Seq(Int)
         /\ Len(SubSeq(client_message[t], 1, read_size[t])) = read_size[t]
         /\ \A k \in 1 .. read_size[t] :
              SubSeq(client_message[t], 1, read_size[t])[k] = client_message[t][k]
         /\ text \in Seq(Int)
<1> PICK m \in [1 .. Size -> Int] : m = client_message[t] OBVIOUS
<1> PICK n \in 1 .. Size : n = read_size[t] OBVIOUS
<1>1. Size \in Nat BY EchoAssumption
<1>2. m \in Seq(Int) /\ Len(m) = Size BY <1>1
<1>3. ASSUME NEW k \in 0 .. Size
      PROVE  /\ SubSeq(m, 1, k) \in Seq(Int) /\ Len(SubSeq(m, 1, k)) = k
             /\ \A j \in 1 .. k : SubSeq(m, 1, k)[j] = m[j]
  BY <1>1, <1>2, <1>3, SubSeqProperties
<1>4. Append(m, E!Beyond) \in Seq(Int) BY <1>2, AppendProperties DEF E!Beyond
<1>5. text \in {m, Append(m, E!Beyond)} \/ \E k \in 1 .. Size : text = SubSeq(m, 1, k - 1)
  BY DEF E!Text
<1>6. text \in Seq(Int)
  <2>1. ASSUME NEW k \in 1 .. Size PROVE SubSeq(m, 1, k - 1) \in Seq(Int)
    <3>1. k - 1 \in 0 .. Size BY <1>1
    <3> QED BY <1>3, <3>1
  <2> QED BY <1>2, <1>4, <1>5, <2>1
<1>7. n \in 0 .. Size BY <1>1
<1> QED BY <1>2, <1>3, <1>6, <1>7

LEMMA EchoedWrite ==
  ASSUME TalkTyped, NEW t \in E!Handlers, client_message[t] \in [1 .. Size -> Int], read_size[t] >= 1,
         NEW text \in E!Text(t)
  PROVE  <<SubSeq(client_message[t], 1, read_size[t]), text>> \in Pairs \cap Said
<1>1. read_size[t] \in 1 .. Size BY EchoAssumption DEF TalkTyped
<1> QED BY <1>1, EchoedTyped DEF Said, Pairs

(* Which descriptor a handler writes to.                                   *)
LEMMA HandlerSocket ==
  ASSUME EchoInv, NEW t \in E!Handlers, handler[t] \notin {"none", "start"}
  PROVE  sock[t] = new_sock[t] /\ sock[t] \in Sockets /\ sock[t] <= Len(accepted) /\ t <= created
  BY EchoAssumption DEF EchoInv, EchoTyped, Handed, E!Handlers

LEMMA RecvTyped ==
  ASSUME EchoInv, TalkTyped, NEW t \in E!Handlers, E!Recv(t)
  PROVE  \E c \in Clients : \E n \in 1 .. Size : \E m \in [1 .. Size -> Int] :
           /\ sock[t] \in 1 .. Len(accepted) /\ c = accepted[sock[t]] /\ n <= Len(inbox[c])
           /\ \A k \in 1 .. n : m[k] = inbox[c][k]
           /\ client_message' = [client_message EXCEPT ![t] = m]
           /\ read_size' = [read_size EXCEPT ![t] = n]
           /\ inbox' = [inbox EXCEPT ![c] = SubSeq(@, n + 1, Len(@))]
           /\ SubSeq(inbox[c], n + 1, Len(inbox[c])) \in Seq(Int)
           /\ Len(SubSeq(inbox[c], n + 1, Len(inbox[c]))) = Len(inbox[c]) - n
           /\ \A k \in 1 .. Len(inbox[c]) - n :
                SubSeq(inbox[c], n + 1, Len(inbox[c]))[k] = inbox[c][n + k]
           /\ n = Size \/ n = Len(inbox[c])
<1>1. handler[t] = "recv" /\ sock[t] > 0 BY DEF E!Recv
<1>2. sock[t] \in 1 .. Len(accepted)
  BY <1>1, HandlerSocket, LenProperties, EchoAssumption DEF EchoInv, EchoTyped, Sockets
<1>3. PICK c \in Clients : c = accepted[sock[t]] BY <1>2, ElementOfSeq DEF EchoInv, EchoTyped
<1>4. inbox[c] \in Seq(Int) /\ Len(inbox[c]) \in Nat BY LenProperties DEF TalkTyped
<1>5. PICK n : n = IF Len(inbox[c]) < Size THEN Len(inbox[c]) ELSE Size OBVIOUS
<1>6. n \in 1 .. Size /\ n <= Len(inbox[c]) /\ (n = Size \/ n = Len(inbox[c]))
  BY <1>3, <1>4, <1>5, EchoAssumption DEF E!Recv
<1>7. PICK old \in IF client_message[t] = <<>> THEN [1 .. Size -> {E!NUL, E!Junk}] ELSE {client_message[t]} :
        client_message' = [client_message EXCEPT
          ![t] = [k \in 1 .. Size |-> IF k <= n THEN inbox[c][k] ELSE old[k]]]
  BY <1>3, <1>5 DEF E!Recv
<1>8. old \in [1 .. Size -> Int] BY <1>7 DEF TalkTyped, E!NUL, E!Junk
<1>9. \A k \in 1 .. n : inbox[c][k] \in Int BY <1>4, <1>6, ElementOfSeq
<1>10. PICK m : m = [k \in 1 .. Size |-> IF k <= n THEN inbox[c][k] ELSE old[k]] OBVIOUS
<1>11. m \in [1 .. Size -> Int] /\ \A k \in 1 .. n : m[k] = inbox[c][k]
  BY <1>6, <1>8, <1>9, <1>10, EchoAssumption
<1>12. inbox' = [inbox EXCEPT ![c] = SubSeq(@, n + 1, Len(@))] /\ read_size' = [read_size EXCEPT ![t] = n]
  BY <1>3, <1>5 DEF E!Recv
<1>13. /\ SubSeq(inbox[c], n + 1, Len(inbox[c])) \in Seq(Int)
       /\ Len(SubSeq(inbox[c], n + 1, Len(inbox[c]))) = Len(inbox[c]) - n
       /\ \A k \in 1 .. Len(inbox[c]) - n :
            SubSeq(inbox[c], n + 1, Len(inbox[c]))[k] = inbox[c][n + k]
  <2> PICK s \in Seq(Int) : s = inbox[c] BY <1>4
  <2> PICK l \in Nat : l = Len(s) BY <1>4
  <2>1. \A k \in (n + 1) .. l : s[k] \in Int BY <1>6, ElementOfSeq
  <2> QED BY <1>6, <2>1
<1> QED BY <1>2, <1>3, <1>6, <1>7, <1>10, <1>11, <1>12, <1>13
LEMMA TalkTypedStep ==
  ASSUME EchoInv, TalkTyped, TalkKnown, [E!Next]_echov PROVE TalkTyped'
<1> USE DEF E!peers, E!mains, E!handlers, E!Goes
<1>0. EchoTyped BY DEF EchoInv
<1>1. ASSUME NEW c \in Clients, E!Connect(c) PROVE TalkTyped'
  <2>1. peer' \in [Clients -> {"idle", "open", "fin", "reset"}] BY <1>1 DEF E!Connect, TalkTyped
  <2> QED BY <1>1, <2>1 DEF E!Connect, TalkTyped
<1>2. ASSUME NEW c \in Clients, E!Send(c) PROVE TalkTyped'
  <2>1. sent[c] \in Nat /\ sent[c] < Len(Sends[c]) /\ Len(Sends[c]) \in Nat
    BY <1>2, EchoAssumption, LenProperties DEF E!Send, TalkTyped
  <2>2. E!Message(c, sent[c] + 1) \in Seq(Int) BY <2>1, MessageIs
  <2>3. inbox[c] \o E!Message(c, sent[c] + 1) \in Seq(Int) BY <2>2, ConcatProperties DEF TalkTyped
  <2>4. inbox' \in [Clients -> Seq(Int)] BY <1>2, <2>3 DEF E!Send, TalkTyped
  <2>5. sent' \in [Clients -> Nat] BY <1>2, <2>1 DEF E!Send, TalkTyped
  <2>6. ASSUME NEW d \in Clients PROVE sent'[d] <= Len(Sends[d])
    BY <1>2, <2>1 DEF E!Send, TalkTyped
  <2> QED BY <1>2, <2>4, <2>5, <2>6 DEF E!Send, TalkTyped
<1>3. ASSUME NEW c \in Clients, E!Leave(c) PROVE TalkTyped'
  <2>1. peer' \in [Clients -> {"idle", "open", "fin", "reset"}] BY <1>3 DEF E!Leave, TalkTyped
  <2> QED BY <1>3, <2>1 DEF E!Leave, TalkTyped
<1>4. CASE E!Accept \/ E!CreateThread
  BY <1>4 DEF E!Accept, E!CreateThread, TalkTyped
<1>5. CASE E!Hello
  <2>1. new_socket \in Sockets /\ new_socket <= Len(accepted)
    BY <1>5, EchoAssumption, LenProperties DEF E!Hello, EchoInv, EchoTyped, Served, Sockets
  <2>2. "hello" \in Said BY DEF Said
  <2> QED BY <1>0, <1>5, <2>1, <2>2, WriteTyped DEF E!Hello, TalkTyped
<1>6. ASSUME NEW t \in E!Handlers, E!Start(t) \/ E!RecvEnds(t) PROVE TalkTyped'
  BY <1>6 DEF E!Start, E!RecvEnds, TalkTyped
<1>7. ASSUME NEW t \in E!Handlers, NEW from, NEW to, NEW what \in Said, from \notin {"none", "start"},
             E!Says(t, from, to, what)
      PROVE  TalkTyped'
  <2>1. sock[t] \in Sockets /\ sock[t] <= Len(accepted) BY <1>7, HandlerSocket DEF E!Says
  <2> QED BY <1>0, <1>7, <2>1, WriteTyped DEF E!Says, TalkTyped
<1>8. ASSUME NEW t \in E!Handlers, E!Greet(t) \/ E!Invite(t) PROVE TalkTyped'
  <2>1. "greetings" \in Said /\ "type" \in Said BY DEF Said
  <2> QED BY <1>7, <1>8, <2>1 DEF E!Greet, E!Invite
<1>9. ASSUME NEW t \in E!Handlers, E!Echo(t) PROVE TalkTyped'
  <2>1. client_message[t] \in [1 .. Size -> Int] /\ read_size[t] >= 1 BY <1>9 DEF E!Echo, TalkKnown
  <2>2. PICK text \in E!Text(t) :
          E!Says(t, "echo", "recv", <<SubSeq(client_message[t], 1, read_size[t]), text>>)
    BY <1>9 DEF E!Echo
  <2> QED BY <1>7, <2>1, <2>2, EchoedWrite
<1>10. ASSUME NEW t \in E!Handlers, E!Recv(t) PROVE TalkTyped'
  <2>1. PICK c \in Clients : \E n \in 1 .. Size : \E m \in [1 .. Size -> Int] :
           /\ client_message' = [client_message EXCEPT ![t] = m]
           /\ read_size' = [read_size EXCEPT ![t] = n]
           /\ inbox' = [inbox EXCEPT ![c] = SubSeq(@, n + 1, Len(@))]
           /\ SubSeq(inbox[c], n + 1, Len(inbox[c])) \in Seq(Int)
    BY <1>10, RecvTyped
  <2>2. PICK n \in 1 .. Size : \E m \in [1 .. Size -> Int] :
           /\ client_message' = [client_message EXCEPT ![t] = m]
           /\ read_size' = [read_size EXCEPT ![t] = n]
           /\ inbox' = [inbox EXCEPT ![c] = SubSeq(@, n + 1, Len(@))]
           /\ SubSeq(inbox[c], n + 1, Len(inbox[c])) \in Seq(Int)
    BY <2>1
  <2>3. inbox' \in [Clients -> Seq(Int)] BY <2>2 DEF TalkTyped
  <2>4. n \in 0 .. Size BY EchoAssumption
  <2>5. read_size' \in [E!Handlers -> 0 .. Size] BY <2>2, <2>4 DEF TalkTyped
  <2>6. client_message' \in [E!Handlers -> {<<>>} \cup [1 .. Size -> Int]] BY <2>2 DEF TalkTyped
  <2> QED BY <1>10, <2>3, <2>5, <2>6 DEF E!Recv, TalkTyped
<1>11. CASE UNCHANGED echov BY <1>11 DEF echov, TalkTyped
<1> QED
  BY <1>1, <1>2, <1>3, <1>4, <1>5, <1>6, <1>8, <1>9, <1>10, <1>11
  DEF E!Next, E!Main, E!connection_handler2

(* Every connection is there once.                                         *)
LEMMA OnceStep ==
  ASSUME EchoInv, TalkTyped, Once, TalkKnown, [E!Next]_echov PROVE Once'
<1> USE DEF E!peers, E!mains, E!handlers
<1>0. EchoTyped /\ TalkTyped' BY TalkTypedStep DEF EchoInv
<1>1. ASSUME NEW c \in Clients, E!Connect(c) PROVE Once'
  <2>1. PICK l \in Nat : l = Len(pending) BY <1>0, LenProperties DEF EchoTyped
  <2>2. Len(pending') = l + 1 /\ pending'[l + 1] = c /\ \A k \in 1 .. l : pending'[k] = pending[k]
    BY <1>0, <1>1, <2>1, AppendProperties DEF E!Connect, EchoTyped
  <2>3. accepted' = accepted /\ peer'[c] = "open" /\ peer[c] = "idle"
        /\ \A d \in Clients \ {c} : peer'[d] = peer[d]
    BY <1>1 DEF E!Connect, TalkTyped
  <2>4. \A k \in 1 .. l + 1 : k \in 1 .. l \/ k = l + 1 BY <2>1
  <2> QED BY <2>1, <2>2, <2>3, <2>4 DEF Once
<1>2. CASE E!Accept
  <2>1. CASE UNCHANGED <<pending, accepted, peer>> BY <2>1 DEF Once
  <2>2. CASE pending # <<>> /\ accepted' = Append(accepted, Head(pending)) /\ pending' = Tail(pending)
             /\ peer' = peer
    <3>1. PICK l \in Nat : l = Len(accepted) BY <1>0, LenProperties DEF EchoTyped
    <3>2. PICK n \in Nat : n = Len(pending) /\ n # 0 BY <1>0, <2>2, LenProperties, EmptySeq DEF EchoTyped
    <3>3. Head(pending) = pending[1] /\ Head(pending) \in Clients
      BY <1>0, <2>2, HeadTailProperties DEF EchoTyped
    <3>4. /\ Len(accepted') = l + 1 /\ accepted'[l + 1] = pending[1]
          /\ \A k \in 1 .. l : accepted'[k] = accepted[k]
      BY <1>0, <2>2, <3>1, <3>3, AppendProperties DEF EchoTyped
    <3>5. Len(pending') = n - 1 /\ \A k \in 1 .. n - 1 : pending'[k] = pending[k + 1]
      BY <1>0, <2>2, <3>2, HeadTailProperties DEF EchoTyped
    <3>6. \A k \in 1 .. l + 1 : k \in 1 .. l \/ k = l + 1 BY <3>1
    <3>7. \A k \in 1 .. n - 1 : k + 1 \in 1 .. n /\ k + 1 # 1 BY <3>2
    <3>8. 1 \in 1 .. n BY <3>2
    <3>9. ASSUME NEW c \in Clients, peer[c] = "idle"
          PROVE  (\A k \in 1 .. n - 1 : pending'[k] # c) /\ (\A k \in 1 .. l + 1 : accepted'[k] # c)
      BY <3>1, <3>2, <3>4, <3>5, <3>6, <3>7, <3>8, <3>9 DEF Once
    <3>10. ASSUME NEW j \in 1 .. n - 1, NEW k \in 1 .. n - 1, pending'[j] = pending'[k] PROVE j = k
      <4>1. j + 1 = k + 1 BY <3>2, <3>5, <3>7, <3>10 DEF Once
      <4> QED BY <4>1
    <3>11. ASSUME NEW j \in 1 .. l + 1, NEW k \in 1 .. l + 1, accepted'[j] = accepted'[k] PROVE j = k
      BY <3>1, <3>2, <3>4, <3>6, <3>8, <3>11 DEF Once
    <3>12. ASSUME NEW j \in 1 .. n - 1, NEW k \in 1 .. l + 1 PROVE pending'[j] # accepted'[k]
      BY <3>1, <3>2, <3>4, <3>5, <3>6, <3>7, <3>8, <3>12 DEF Once
    <3> QED BY <2>2, <3>4, <3>5, <3>9, <3>10, <3>11, <3>12 DEF Once
  <2> QED BY <1>2, <2>1, <2>2 DEF E!Accept
<1>3. ASSUME UNCHANGED <<pending, accepted>>, \A c \in Clients : peer'[c] = "idle" => peer[c] = "idle"
      PROVE  Once'
  BY <1>3 DEF Once
<1>4. ASSUME NEW c \in Clients, E!Send(c) \/ E!Leave(c) PROVE Once'
  BY <1>3, <1>4 DEF E!Send, E!Leave, TalkTyped
<1>5. ASSUME NEW fd \in Sockets, fd <= Len(accepted), NEW what \in Said, E!Write(fd, what),
             UNCHANGED <<pending, accepted>>
      PROVE  Once'
  <2>1. \A c \in Clients : peer'[c] = "idle" => peer[c] = "idle"
    <3>1. CASE peer' = peer BY <3>1
    <3>2. CASE \E c \in Clients : peer' = [peer EXCEPT ![c] = "reset"] BY <3>2 DEF TalkTyped
    <3> QED BY <1>0, <1>5, <3>1, <3>2, Written
  <2> QED BY <1>3, <1>5, <2>1
<1>6. CASE E!Hello
  <2>1. new_socket \in Sockets /\ new_socket <= Len(accepted)
    BY <1>6, EchoAssumption, LenProperties DEF E!Hello, EchoInv, EchoTyped, Served, Sockets
  <2>2. "hello" \in Said BY DEF Said
  <2> QED BY <1>5, <1>6, <2>1, <2>2 DEF E!Hello
<1>7. CASE E!CreateThread BY <1>3, <1>7 DEF E!CreateThread
<1>8. ASSUME NEW t \in E!Handlers, NEW from, NEW to, NEW what \in Said, from \notin {"none", "start"},
             E!Says(t, from, to, what)
      PROVE  Once'
  <2>1. sock[t] \in Sockets /\ sock[t] <= Len(accepted) BY <1>8, HandlerSocket DEF E!Says, E!Goes
  <2> QED BY <1>5, <1>8, <2>1 DEF E!Says
<1>9. ASSUME NEW t \in E!Handlers, E!connection_handler2(t) PROVE Once'
  <2>1. CASE E!Start(t) \/ E!RecvEnds(t) \/ E!Recv(t)
    BY <1>3, <2>1 DEF E!Start, E!RecvEnds, E!Recv
  <2>2. CASE E!Greet(t) \/ E!Invite(t)
    <3>1. "greetings" \in Said /\ "type" \in Said BY DEF Said
    <3> QED BY <1>8, <2>2, <3>1 DEF E!Greet, E!Invite
  <2>3. CASE E!Echo(t)
    <3>1. client_message[t] \in [1 .. Size -> Int] /\ read_size[t] >= 1 BY <2>3 DEF E!Echo, TalkKnown
    <3>2. PICK text \in E!Text(t) :
            E!Says(t, "echo", "recv", <<SubSeq(client_message[t], 1, read_size[t]), text>>)
      BY <2>3 DEF E!Echo
    <3> QED BY <1>8, <3>1, <3>2, EchoedWrite
  <2> QED BY <1>9, <2>1, <2>2, <2>3 DEF E!connection_handler2
<1>10. CASE UNCHANGED echov BY <1>3, <1>10 DEF echov
<1> QED
  BY <1>1, <1>2, <1>4, <1>6, <1>7, <1>9, <1>10 DEF E!Next, E!Main
(* What is written comes after what was.                                   *)
Follows(c, what) ==
  IF Len(outbox[c]) < 3 THEN what = E!Greetings[Len(outbox[c]) + 1]
  ELSE /\ what \in Pairs
       /\ \A j \in DOMAIN what[1] : what[1][j] = Echoed(c) + j
       /\ what[1] # <<>> /\ what[1][Len(what[1])] <= E!EndOf(c, sent[c])
       /\ Len(what[1]) <= Len(what[2]) /\ \A j \in DOMAIN what[1] : what[2][j] = what[1][j]

LEMMA WriteFollows ==
  ASSUME TalkTyped, EchoesTyped, EchoesMessages, NEW c \in Clients, NEW what \in Said, Follows(c, what),
         outbox' = [outbox EXCEPT ![c] = Append(@, what)], sent' = sent
  PROVE  /\ EchoesMessages' /\ EchoesTyped' /\ Len(outbox'[c]) = Len(outbox[c]) + 1
         /\ Echoed(c)' = IF Len(outbox[c]) < 3 THEN 0 ELSE what[1][Len(what[1])]
         /\ \A d \in Clients \ {c} : outbox'[d] = outbox[d]
<1>1. PICK l \in Nat : l = Len(outbox[c]) BY LenProperties DEF TalkTyped
<1>2. outbox'[c] = Append(outbox[c], what) /\ \A d \in Clients \ {c} : outbox'[d] = outbox[d]
  BY DEF TalkTyped
<1>3. /\ Len(outbox'[c]) = l + 1 /\ outbox'[c][l + 1] = what
      /\ \A k \in 1 .. l : outbox'[c][k] = outbox[c][k]
      /\ DOMAIN outbox'[c] = 1 .. l + 1 /\ DOMAIN outbox[c] = 1 .. l
  <2>1. outbox[c] \in Seq(Said) /\ outbox'[c] \in Seq(Said)
    BY <1>2, AppendProperties DEF TalkTyped
  <2> QED BY <1>1, <1>2, <2>1, AppendProperties, LenProperties
<1>4. /\ E!LastByte(c, l)' = E!LastByte(c, l) /\ Echoed(c) = E!LastByte(c, l)
      /\ E!LastByte(c, l + 1)' = IF l < 3 THEN 0 ELSE what[1][Len(what[1])]
      /\ Echoed(c)' = E!LastByte(c, l + 1)'
  <2>1. CASE l <= 3 BY <1>1, <1>3, <2>1 DEF Echoed, E!LastByte
  <2>2. CASE l > 3
    <3>1. l \in 1 .. l BY <2>2
    <3> QED BY <1>1, <1>3, <2>2, <3>1 DEF Echoed, E!LastByte
  <2> QED BY <1>1, <2>1, <2>2
<1> DEFINE Fits(k, this, after, last, most) ==
      IF k <= 3 THEN this = E!Greetings[k]
      ELSE /\ this[1] # <<>> /\ \A j \in DOMAIN this[1] : this[1][j] = after + j
           /\ last <= most
           /\ Len(this[1]) <= Len(this[2]) /\ \A j \in DOMAIN this[1] : this[2][j] = this[1][j]
<1>5. \A d \in Clients : \A k \in DOMAIN outbox[d] :
        Fits(k, outbox[d][k], E!LastByte(d, k - 1), E!LastByte(d, k), E!EndOf(d, sent[d]))
  BY DEF EchoesMessages, E!EchoesMessages
<1>6. Fits(l + 1, what, E!LastByte(c, l)', E!LastByte(c, l + 1)', E!EndOf(c, sent[c]))
  <2>1. CASE l < 3 BY <1>1, <2>1 DEF Follows
  <2>2. CASE l >= 3
    <3>1. ~(l + 1 <= 3) /\ ~(l < 3) BY <2>2
    <3> QED BY <1>1, <1>4, <3>1 DEF Follows
  <2> QED BY <1>1, <2>1, <2>2
<1>7. ASSUME NEW d \in Clients, NEW k \in DOMAIN outbox'[d]
      PROVE  Fits(k, outbox'[d][k], E!LastByte(d, k - 1)', E!LastByte(d, k)', E!EndOf(d, sent[d])')
  <2>0. E!EndOf(d, sent[d])' = E!EndOf(d, sent[d]) BY DEF E!EndOf
  <2>1. CASE d # c
    <3>1. outbox'[d] = outbox[d] BY <1>2, <2>1
    <3>2. ASSUME NEW n PROVE E!LastByte(d, n)' = E!LastByte(d, n)
      <4>1. outbox'[d][n] = outbox[d][n] BY <3>1
      <4>2. CASE n <= 3 BY <4>2 DEF E!LastByte
      <4>3. CASE ~(n <= 3)
        <5>1. E!LastByte(d, n) = outbox[d][n][1][Len(outbox[d][n][1])] BY <4>3 DEF E!LastByte
        <5>2. E!LastByte(d, n)' = outbox'[d][n][1][Len(outbox'[d][n][1])] BY <4>3 DEF E!LastByte
        <5> QED BY <4>1, <5>1, <5>2
      <4> QED BY <4>2, <4>3
    <3> HIDE DEF Fits
    <3> QED BY <1>5, <1>7, <2>0, <3>1, <3>2
  <2>2. CASE d = c /\ k = l + 1
    <3>1. k - 1 = l /\ outbox'[d][k] = what BY <1>1, <1>3, <2>2
    <3> HIDE DEF Fits
    <3> QED BY <1>6, <2>0, <2>2, <3>1
  <2>3. CASE d = c /\ k # l + 1
    <3>1. k \in 1 .. l BY <1>1, <1>3, <1>7, <2>3
    <3>2. outbox'[d][k] = outbox[d][k] BY <1>3, <2>3, <3>1
    <3>3. E!LastByte(d, k)' = E!LastByte(d, k) BY <2>3, <3>2 DEF E!LastByte
    <3>4. E!LastByte(d, k - 1)' = E!LastByte(d, k - 1)
      <4>1. CASE k <= 4 BY <3>1, <4>1 DEF E!LastByte
      <4>2. CASE k > 4
        <5>1. k - 1 \in 1 .. l BY <1>1, <3>1, <4>2
        <5> QED BY <1>3, <2>3, <5>1 DEF E!LastByte
      <4> QED BY <3>1, <4>1, <4>2
    <3> HIDE DEF Fits
    <3> QED BY <1>3, <1>5, <2>0, <2>3, <3>1, <3>2, <3>3, <3>4
  <2> QED BY <2>1, <2>2, <2>3
<1>8. EchoesMessages' BY <1>7 DEF EchoesMessages, E!EchoesMessages, E!Greetings
<1>9. EchoesTyped'
  <2>1. SUFFICES ASSUME NEW d \in Clients, NEW k \in DOMAIN outbox'[d], k > 3 PROVE outbox'[d][k] \in Pairs
    BY DEF EchoesTyped
  <2>2. CASE d # c BY <1>2, <2>1, <2>2 DEF EchoesTyped
  <2>3. CASE d = c /\ k = l + 1 BY <1>1, <1>3, <2>1, <2>3 DEF Follows
  <2>4. CASE d = c /\ k # l + 1
    <3>1. k \in 1 .. l BY <1>1, <1>3, <2>1, <2>4
    <3> QED BY <1>3, <2>1, <2>4, <3>1 DEF EchoesTyped
  <2> QED BY <2>2, <2>3, <2>4
<1> QED BY <1>1, <1>2, <1>3, <1>4, <1>8, <1>9

LEMMA EchoesKept ==
  ASSUME TalkTyped, EchoesTyped, EchoesMessages, outbox' = outbox,
         \A c \in Clients : /\ E!EndOf(c, sent[c])' \in Int /\ E!EndOf(c, sent[c]) \in Int
                            /\ E!EndOf(c, sent[c]) <= E!EndOf(c, sent[c])'
  PROVE  EchoesMessages' /\ EchoesTyped'
<1>0. \A c \in Clients : \A k \in DOMAIN outbox[c] : k \in Nat BY LenProperties DEF TalkTyped
<1>1. ASSUME NEW c \in Clients, NEW k \in DOMAIN outbox[c], k > 3 PROVE E!LastByte(c, k) \in Int
  <2>1. PICK bytes \in Seq(Int) : bytes = outbox[c][k][1] BY <1>1 DEF EchoesTyped, Pairs
  <2>2. bytes # <<>> BY <1>0, <1>1, <2>1 DEF EchoesMessages, E!EchoesMessages
  <2>3. Len(bytes) \in 1 .. Len(bytes) BY <2>1, <2>2, EmptySeq, LenProperties
  <2> QED BY <1>1, <2>1, <2>3, ElementOfSeq DEF E!LastByte
<1>2. \A c, k : E!LastByte(c, k)' = E!LastByte(c, k) BY DEF E!LastByte
<1>3. ASSUME NEW c \in Clients, NEW k \in DOMAIN outbox[c], k > 3, E!LastByte(c, k) <= E!EndOf(c, sent[c])
      PROVE  E!LastByte(c, k)' <= E!EndOf(c, sent[c])'
  BY <1>1, <1>2, <1>3
<1>4. EchoesTyped' BY DEF EchoesTyped
<1>5. EchoesMessages'
  <2>1. SUFFICES ASSUME NEW c \in Clients, NEW k \in DOMAIN outbox[c]
        PROVE  IF k <= 3 THEN outbox[c][k] = E!Greetings[k]
               ELSE /\ outbox[c][k][1] # <<>>
                    /\ \A j \in DOMAIN outbox[c][k][1] : outbox[c][k][1][j] = E!LastByte(c, k - 1)' + j
                    /\ E!LastByte(c, k)' <= E!EndOf(c, sent[c])'
                    /\ Len(outbox[c][k][1]) <= Len(outbox[c][k][2])
                    /\ \A j \in DOMAIN outbox[c][k][1] : outbox[c][k][2][j] = outbox[c][k][1][j]
    BY DEF EchoesMessages, E!EchoesMessages, E!Greetings
  <2>2. CASE k <= 3 BY <2>1, <2>2 DEF EchoesMessages, E!EchoesMessages
  <2>3. CASE ~(k <= 3)
    <3>1. k > 3 BY <1>0, <2>1, <2>3
    <3> QED BY <1>2, <1>3, <2>1, <2>3, <3>1 DEF EchoesMessages, E!EchoesMessages
  <2> QED BY <2>2, <2>3
<1> QED BY <1>4, <1>5

LEMMA Same ==
  ASSUME NEW c, outbox'[c] = outbox[c], sent'[c] = sent[c], inbox'[c] = inbox[c]
  PROVE  Echoed(c)' = Echoed(c) /\ Got(c)' = Got(c) /\ E!EndOf(c, sent[c])' = E!EndOf(c, sent[c])
<1>1. E!EndOf(c, sent[c])' = E!EndOf(c, sent[c]) BY DEF E!EndOf
<1>2. PICK n : n = Len(outbox[c]) OBVIOUS
<1>3. outbox'[c][n] = outbox[c][n] OBVIOUS
<1>4. CASE n <= 3 BY <1>1, <1>2, <1>4 DEF Echoed, Got, E!LastByte
<1>5. CASE ~(n <= 3)
  <2>1. Echoed(c) = outbox[c][n][1][Len(outbox[c][n][1])] BY <1>2, <1>5 DEF Echoed, E!LastByte
  <2>2. Echoed(c)' = outbox'[c][n][1][Len(outbox'[c][n][1])] BY <1>2, <1>5 DEF Echoed, E!LastByte
  <2> QED BY <1>1, <1>3, <2>1, <2>2 DEF Got
<1> QED BY <1>4, <1>5

(* A thread whose client and buffer are left alone.                        *)
LEMMA TalksKept ==
  ASSUME NEW t, NEW c, Talks(t, c),
         outbox'[c] = outbox[c], sent'[c] = sent[c], inbox'[c] = inbox[c],
         peer'[c] = "reset" <=> peer[c] = "reset",
         client_message'[t] = client_message[t], read_size'[t] = read_size[t],
         \/ handler'[t] = handler[t]
         \/ handler[t] = "start" /\ handler'[t] = "greet"
         \/ handler[t] = "recv" /\ handler'[t] = "ended"
  PROVE  Talks(t, c)'
<1>1. Echoed(c)' = Echoed(c) /\ Got(c)' = Got(c) /\ E!EndOf(c, sent[c])' = E!EndOf(c, sent[c]) BY Same
<1>2. HoldsBytes(t, c)' BY <1>1 DEF Talks, HoldsBytes
<1> QED BY <1>1, <1>2 DEF Talks

(* Nothing is said or heard.                                               *)
LEMMA RestKept ==
  ASSUME EchoInv, Rest, UNCHANGED <<outbox, sent, inbox, accepted, new_sock, client_message, read_size>>,
         \A c \in Clients : peer'[c] = "reset" <=> peer[c] = "reset",
         \A t \in E!Handlers :
           \/ new_sock[t] = -1 \/ handler'[t] = handler[t]
           \/ handler[t] = "start" /\ handler'[t] = "greet"
           \/ handler[t] = "recv" /\ handler'[t] = "ended",
         Greeted'
  PROVE  Rest'
<1>1. ASSUME NEW c \in Clients PROVE Echoed(c)' = Echoed(c) /\ Got(c)' = Got(c) BY Same
<1>2. Streams'
  <2>1. ASSUME NEW c \in Clients
        PROVE  /\ Echoed(c)' \in Nat
               /\ IF peer'[c] = "reset" THEN inbox'[c] = <<>>
                  ELSE \A k \in 1 .. Len(inbox'[c]) : inbox'[c][k] = Got(c)' + k
    <3>1. /\ Echoed(c) \in Nat
          /\ IF peer[c] = "reset" THEN inbox[c] = <<>>
             ELSE \A k \in 1 .. Len(inbox[c]) : inbox[c][k] = Got(c) + k
      BY DEF Rest, Streams
    <3> QED BY <1>1, <3>1
  <2> QED BY <2>1 DEF Streams
<1>3. Unserved'
  <2>1. ASSUME NEW c \in Clients, \A k \in 1 .. Len(accepted') : accepted'[k] # c
        PROVE  Len(outbox'[c]) = 0 /\ peer'[c] # "reset" /\ Got(c)' = 0
    BY <1>1, <2>1 DEF Rest, Unserved
  <2> QED BY <2>1 DEF Unserved
<1>4. ASSUME NEW t \in E!Handlers, new_sock'[t] # -1 PROVE Talks(t, accepted[new_sock[t]])'
  <2>1. new_sock[t] \in 1 .. Len(accepted)
    BY <1>4, EchoAssumption, LenProperties DEF EchoInv, EchoTyped, Handed, Sockets
  <2>2. PICK c \in Clients : c = accepted[new_sock[t]] BY <2>1, ElementOfSeq DEF EchoInv, EchoTyped
  <2>3. Talks(t, c) BY <1>4, <2>2 DEF Rest
  <2>4. Talks(t, c)' BY <1>4, <2>3, TalksKept
  <2>5. accepted'[new_sock'[t]] = c BY <2>2
  <2> QED BY <2>4, <2>5
<1> QED BY <1>2, <1>3, <1>4 DEF Rest
(* Something is said to c: of the others nothing changes.                  *)
LEMMA WriteRest ==
  ASSUME EchoInv, TalkTyped, Once, EchoesTyped, EchoesMessages, Rest,
         NEW fd \in 1 .. Len(accepted), NEW c \in Clients, c = accepted[fd], peer[c] # "reset",
         NEW what \in Said, Follows(c, what), outbox' = [outbox EXCEPT ![c] = Append(@, what)],
         \/ peer' = [peer EXCEPT ![c] = "reset"] /\ inbox' = [inbox EXCEPT ![c] = <<>>]
         \/ UNCHANGED <<peer, inbox>>,
         UNCHANGED <<sent, accepted, new_sock, client_message, read_size>>
  PROVE  /\ EchoesMessages' /\ EchoesTyped' /\ Unserved' /\ (Echoed(c)' \in Nat => Streams')
         /\ Len(outbox'[c]) = Len(outbox[c]) + 1
         /\ Echoed(c)' = IF Len(outbox[c]) < 3 THEN 0 ELSE what[1][Len(what[1])]
         /\ peer'[c] # "reset" => Got(c)' = Got(c)
         /\ \A t \in E!Handlers : new_sock[t] \notin {-1, fd} /\ handler'[t] = handler[t]
              => Talks(t, accepted[new_sock[t]])'
<1>1. /\ EchoesMessages' /\ EchoesTyped' /\ Len(outbox'[c]) = Len(outbox[c]) + 1
      /\ Echoed(c)' = IF Len(outbox[c]) < 3 THEN 0 ELSE what[1][Len(what[1])]
      /\ \A d \in Clients \ {c} : outbox'[d] = outbox[d]
  BY WriteFollows
<1>2. ASSUME NEW d \in Clients \ {c}
      PROVE  /\ inbox'[d] = inbox[d] /\ peer'[d] = peer[d] /\ sent'[d] = sent[d]
             /\ Echoed(d)' = Echoed(d) /\ Got(d)' = Got(d)
  <2>1. inbox'[d] = inbox[d] /\ peer'[d] = peer[d] BY DEF TalkTyped
  <2> QED BY <1>1, <2>1, Same
<1>3. /\ peer'[c] # "reset" => inbox'[c] = inbox[c] /\ Got(c)' = Got(c)
      /\ peer'[c] = "reset" => inbox'[c] = <<>>
  BY DEF TalkTyped, Got, E!EndOf
<1>4. ASSUME Echoed(c)' \in Nat PROVE Streams'
  <2>1. ASSUME NEW d \in Clients
        PROVE  /\ Echoed(d)' \in Nat
               /\ IF peer'[d] = "reset" THEN inbox'[d] = <<>>
                  ELSE \A k \in 1 .. Len(inbox'[d]) : inbox'[d][k] = Got(d)' + k
    <3>1. CASE d = c
      <4>1. \A k \in 1 .. Len(inbox[c]) : inbox[c][k] = Got(c) + k BY DEF Rest, Streams
      <4> QED BY <1>3, <1>4, <3>1, <4>1
    <3>2. CASE d # c BY <1>2, <3>2 DEF Rest, Streams
    <3> QED BY <3>1, <3>2
  <2> QED BY <2>1 DEF Streams
<1>5. Unserved'
  <2>1. ASSUME NEW d \in Clients, \A k \in 1 .. Len(accepted') : accepted'[k] # d
        PROVE  Len(outbox'[d]) = 0 /\ peer'[d] # "reset" /\ Got(d)' = 0
    <3>1. d # c BY <2>1
    <3> QED BY <1>1, <1>2, <2>1, <3>1 DEF Rest, Unserved
  <2> QED BY <2>1 DEF Unserved
<1>6. ASSUME NEW t \in E!Handlers, new_sock[t] \notin {-1, fd}, handler'[t] = handler[t]
      PROVE  Talks(t, accepted[new_sock[t]])'
  <2>1. new_sock[t] \in 1 .. Len(accepted)
    BY <1>6, EchoAssumption, LenProperties DEF EchoInv, EchoTyped, Handed, Sockets
  <2>2. PICK d \in Clients : d = accepted[new_sock[t]] BY <2>1, ElementOfSeq DEF EchoInv, EchoTyped
  <2>3. d # c BY <1>6, <2>1, <2>2 DEF Once
  <2>4. Talks(t, d) BY <1>6, <2>2 DEF Rest
  <2>5. Talks(t, d)' BY <1>1, <1>2, <1>6, <2>3, <2>4, TalksKept
  <2>6. accepted'[new_sock'[t]] = d BY <2>2
  <2> QED BY <2>5, <2>6
<1> QED BY <1>1, <1>3, <1>4, <1>5, <1>6

LEMMA HelloRest ==
  ASSUME EchoInv, TalkTyped, Once, EchoesTyped, EchoesMessages, Rest, E!Hello
  PROVE  EchoesMessages' /\ EchoesTyped' /\ (acceptor' # "killed" => Rest')
<1> USE DEF E!handlers
<1>0. new_socket \in Sockets /\ new_socket <= Len(accepted) /\ "hello" \in Said /\ EchoTyped
  BY EchoAssumption, LenProperties DEF E!Hello, EchoInv, EchoTyped, Served, Sockets, Said
<1>1. CASE UNCHANGED <<peer, inbox, outbox>> /\ (new_socket = -1 \/ E!Dies(new_socket))
  <2>1. \A c \in Clients : /\ E!EndOf(c, sent[c])' = E!EndOf(c, sent[c]) /\ E!EndOf(c, sent[c]) \in Int
    BY EndsRise DEF E!Hello, TalkTyped, E!EndOf
  <2>2. EchoesMessages' /\ EchoesTyped' BY <1>1, <2>1, EchoesKept
  <2>3. ASSUME acceptor' # "killed" PROVE Rest'
    <3>1. new_socket = -1 /\ new_socket' = -1 BY <1>1, <2>3 DEF E!Hello
    <3>2. Greeted' BY <3>1 DEF Greeted
    <3> QED BY <1>1, <3>2, RestKept DEF E!Hello
  <2> QED BY <2>2, <2>3
<1>2. ASSUME new_socket # -1, ~E!Dies(new_socket), NEW c \in Clients, c = accepted[new_socket],
             peer[c] # "reset", outbox' = [outbox EXCEPT ![c] = Append(@, "hello")],
             \/ peer' = [peer EXCEPT ![c] = "reset"] /\ inbox' = [inbox EXCEPT ![c] = <<>>]
             \/ UNCHANGED <<peer, inbox>>
      PROVE  EchoesMessages' /\ EchoesTyped' /\ Rest'
  <2>1. new_socket \in 1 .. Len(accepted) BY <1>0, <1>2, EchoAssumption, LenProperties DEF EchoTyped, Sockets
  <2>2. Len(outbox[c]) = 0 /\ Fresh(c) BY <1>2 DEF E!Hello, Rest, Greeted
  <2>3. Follows(c, "hello") BY <2>2 DEF Follows, E!Greetings
  <2>4. UNCHANGED <<sent, accepted, new_sock, client_message, read_size, handler, new_socket>>
    BY DEF E!Hello
  <2>5. /\ EchoesMessages' /\ EchoesTyped' /\ Unserved' /\ (Echoed(c)' \in Nat => Streams')
        /\ Len(outbox'[c]) = Len(outbox[c]) + 1
        /\ Echoed(c)' = IF Len(outbox[c]) < 3 THEN 0 ELSE "hello"[1][Len("hello"[1])]
        /\ peer'[c] # "reset" => Got(c)' = Got(c)
        /\ \A t \in E!Handlers : new_sock[t] \notin {-1, new_socket} /\ handler'[t] = handler[t]
              => Talks(t, accepted[new_sock[t]])'
    BY <1>0, <1>2, <2>1, <2>3, <2>4, WriteRest
  <2>6. Streams' BY <2>2, <2>5
  <2>7. Greeted' BY <1>2, <2>2, <2>4, <2>5 DEF E!Hello, Greeted, Fresh
  <2>8. \A t \in E!Handlers : new_sock[t] # new_socket BY <1>2 DEF E!Hello, EchoInv, Served
  <2>9. ASSUME NEW t \in E!Handlers, new_sock'[t] # -1 PROVE Talks(t, accepted[new_sock[t]])'
    BY <2>4, <2>5, <2>8, <2>9
  <2> QED BY <2>5, <2>6, <2>7, <2>9 DEF Rest
<1> QED BY <1>0, <1>1, <1>2, Written DEF E!Hello
(* What a handler may say next; after is the last byte it has sent back.   *)
Proper(t, to, what) ==
  \A c \in Clients : new_sock[t] # -1 /\ c = accepted[new_sock[t]] =>
    /\ Follows(c, what)
    /\ IF to = "invite" THEN Len(outbox[c]) = 1 ELSE Len(outbox[c]) >= 2
    /\ \E after \in Nat :
         /\ after = IF Len(outbox[c]) < 3 THEN 0 ELSE what[1][Len(what[1])]
         /\ peer[c] # "reset" => Got(c) = after

LEMMA SaysRest ==
  ASSUME EchoInv, TalkTyped, Once, EchoesTyped, EchoesMessages, Rest,
         NEW t \in E!Handlers, NEW from, from \notin {"none", "start"}, NEW to \in {"invite", "recv"},
         NEW what \in Said, E!Says(t, from, to, what),
         Proper(t, to, what)
  PROVE  EchoesMessages' /\ EchoesTyped' /\ (acceptor' # "killed" => Rest')
<1> USE DEF E!Goes
<1>0. sock[t] = new_sock[t] /\ sock[t] \in Sockets /\ sock[t] <= Len(accepted) /\ EchoTyped
  BY HandlerSocket DEF E!Says, EchoInv
<1>1. /\ UNCHANGED <<sent, accepted, new_sock, client_message, read_size, new_socket>>
      /\ handler' = [handler EXCEPT ![t] = to]
      /\ acceptor' = IF E!Dies(sock[t]) THEN "killed" ELSE acceptor
  BY DEF E!Says
<1>2. \A u \in E!Handlers \ {t} : handler'[u] = handler[u] BY <1>0, <1>1 DEF EchoTyped
<1>3. handler'[t] = to BY <1>0, <1>1 DEF EchoTyped
<1>4. CASE UNCHANGED <<peer, inbox, outbox>> /\ (sock[t] = -1 \/ E!Dies(sock[t]))
  <2>1. \A c \in Clients : /\ E!EndOf(c, sent[c])' = E!EndOf(c, sent[c]) /\ E!EndOf(c, sent[c]) \in Int
    BY <1>1, EndsRise DEF TalkTyped, E!EndOf
  <2>2. EchoesMessages' /\ EchoesTyped' BY <1>4, <2>1, EchoesKept
  <2>3. ASSUME acceptor' # "killed" PROVE Rest'
    <3>1. new_sock[t] = -1 /\ acceptor' = acceptor BY <1>0, <1>1, <1>4, <2>3
    <3>2. Greeted'
      <4>1. SUFFICES ASSUME acceptor \in {"hello", "create"}, new_socket # -1
                     PROVE  /\ Len(outbox[accepted[new_socket]]) = IF acceptor = "hello" THEN 0 ELSE 1
                            /\ Fresh(accepted[new_socket])'
        BY <1>1, <1>4, <3>1 DEF Greeted
      <4>2. Fresh(accepted[new_socket]) BY <4>1 DEF Rest, Greeted
      <4>3. Fresh(accepted[new_socket])' BY <1>1, <1>4, <4>2 DEF Fresh, Got, E!EndOf
      <4> QED BY <4>1, <4>3 DEF Rest, Greeted
    <3> QED BY <1>1, <1>2, <1>4, <3>1, <3>2, RestKept
  <2> QED BY <2>2, <2>3
<1>5. ASSUME sock[t] # -1, ~E!Dies(sock[t]), NEW c \in Clients, c = accepted[sock[t]],
             peer[c] # "reset", outbox' = [outbox EXCEPT ![c] = Append(@, what)],
             \/ peer' = [peer EXCEPT ![c] = "reset"] /\ inbox' = [inbox EXCEPT ![c] = <<>>]
             \/ UNCHANGED <<peer, inbox>>
      PROVE  EchoesMessages' /\ EchoesTyped' /\ Rest'
  <2>1. new_sock[t] \in 1 .. Len(accepted) BY <1>0, <1>5, EchoAssumption, LenProperties DEF EchoTyped, Sockets
  <2>2. /\ Follows(c, what) /\ (IF to = "invite" THEN Len(outbox[c]) = 1 ELSE Len(outbox[c]) >= 2)
    BY <1>0, <1>5 DEF Proper
  <2>3. PICK after \in Nat : /\ after = IF Len(outbox[c]) < 3 THEN 0 ELSE what[1][Len(what[1])]
                             /\ peer[c] # "reset" => Got(c) = after
    BY <1>0, <1>5 DEF Proper
  <2>4. /\ EchoesMessages' /\ EchoesTyped' /\ Unserved' /\ (Echoed(c)' \in Nat => Streams')
        /\ Len(outbox'[c]) = Len(outbox[c]) + 1
        /\ Echoed(c)' = IF Len(outbox[c]) < 3 THEN 0 ELSE what[1][Len(what[1])]
        /\ peer'[c] # "reset" => Got(c)' = Got(c)
        /\ \A u \in E!Handlers : new_sock[u] \notin {-1, new_sock[t]} /\ handler'[u] = handler[u]
              => Talks(u, accepted[new_sock[u]])'
    BY <1>0, <1>1, <1>5, <2>1, <2>2, WriteRest
  <2>5. Echoed(c)' = after /\ Streams' BY <2>3, <2>4
  <2>6. Len(outbox[c]) \in Nat BY LenProperties DEF TalkTyped
  <2>7. Talks(t, c)'
    <3>1. peer'[c] # "reset" => Got(c)' = Echoed(c)' + 0 BY <1>5, <2>3, <2>4, <2>5
    <3>2. PICK l \in Nat : l = Len(outbox[c]) BY <2>6
    <3>3. IF to = "invite" THEN Len(outbox'[c]) = 2 ELSE Len(outbox'[c]) >= 3
      <4>1. Len(outbox'[c]) = l + 1 BY <2>4, <3>2
      <4>2. IF to = "invite" THEN l = 1 ELSE l >= 2 BY <2>2, <3>2
      <4> QED BY <4>1, <4>2
    <3> QED BY <1>3, <3>1, <3>3 DEF Talks, HoldsBytes
  <2>8. ASSUME NEW u \in E!Handlers, new_sock'[u] # -1 PROVE Talks(u, accepted[new_sock[u]])'
    <3>1. CASE u = t
      <4>1. accepted'[new_sock'[u]] = c BY <1>0, <1>1, <1>5, <3>1
      <4> QED BY <2>7, <3>1, <4>1
    <3>2. CASE u # t
      <4>1. new_sock[u] # new_sock[t] BY <1>1, <2>8, <3>2 DEF EchoInv, Served
      <4> QED BY <1>1, <1>2, <2>4, <2>8, <3>2, <4>1
    <3> QED BY <3>1, <3>2
  <2>9. Greeted'
    <3>1. acceptor' = acceptor BY <1>1, <1>5
    <3>2. SUFFICES ASSUME acceptor \in {"hello", "create"}, new_socket # -1
                   PROVE  /\ Len(outbox'[accepted[new_socket]]) = IF acceptor = "hello" THEN 0 ELSE 1
                          /\ Fresh(accepted[new_socket])'
      BY <1>1, <3>1 DEF Greeted
    <3>3. new_socket = Len(accepted) /\ new_sock[t] # new_socket BY <3>2 DEF EchoInv, Served
    <3>4. new_socket \in 1 .. Len(accepted) BY <2>1, <3>3
    <3>5. PICK d \in Clients : d = accepted[new_socket] BY <1>0, <3>4, ElementOfSeq DEF EchoTyped
    <3>6. d # c BY <1>0, <1>5, <2>1, <3>3, <3>4, <3>5 DEF Once
    <3>7. outbox'[d] = outbox[d] /\ inbox'[d] = inbox[d] /\ peer'[d] = peer[d]
      BY <1>5, <3>6 DEF TalkTyped
    <3>8. Fresh(d) /\ Len(outbox[d]) = IF acceptor = "hello" THEN 0 ELSE 1 BY <3>2, <3>5 DEF Rest, Greeted
    <3>9. Fresh(d)' BY <1>1, <3>7, <3>8 DEF Fresh, Got, E!EndOf
    <3> QED BY <1>1, <3>5, <3>7, <3>8, <3>9
  <2> QED BY <2>4, <2>5, <2>8, <2>9 DEF Rest
<1>6. E!Write(sock[t], what) BY DEF E!Says
<1> QED BY <1>0, <1>4, <1>5, <1>6, Written

(* The text ends at the first NUL, which no byte that was received is.     *)
LEMMA TextIs ==
  ASSUME NEW t, NEW m \in [1 .. Size -> Int], m = client_message[t], NEW n \in 1 .. Size,
         NEW text \in E!Text(t), \A k \in 1 .. n : m[k] # 0
  PROVE  n <= Len(text) /\ \A j \in 1 .. n : text[j] = m[j]
<1>1. Size \in Nat BY EchoAssumption
<1>2. m \in Seq(Int) /\ Len(m) = Size BY <1>1
<1>3. CASE text = m BY <1>1, <1>2, <1>3
<1>4. CASE text = Append(m, E!Beyond)
  <2>1. E!Beyond \in Int BY DEF E!Beyond
  <2> QED BY <1>1, <1>2, <1>4, <2>1, AppendProperties
<1>5. ASSUME NEW k \in 1 .. Size, m[k] = E!NUL, text = SubSeq(m, 1, k - 1)
      PROVE  n <= Len(text) /\ \A j \in 1 .. n : text[j] = m[j]
  <2>1. k \notin 1 .. n BY <1>5 DEF E!NUL
  <2>2. PICK l \in 0 .. Size : l = k - 1 /\ n <= l BY <1>1, <1>5, <2>1
  <2>3. \A j \in 1 .. l : m[j] \in Int BY <1>1
  <2>4. Len(SubSeq(m, 1, l)) = l /\ \A j \in 1 .. l : SubSeq(m, 1, l)[j] = m[j]
    BY <1>1, <1>2, <2>3, SubSeqProperties
  <2> QED BY <1>5, <2>2, <2>4
<1> QED BY <1>3, <1>4, <1>5 DEF E!Text

LEMMA EchoRest ==
  ASSUME EchoInv, TalkTyped, TalkKnown, Once, EchoesTyped, EchoesMessages, Rest, NEW t \in E!Handlers,
         E!Greet(t) \/ E!Invite(t) \/ E!Echo(t)
  PROVE  EchoesMessages' /\ EchoesTyped' /\ (acceptor' # "killed" => Rest')
<1>0. "greetings" \in Said /\ "type" \in Said BY DEF Said
<1>1. ASSUME NEW c \in Clients, new_sock[t] # -1, c = accepted[new_sock[t]]
      PROVE  Talks(t, c) /\ Echoed(c) \in Nat /\ Len(outbox[c]) \in Nat
             /\ (Len(outbox[c]) < 3 => Echoed(c) = 0)
  <2>1. Len(outbox[c]) \in Nat BY LenProperties DEF TalkTyped
  <2>2. Len(outbox[c]) < 3 => Echoed(c) = 0 BY <2>1 DEF Echoed, E!LastByte
  <2> QED BY <1>1, <2>1, <2>2 DEF Rest, Streams
<1>2. CASE E!Greet(t)
  <2>1. handler[t] = "greet" /\ E!Says(t, "greet", "invite", "greetings") BY <1>2 DEF E!Greet, E!Says, E!Goes
  <2>2. ASSUME NEW c \in Clients, new_sock[t] # -1, c = accepted[new_sock[t]]
        PROVE  /\ Follows(c, "greetings") /\ Len(outbox[c]) = 1
               /\ peer[c] # "reset" => Got(c) = 0
    <3>1. Talks(t, c) BY <1>1, <2>2
    <3>2. Len(outbox[c]) = 1 BY <2>1, <3>1 DEF Talks
    <3>3. Echoed(c) = 0
      <4>1. Len(outbox[c]) < 3 => Echoed(c) = 0 BY <1>1, <2>2
      <4>2. Len(outbox[c]) < 3 BY <3>2
      <4> QED BY <4>1, <4>2
    <3>4. peer[c] # "reset" => Got(c) = Echoed(c) + 0 BY <2>1, <3>1 DEF Talks
    <3>5. E!Greetings[1 + 1] = "greetings" BY DEF E!Greetings
    <3> QED BY <3>2, <3>3, <3>4, <3>5 DEF Follows
  <2>3. ASSUME NEW c \in Clients, new_sock[t] # -1, c = accepted[new_sock[t]]
        PROVE  /\ Follows(c, "greetings") /\ (IF "invite" = "invite" THEN Len(outbox[c]) = 1 ELSE Len(outbox[c]) >= 2)
               /\ \E after \in Nat :
                    /\ after = IF Len(outbox[c]) < 3 THEN 0 ELSE "greetings"[1][Len("greetings"[1])]
                    /\ peer[c] # "reset" => Got(c) = after
    <3>1. Len(outbox[c]) = 1 BY <2>2, <2>3
    <3>4. Len(outbox[c]) < 3 BY <3>1
    <3>2. 0 = IF Len(outbox[c]) < 3 THEN 0 ELSE "greetings"[1][Len("greetings"[1])] BY <3>4
    <3> QED BY <2>2, <2>3, <3>1, <3>2
  <2>4. Proper(t, "invite", "greetings") BY <2>3 DEF Proper
  <2> QED BY <1>0, <2>1, <2>4, SaysRest
<1>3. CASE E!Invite(t)
  <2>1. handler[t] = "invite" /\ E!Says(t, "invite", "recv", "type") BY <1>3 DEF E!Invite, E!Says, E!Goes
  <2>2. ASSUME NEW c \in Clients, new_sock[t] # -1, c = accepted[new_sock[t]]
        PROVE  /\ Follows(c, "type") /\ Len(outbox[c]) = 2
               /\ peer[c] # "reset" => Got(c) = 0
    <3>1. Talks(t, c) BY <1>1, <2>2
    <3>2. Len(outbox[c]) = 2 BY <2>1, <3>1 DEF Talks
    <3>3. Echoed(c) = 0
      <4>1. Len(outbox[c]) < 3 => Echoed(c) = 0 BY <1>1, <2>2
      <4>2. Len(outbox[c]) < 3 BY <3>2
      <4> QED BY <4>1, <4>2
    <3>4. peer[c] # "reset" => Got(c) = Echoed(c) + 0 BY <2>1, <3>1 DEF Talks
    <3>5. E!Greetings[2 + 1] = "type" BY DEF E!Greetings
    <3> QED BY <3>2, <3>3, <3>4, <3>5 DEF Follows
  <2>3. ASSUME NEW c \in Clients, new_sock[t] # -1, c = accepted[new_sock[t]]
        PROVE  /\ Follows(c, "type") /\ (IF "recv" = "invite" THEN Len(outbox[c]) = 1 ELSE Len(outbox[c]) >= 2)
               /\ \E after \in Nat :
                    /\ after = IF Len(outbox[c]) < 3 THEN 0 ELSE "type"[1][Len("type"[1])]
                    /\ peer[c] # "reset" => Got(c) = after
    <3>1. Len(outbox[c]) = 2 BY <2>2, <2>3
    <3>4. Len(outbox[c]) < 3 BY <3>1
    <3>2. 0 = IF Len(outbox[c]) < 3 THEN 0 ELSE "type"[1][Len("type"[1])] BY <3>4
    <3> QED BY <2>2, <2>3, <3>1, <3>2
  <2>4. Proper(t, "recv", "type") BY <2>3 DEF Proper
  <2> QED BY <1>0, <2>1, <2>4, SaysRest
<1>4. CASE E!Echo(t)
  <2>1. PICK text \in E!Text(t) :
          E!Says(t, "echo", "recv", <<SubSeq(client_message[t], 1, read_size[t]), text>>)
    BY <1>4 DEF E!Echo
  <2>2. handler[t] = "echo" BY <1>4 DEF E!Echo
  <2>3. PICK m \in [1 .. Size -> Int] : m = client_message[t] BY <1>0, <2>2 DEF TalkKnown
  <2>4. PICK n \in 1 .. Size : n = read_size[t] BY <2>2, EchoAssumption DEF TalkKnown, TalkTyped
  <2>5. PICK bytes \in Seq(Int) : /\ bytes = SubSeq(m, 1, n) /\ Len(bytes) = n
                                  /\ \A k \in 1 .. n : bytes[k] = m[k]
    BY <2>3, <2>4, EchoedTyped
  <2>6. <<bytes, text>> \in Pairs \cap Said BY <2>2, <2>3, <2>4, <2>5, EchoedWrite DEF TalkKnown
  <2>7. ASSUME NEW c \in Clients, new_sock[t] # -1, c = accepted[new_sock[t]]
        PROVE  /\ Follows(c, <<bytes, text>>) /\ Len(outbox[c]) >= 2
               /\ \E after \in Nat :
                    /\ after = IF Len(outbox[c]) < 3 THEN 0 ELSE bytes[Len(bytes)]
                    /\ peer[c] # "reset" => Got(c) = after
    <3>1. PICK from \in Nat : from = Echoed(c) BY <1>1, <2>7
    <3>2. /\ Len(outbox[c]) >= 3 /\ (peer[c] # "reset" => Got(c) = from + n)
          /\ \A k \in 1 .. n : m[k] = from + k
          /\ from + n <= E!EndOf(c, sent[c])
      BY <1>1, <2>2, <2>3, <2>4, <2>7, <3>1 DEF Talks, HoldsBytes
    <3>3. \A k \in 1 .. n : bytes[k] = from + k /\ bytes[k] # 0 BY <2>5, <3>1, <3>2
    <3>4. n \in Nat /\ n \in 1 .. n BY EchoAssumption
    <3>5. DOMAIN bytes = 1 .. n /\ bytes # <<>>
      <4>1. DOMAIN bytes = 1 .. n BY <2>5, LenProperties
      <4>2. Len(bytes) # 0 BY <2>5, <3>4
      <4> QED BY <4>1, <4>2
    <3>8. \A k \in 1 .. n : m[k] # 0 BY <2>5, <3>3
    <3>9. n <= Len(text) /\ \A j \in 1 .. n : text[j] = bytes[j]
      BY <2>1, <2>3, <2>5, <3>8, TextIs
    <3>6. from + n \in Nat /\ bytes[n] = from + n BY <3>1, <3>3, <3>4
    <3>7. Follows(c, <<bytes, text>>)
      <4>1. ~(Len(outbox[c]) < 3) BY <1>1, <2>7, <3>2
      <4>2. <<bytes, text>> \in Pairs BY <2>6
      <4>3. \A j \in DOMAIN bytes : bytes[j] = Echoed(c) + j BY <3>1, <3>3, <3>5
      <4>4. bytes[Len(bytes)] <= E!EndOf(c, sent[c]) BY <2>5, <3>2, <3>6
      <4>5. Len(bytes) <= Len(text) /\ \A j \in DOMAIN bytes : text[j] = bytes[j] BY <2>5, <3>5, <3>9
      <4> QED BY <3>5, <4>1, <4>2, <4>3, <4>4, <4>5 DEF Follows
    <3> QED BY <1>1, <2>5, <2>7, <3>2, <3>6, <3>7
  <2>8. /\ E!Says(t, "echo", "recv", <<bytes, text>>) /\ <<bytes, text>>[1] = bytes
    BY <2>1, <2>3, <2>4, <2>5
  <2>9. Proper(t, "recv", <<bytes, text>>) BY <2>7, <2>8 DEF Proper
  <2> QED BY <2>2, <2>6, <2>8, <2>9, SaysRest
<1> QED BY <1>2, <1>3, <1>4

LEMMA TalkKnownStep ==
  ASSUME EchoInv, TalkTyped, TalkKnown, [E!Next]_echov PROVE TalkKnown'
<1> USE DEF E!peers, E!mains, E!handlers, E!Goes
<1>0. EchoTyped BY DEF EchoInv
<1>1. ASSUME NEW t \in E!Handlers, E!Recv(t) PROVE TalkKnown'
  <2>1. PICK c \in Clients : \E n \in 1 .. Size : \E m \in [1 .. Size -> Int] :
           /\ client_message' = [client_message EXCEPT ![t] = m]
           /\ read_size' = [read_size EXCEPT ![t] = n]
    BY <1>1, RecvTyped
  <2>2. PICK n \in 1 .. Size : \E m \in [1 .. Size -> Int] :
           /\ client_message' = [client_message EXCEPT ![t] = m]
           /\ read_size' = [read_size EXCEPT ![t] = n]
    BY <2>1
  <2>3. client_message'[t] \in [1 .. Size -> Int] /\ read_size'[t] = n /\ n >= 1
    BY <2>2, EchoAssumption DEF TalkTyped
  <2>4. \A u \in E!Handlers \ {t} :
          /\ client_message'[u] = client_message[u] /\ read_size'[u] = read_size[u]
          /\ handler'[u] = handler[u]
    BY <1>0, <1>1, <2>2 DEF E!Recv, EchoTyped, TalkTyped
  <2> QED BY <2>3, <2>4 DEF TalkKnown
<1>2. CASE /\ UNCHANGED <<client_message, read_size>>
           /\ \A t \in E!Handlers : handler'[t] = "echo" => handler[t] = "echo"
  BY <1>2 DEF TalkKnown
<1>3. ASSUME NEW t \in E!Handlers, NEW from, NEW to, NEW what, to # "echo", E!Says(t, from, to, what)
      PROVE  TalkKnown'
  BY <1>0, <1>2, <1>3 DEF E!Says, EchoTyped
<1>4. CASE E!Hello \/ E!Accept \/ E!CreateThread \/ UNCHANGED echov
  BY <1>0, <1>2, <1>4 DEF E!Hello, E!Accept, E!CreateThread, EchoTyped, echov
<1>5. ASSUME NEW t \in E!Handlers, E!Start(t) \/ E!RecvEnds(t) PROVE TalkKnown'
  BY <1>0, <1>2, <1>5 DEF E!Start, E!RecvEnds, EchoTyped
<1>6. ASSUME NEW t \in E!Handlers, E!Greet(t) \/ E!Invite(t) \/ E!Echo(t) PROVE TalkKnown'
  BY <1>3, <1>6 DEF E!Greet, E!Invite, E!Echo
<1>7. ASSUME NEW c \in Clients, E!Connect(c) \/ E!Send(c) \/ E!Leave(c) PROVE TalkKnown'
  BY <1>2, <1>7 DEF E!Connect, E!Send, E!Leave
<1> QED BY <1>1, <1>4, <1>5, <1>6, <1>7 DEF E!Next, E!Main, E!connection_handler2

(* Nobody is sent anything.                                                *)
LEMMA SameEnds ==
  ASSUME TalkTyped, sent' = sent
  PROVE  \A c \in Clients : /\ E!EndOf(c, sent[c])' = E!EndOf(c, sent[c])
                            /\ E!EndOf(c, sent[c]) \in Int
  BY EndsRise DEF TalkTyped, E!EndOf

LEMMA AcceptRest ==
  ASSUME EchoInv, TalkTyped, Once, EchoesTyped, EchoesMessages, Rest, E!Accept
  PROVE  EchoesMessages' /\ EchoesTyped' /\ Rest'
<1> USE DEF E!handlers
<1>0. EchoTyped BY DEF EchoInv
<1>1. EchoesMessages' /\ EchoesTyped'
  <2>1. outbox' = outbox /\ sent' = sent BY DEF E!Accept
  <2> QED BY <2>1, SameEnds, EchoesKept
<1>2. CASE new_socket' = -1 /\ UNCHANGED <<pending, accepted>>
  <2>1. Greeted' BY <1>2 DEF Greeted
  <2> QED BY <1>1, <1>2, <2>1, RestKept DEF E!Accept
<1>3. CASE /\ Len(accepted) < MaxFds /\ pending # <<>>
           /\ accepted' = Append(accepted, Head(pending)) /\ pending' = Tail(pending)
           /\ new_socket' = Len(accepted')
  <2>1. PICK l \in Nat : l = Len(accepted) BY <1>0, LenProperties DEF EchoTyped
  <2>2. PICK c \in Clients : c = Head(pending) /\ c = pending[1] /\ 1 \in 1 .. Len(pending)
    BY <1>0, <1>3, HeadTailProperties, LenProperties, EmptySeq DEF EchoTyped
  <2>3. /\ Len(accepted') = l + 1 /\ accepted'[l + 1] = c /\ new_socket' = l + 1
        /\ \A k \in 1 .. l : accepted'[k] = accepted[k]
    BY <1>0, <1>3, <2>1, <2>2, AppendProperties DEF EchoTyped
  <2>4. \A k \in 1 .. l : accepted[k] # c BY <2>1, <2>2 DEF Once
  <2>5. UNCHANGED <<peer, inbox, sent, outbox, new_sock, handler, client_message, read_size>>
    BY DEF E!Accept
  <2>6. ASSUME NEW d \in Clients PROVE Echoed(d)' = Echoed(d) /\ Got(d)' = Got(d) BY <2>5, Same
  <2>7. Streams'
    <3>1. ASSUME NEW d \in Clients
          PROVE  /\ Echoed(d)' \in Nat
                 /\ IF peer'[d] = "reset" THEN inbox'[d] = <<>>
                    ELSE \A k \in 1 .. Len(inbox'[d]) : inbox'[d][k] = Got(d)' + k
      BY <2>5, <2>6 DEF Rest, Streams
    <3> QED BY <3>1 DEF Streams
  <2>8. Unserved'
    <3>1. ASSUME NEW d \in Clients, \A k \in 1 .. Len(accepted') : accepted'[k] # d
          PROVE  Len(outbox'[d]) = 0 /\ peer'[d] # "reset" /\ Got(d)' = 0
      <4>1. \A k \in 1 .. l : k \in 1 .. l + 1 BY <2>1
      <4>2. \A k \in 1 .. Len(accepted) : accepted[k] # d BY <2>1, <2>3, <3>1, <4>1
      <4> QED BY <2>5, <2>6, <4>2 DEF Rest, Unserved
    <3> QED BY <3>1 DEF Unserved
  <2>9. Greeted'
    <3>1. Len(outbox[c]) = 0 /\ peer[c] # "reset" /\ Got(c) = 0 BY <2>1, <2>4 DEF Rest, Unserved
    <3>2. accepted'[new_socket'] = c /\ acceptor' = "hello" BY <2>3 DEF E!Accept
    <3>3. Fresh(c)' BY <2>6, <3>1 DEF Fresh
    <3> QED BY <2>5, <3>1, <3>2, <3>3 DEF Greeted
  <2>10. ASSUME NEW t \in E!Handlers, new_sock'[t] # -1 PROVE Talks(t, accepted[new_sock[t]])'
    <3>1. new_sock[t] \in 1 .. l
      BY <2>1, <2>5, <2>10, EchoAssumption DEF EchoInv, EchoTyped, Handed, Sockets
    <3>2. PICK d \in Clients : d = accepted[new_sock[t]] BY <1>0, <2>1, <3>1, ElementOfSeq DEF EchoTyped
    <3>3. Talks(t, d) BY <2>5, <2>10, <3>2 DEF Rest
    <3>4. Talks(t, d)' BY <2>5, <3>3, TalksKept
    <3>5. accepted'[new_sock'[t]] = d BY <2>3, <2>5, <3>1, <3>2
    <3> QED BY <3>4, <3>5
  <2> QED BY <1>1, <2>7, <2>8, <2>9, <2>10 DEF Rest
<1> QED BY <1>2, <1>3 DEF E!Accept

LEMMA CreateRest ==
  ASSUME EchoInv, TalkTyped, Once, EchoesTyped, EchoesMessages, Rest, E!CreateThread
  PROVE  EchoesMessages' /\ EchoesTyped' /\ Rest'
<1> USE DEF E!peers
<1>0. EchoTyped BY DEF EchoInv
<1>1. EchoesMessages' /\ EchoesTyped'
  <2>1. outbox' = outbox /\ sent' = sent BY DEF E!CreateThread
  <2> QED BY <2>1, SameEnds, EchoesKept
<1>2. Greeted' BY DEF E!CreateThread, Greeted
<1>3. CASE created = MaxThreads BY <1>1, <1>2, <1>3, RestKept DEF E!CreateThread
<1>4. CASE created # MaxThreads
  <2>1. PICK t \in E!Handlers : t = created + 1 BY <1>0, <1>4, EchoAssumption DEF EchoTyped, E!Handlers
  <2>2. /\ UNCHANGED <<peer, inbox, sent, accepted, outbox, client_message, read_size, new_socket>>
        /\ new_sock' = [new_sock EXCEPT ![t] = new_socket] /\ handler' = [handler EXCEPT ![t] = "start"]
    BY <1>4, <2>1 DEF E!CreateThread
  <2>3. ASSUME NEW d \in Clients PROVE Echoed(d)' = Echoed(d) /\ Got(d)' = Got(d) BY <2>2, Same
  <2>4. Streams'
    <3>1. ASSUME NEW d \in Clients
          PROVE  /\ Echoed(d)' \in Nat
                 /\ IF peer'[d] = "reset" THEN inbox'[d] = <<>>
                    ELSE \A k \in 1 .. Len(inbox'[d]) : inbox'[d][k] = Got(d)' + k
      BY <2>2, <2>3 DEF Rest, Streams
    <3> QED BY <3>1 DEF Streams
  <2>5. Unserved'
    <3>1. ASSUME NEW d \in Clients, \A k \in 1 .. Len(accepted') : accepted'[k] # d
          PROVE  Len(outbox'[d]) = 0 /\ peer'[d] # "reset" /\ Got(d)' = 0
      BY <2>2, <2>3, <3>1 DEF Rest, Unserved
    <3> QED BY <3>1 DEF Unserved
  <2>6. ASSUME NEW u \in E!Handlers, new_sock'[u] # -1 PROVE Talks(u, accepted[new_sock[u]])'
    <3>1. CASE u # t
      <4>1. new_sock'[u] = new_sock[u] /\ handler'[u] = handler[u] BY <1>0, <2>2, <3>1 DEF EchoTyped
      <4>2. Talks(u, accepted[new_sock[u]]) BY <2>6, <4>1 DEF Rest
      <4>3. PICK d : d = accepted[new_sock[u]] OBVIOUS
      <4>4. Talks(u, d)' BY <2>2, <4>1, <4>2, <4>3, TalksKept
      <4>5. accepted'[new_sock'[u]] = d BY <2>2, <4>1, <4>3
      <4> QED BY <4>4, <4>5
    <3>2. CASE u = t
      <4>1. new_sock'[u] = new_socket /\ handler'[u] = "start" BY <1>0, <2>2, <3>2 DEF EchoTyped
      <4>2. new_socket # -1 /\ new_socket \in 1 .. Len(accepted)
        BY <1>0, <2>6, <4>1, EchoAssumption, LenProperties DEF E!CreateThread, EchoInv, EchoTyped, Served, Sockets
      <4>3. PICK c \in Clients : c = accepted[new_socket] BY <1>0, <4>2, ElementOfSeq DEF EchoTyped
      <4>4. Len(outbox[c]) = 1 /\ Fresh(c) BY <4>2, <4>3 DEF E!CreateThread, Rest, Greeted
      <4>5. Echoed(c) = 0
        <5>1. Len(outbox[c]) <= 3 BY <4>4
        <5> QED BY <5>1 DEF Echoed, E!LastByte
      <4>6. peer'[c] # "reset" => Got(c)' = Echoed(c)' + 0 BY <2>2, <2>3, <4>4, <4>5 DEF Fresh
      <4>7. Talks(u, c)' BY <2>2, <4>1, <4>4, <4>6 DEF Talks, HoldsBytes
      <4>8. accepted'[new_sock'[u]] = c BY <2>2, <4>1, <4>3
      <4> QED BY <4>7, <4>8
    <3> QED BY <3>1, <3>2
  <2> QED BY <1>1, <1>2, <2>4, <2>5, <2>6 DEF Rest
<1> QED BY <1>3, <1>4

LEMMA SendRest ==
  ASSUME EchoInv, TalkTyped, Once, EchoesTyped, EchoesMessages, Rest, NEW c \in Clients, E!Send(c)
  PROVE  EchoesMessages' /\ EchoesTyped' /\ Rest'
<1> USE DEF E!mains, E!handlers
<1>0. EchoTyped BY DEF EchoInv
<1>1. /\ UNCHANGED <<peer, pending, accepted, outbox, acceptor, new_socket, new_sock, handler,
                     client_message, read_size>>
      /\ inbox' = [inbox EXCEPT ![c] = @ \o E!Message(c, sent[c] + 1)]
      /\ sent' = [sent EXCEPT ![c] = @ + 1] /\ peer[c] = "open"
  BY DEF E!Send
<1>2. PICK m \in Nat : m = sent[c] /\ m < Len(Sends[c]) BY DEF E!Send, TalkTyped
<1>3. sent'[c] = m + 1 /\ inbox'[c] = inbox[c] \o E!Message(c, m + 1) BY <1>1, <1>2 DEF TalkTyped
<1>4. \A d \in Clients \ {c} : sent'[d] = sent[d] /\ inbox'[d] = inbox[d] BY <1>1 DEF TalkTyped
<1>5. PICK from \in Nat : from = E!EndOf(c, m) BY <1>2, EndsRise
<1>6. PICK end \in Nat : end = E!EndOf(c, m + 1) /\ from <= end BY <1>2, <1>5, EndsRise
<1>20. PICK n \in Nat : n = end - from BY <1>5, <1>6
<1>7. PICK text \in Seq(Int) : /\ text = E!Message(c, m + 1) /\ Len(text) = n
                               /\ \A k \in 1 .. n : text[k] = from + k
  BY <1>2, <1>5, <1>6, <1>20, MessageIs
<1>8. PICK old \in Seq(Int) : old = inbox[c] BY DEF TalkTyped
<1>9. PICK l \in Nat : l = Len(old) BY LenProperties
<1>10. PICK all : /\ inbox'[c] = all /\ Len(all) = l + n
                  /\ \A k \in 1 .. l + n : all[k] = IF k <= l THEN old[k] ELSE text[k - l]
  <2>1. inbox'[c] = old \o text BY <1>3, <1>7, <1>8
  <2>2. \A k \in 1 .. Len(old) + Len(text) :
          (old \o text)[k] = IF k <= Len(old) THEN old[k] ELSE text[k - Len(old)]
    BY ConcatProperties
  <2>3. Len(old \o text) = Len(old) + Len(text) BY ConcatProperties
  <2> QED BY <1>7, <1>9, <2>1, <2>2, <2>3
<1>11. Got(c) = from - l /\ Got(c)' = from - l
  <2>1. Got(c) = from - l BY <1>2, <1>5, <1>8, <1>9 DEF Got
  <2>2. E!EndOf(c, sent[c])' = end BY <1>3, <1>6 DEF E!EndOf
  <2>3. Got(c)' = end - (l + n) BY <1>10, <2>2 DEF Got
  <2> QED BY <1>5, <1>6, <1>9, <1>20, <2>1, <2>3
<1>12. ASSUME NEW d \in Clients PROVE Echoed(d)' = Echoed(d)
  BY <1>1 DEF Echoed, E!LastByte
<1>13. ASSUME NEW d \in Clients PROVE Got(d)' = Got(d)
  BY <1>1, <1>4, <1>11, Same
<1>14. ASSUME NEW d \in Clients
       PROVE  /\ E!EndOf(d, sent[d])' \in Int /\ E!EndOf(d, sent[d]) \in Int
              /\ E!EndOf(d, sent[d]) <= E!EndOf(d, sent[d])'
  <2>1. CASE d = c
    <3>1. E!EndOf(d, sent[d])' = end BY <1>3, <1>6, <2>1 DEF E!EndOf
    <3> QED BY <1>2, <1>5, <1>6, <2>1, <3>1
  <2>2. CASE d # c
    <3>1. E!EndOf(d, sent[d])' = E!EndOf(d, sent[d]) BY <1>4, <2>2 DEF E!EndOf
    <3>2. E!EndOf(d, sent[d]) \in Nat BY EndsRise DEF TalkTyped
    <3> QED BY <3>1, <3>2
  <2> QED BY <2>1, <2>2
<1>15. EchoesMessages' /\ EchoesTyped' BY <1>1, <1>14, EchoesKept
<1>16. Streams'
  <2>1. ASSUME NEW d \in Clients
        PROVE  /\ Echoed(d)' \in Nat
               /\ IF peer'[d] = "reset" THEN inbox'[d] = <<>>
                  ELSE \A k \in 1 .. Len(inbox'[d]) : inbox'[d][k] = Got(d)' + k
    <3>1. CASE d # c BY <1>1, <1>4, <1>12, <1>13, <3>1 DEF Rest, Streams
    <3>2. CASE d = c
      <4>1. \A k \in 1 .. l : old[k] = (from - l) + k BY <1>1, <1>8, <1>9, <1>11 DEF Rest, Streams
      <4>2. ASSUME NEW k \in 1 .. l + n PROVE all[k] = (from - l) + k
        <5>0. k \in Nat BY <4>2
        <5>1. CASE k <= l
          <6>1. k \in 1 .. l /\ all[k] = old[k] BY <1>10, <4>2, <5>0, <5>1
          <6> QED BY <4>1, <6>1
        <5>2. CASE k > l
          <6>1. k - l \in 1 .. n BY <4>2, <5>2
          <6>2. all[k] = text[k - l] BY <1>10, <4>2, <5>2
          <6> QED BY <1>7, <5>0, <6>1, <6>2
        <5> QED BY <5>0, <5>1, <5>2
      <4> QED BY <1>1, <1>10, <1>11, <1>12, <3>2, <4>2 DEF Rest, Streams
    <3> QED BY <3>1, <3>2
  <2> QED BY <2>1 DEF Streams
<1>17. Unserved'
  <2>1. ASSUME NEW d \in Clients, \A k \in 1 .. Len(accepted') : accepted'[k] # d
        PROVE  Len(outbox'[d]) = 0 /\ peer'[d] # "reset" /\ Got(d)' = 0
    BY <1>1, <1>13, <2>1 DEF Rest, Unserved
  <2> QED BY <2>1 DEF Unserved
<1>18. Greeted'
  <2>1. SUFFICES ASSUME acceptor \in {"hello", "create"}, new_socket # -1
                 PROVE  /\ Len(outbox[accepted[new_socket]]) = IF acceptor = "hello" THEN 0 ELSE 1
                        /\ Fresh(accepted[new_socket])'
    BY <1>1 DEF Greeted
  <2>2. new_socket \in 1 .. Len(accepted)
    BY <1>0, <2>1, EchoAssumption, LenProperties DEF EchoInv, EchoTyped, Served, Sockets
  <2>3. PICK d \in Clients : d = accepted[new_socket] BY <1>0, <2>2, ElementOfSeq DEF EchoTyped
  <2>4. Fresh(d) BY <2>1, <2>3 DEF Rest, Greeted
  <2>5. Fresh(d)' BY <1>1, <1>13, <2>4 DEF Fresh
  <2> QED BY <1>1, <2>1, <2>3, <2>5 DEF Rest, Greeted
<1>19. ASSUME NEW t \in E!Handlers, new_sock'[t] # -1 PROVE Talks(t, accepted[new_sock[t]])'
  <2>1. new_sock[t] \in 1 .. Len(accepted)
    BY <1>1, <1>19, EchoAssumption, LenProperties DEF EchoInv, EchoTyped, Handed, Sockets
  <2>2. PICK d \in Clients : d = accepted[new_sock[t]] BY <1>0, <2>1, ElementOfSeq DEF EchoTyped
  <2>3. Talks(t, d) BY <1>1, <1>19, <2>2 DEF Rest
  <2>4. Echoed(d)' = Echoed(d) /\ Got(d)' = Got(d) BY <1>12, <1>13
  <2>5. HoldsBytes(t, d)'
    <3>1. SUFFICES ASSUME handler[t] = "echo"
                   PROVE  /\ client_message[t] \in [1 .. Size -> Int] /\ read_size[t] >= 1
                          /\ \A k \in 1 .. read_size[t] : client_message[t][k] = Echoed(d) + k
                          /\ Echoed(d) + read_size[t] <= E!EndOf(d, sent[d])'
      BY <1>1, <2>4 DEF HoldsBytes
    <3>2. PICK r \in Nat : r = read_size[t] BY EchoAssumption DEF TalkTyped
    <3>3. PICK e \in Nat : e = Echoed(d) BY DEF Rest, Streams
    <3>4. e + r <= E!EndOf(d, sent[d]) BY <2>3, <3>1, <3>2, <3>3 DEF Talks, HoldsBytes
    <3>5. e + r <= E!EndOf(d, sent[d])' BY <1>14, <3>4
    <3> QED BY <2>3, <3>1, <3>2, <3>3, <3>5 DEF Talks, HoldsBytes
  <2>6. Talks(t, d)' BY <1>1, <2>3, <2>4, <2>5 DEF Talks
  <2>7. accepted'[new_sock'[t]] = d BY <1>1, <2>2
  <2> QED BY <2>6, <2>7
<1> QED BY <1>15, <1>16, <1>17, <1>18, <1>19 DEF Rest

LEMMA RecvRest ==
  ASSUME EchoInv, TalkTyped, Once, EchoesTyped, EchoesMessages, Rest, NEW t \in E!Handlers, E!Recv(t)
  PROVE  EchoesMessages' /\ EchoesTyped' /\ Rest'
<1> USE DEF E!mains, E!Goes
<1>0. EchoTyped BY DEF EchoInv
<1>1. /\ UNCHANGED <<peer, pending, sent, accepted, outbox, acceptor, new_socket, new_sock>>
      /\ handler[t] = "recv" /\ handler' = [handler EXCEPT ![t] = "echo"]
  BY DEF E!Recv
<1>2. PICK c \in Clients : \E n \in 1 .. Size : \E m \in [1 .. Size -> Int] :
        /\ sock[t] \in 1 .. Len(accepted) /\ c = accepted[sock[t]] /\ n <= Len(inbox[c])
        /\ \A k \in 1 .. n : m[k] = inbox[c][k]
        /\ client_message' = [client_message EXCEPT ![t] = m]
        /\ read_size' = [read_size EXCEPT ![t] = n]
        /\ inbox' = [inbox EXCEPT ![c] = SubSeq(@, n + 1, Len(@))]
        /\ Len(SubSeq(inbox[c], n + 1, Len(inbox[c]))) = Len(inbox[c]) - n
        /\ \A k \in 1 .. Len(inbox[c]) - n :
             SubSeq(inbox[c], n + 1, Len(inbox[c]))[k] = inbox[c][n + k]
  BY RecvTyped
<1>3. PICK n \in 1 .. Size : \E m \in [1 .. Size -> Int] :
        /\ sock[t] \in 1 .. Len(accepted) /\ c = accepted[sock[t]] /\ n <= Len(inbox[c])
        /\ \A k \in 1 .. n : m[k] = inbox[c][k]
        /\ client_message' = [client_message EXCEPT ![t] = m]
        /\ read_size' = [read_size EXCEPT ![t] = n]
        /\ inbox' = [inbox EXCEPT ![c] = SubSeq(@, n + 1, Len(@))]
        /\ Len(SubSeq(inbox[c], n + 1, Len(inbox[c]))) = Len(inbox[c]) - n
        /\ \A k \in 1 .. Len(inbox[c]) - n :
             SubSeq(inbox[c], n + 1, Len(inbox[c]))[k] = inbox[c][n + k]
  BY <1>2
<1>4. PICK m \in [1 .. Size -> Int] :
        /\ sock[t] \in 1 .. Len(accepted) /\ c = accepted[sock[t]] /\ n <= Len(inbox[c])
        /\ \A k \in 1 .. n : m[k] = inbox[c][k]
        /\ client_message' = [client_message EXCEPT ![t] = m]
        /\ read_size' = [read_size EXCEPT ![t] = n]
        /\ inbox' = [inbox EXCEPT ![c] = SubSeq(@, n + 1, Len(@))]
        /\ Len(SubSeq(inbox[c], n + 1, Len(inbox[c]))) = Len(inbox[c]) - n
        /\ \A k \in 1 .. Len(inbox[c]) - n :
             SubSeq(inbox[c], n + 1, Len(inbox[c]))[k] = inbox[c][n + k]
  BY <1>3
<1>5. PICK l \in Nat : l = Len(inbox[c]) /\ n <= l BY <1>4, LenProperties DEF TalkTyped
<1>6. n \in Nat /\ n >= 1 BY EchoAssumption
<1>7. /\ Len(inbox'[c]) = l - n /\ \A k \in 1 .. l - n : inbox'[c][k] = inbox[c][n + k]
      /\ \A d \in Clients \ {c} : inbox'[d] = inbox[d]
  BY <1>4, <1>5 DEF TalkTyped
<1>8. sock[t] = new_sock[t] BY <1>1, HandlerSocket
<1>9. PICK from \in Nat : from = Echoed(c) BY DEF Rest, Streams
<1>10. PICK end \in Nat : end = E!EndOf(c, sent[c]) BY EndsRise DEF TalkTyped
<1>11. Got(c) = end - l /\ Got(c)' = (end - l) + n
  <2>1. E!EndOf(c, sent[c])' = end BY <1>1, <1>10 DEF E!EndOf
  <2>2. Got(c)' = end - (l - n) BY <1>7, <2>1 DEF Got
  <2> QED BY <1>5, <1>6, <1>10, <2>2 DEF Got
<1>12. /\ peer[c] # "reset" /\ Len(outbox[c]) >= 3 /\ end - l = from
       /\ \A k \in 1 .. l : inbox[c][k] = from + k
  <2>1. peer[c] # "reset"
    <3>1. Len(inbox[c]) # 0 BY <1>5, <1>6
    <3>2. inbox[c] # <<>> BY <3>1
    <3> QED BY <3>2 DEF Rest, Streams
  <2>2. new_sock[t] # -1 BY <1>0, <1>4, <1>8, LenProperties DEF EchoTyped
  <2>3. Talks(t, c) BY <1>4, <1>8, <2>2 DEF Rest
  <2>4. Len(outbox[c]) >= 3 /\ Got(c) = from + 0 BY <1>1, <1>9, <2>1, <2>3 DEF Talks
  <2>5. \A k \in 1 .. l : inbox[c][k] = Got(c) + k BY <1>5, <2>1 DEF Rest, Streams
  <2> QED BY <1>11, <2>1, <2>4, <2>5
<1>13. ASSUME NEW d \in Clients PROVE Echoed(d)' = Echoed(d)
  BY <1>1 DEF Echoed, E!LastByte
<1>14. ASSUME NEW d \in Clients, d # c PROVE Got(d)' = Got(d)
  BY <1>1, <1>7, <1>14, Same
<1>15. EchoesMessages' /\ EchoesTyped' BY <1>1, SameEnds, EchoesKept
<1>16. Streams'
  <2>1. ASSUME NEW d \in Clients
        PROVE  /\ Echoed(d)' \in Nat
               /\ IF peer'[d] = "reset" THEN inbox'[d] = <<>>
                  ELSE \A k \in 1 .. Len(inbox'[d]) : inbox'[d][k] = Got(d)' + k
    <3>1. CASE d # c BY <1>1, <1>7, <1>13, <1>14, <3>1 DEF Rest, Streams
    <3>2. CASE d = c
      <4>1. ASSUME NEW k \in 1 .. l - n PROVE inbox'[c][k] = ((end - l) + n) + k
        <5>1. k \in Nat /\ n + k \in 1 .. l BY <1>5, <1>6, <4>1
        <5>2. inbox'[c][k] = from + (n + k) BY <1>7, <1>12, <5>1
        <5> QED BY <1>6, <1>12, <5>1, <5>2
      <4> QED BY <1>1, <1>7, <1>9, <1>11, <1>12, <1>13, <3>2, <4>1
    <3> QED BY <3>1, <3>2
  <2> QED BY <2>1 DEF Streams
<1>17. Unserved'
  <2>1. ASSUME NEW d \in Clients, \A k \in 1 .. Len(accepted') : accepted'[k] # d
        PROVE  Len(outbox'[d]) = 0 /\ peer'[d] # "reset" /\ Got(d)' = 0
    <3>1. d # c BY <1>1, <1>4, <2>1
    <3> QED BY <1>1, <1>14, <2>1, <3>1 DEF Rest, Unserved
  <2> QED BY <2>1 DEF Unserved
<1>18. Greeted'
  <2>1. SUFFICES ASSUME acceptor \in {"hello", "create"}, new_socket # -1
                 PROVE  /\ Len(outbox[accepted[new_socket]]) = IF acceptor = "hello" THEN 0 ELSE 1
                        /\ Fresh(accepted[new_socket])'
    BY <1>1 DEF Greeted
  <2>2. new_socket \in 1 .. Len(accepted) /\ new_socket # new_sock[t]
    BY <1>0, <2>1, EchoAssumption, LenProperties DEF EchoInv, EchoTyped, Served, Sockets
  <2>3. PICK d \in Clients : d = accepted[new_socket] BY <1>0, <2>2, ElementOfSeq DEF EchoTyped
  <2>4. d # c BY <1>4, <1>8, <2>2, <2>3 DEF Once
  <2>5. Fresh(d) BY <2>1, <2>3 DEF Rest, Greeted
  <2>6. Fresh(d)' BY <1>1, <1>14, <2>4, <2>5 DEF Fresh
  <2> QED BY <1>1, <2>1, <2>3, <2>6 DEF Rest, Greeted
<1>19. ASSUME NEW u \in E!Handlers, new_sock'[u] # -1 PROVE Talks(u, accepted[new_sock[u]])'
  <2>1. new_sock[u] \in 1 .. Len(accepted)
    BY <1>1, <1>19, EchoAssumption, LenProperties DEF EchoInv, EchoTyped, Handed, Sockets
  <2>2. PICK d \in Clients : d = accepted[new_sock[u]] BY <1>0, <2>1, ElementOfSeq DEF EchoTyped
  <2>3. accepted'[new_sock'[u]] = d BY <1>1, <2>2
  <2>4. CASE u # t
    <3>1. new_sock[u] # new_sock[t] BY <1>1, <1>19, <2>4 DEF EchoInv, Served
    <3>2. d # c BY <1>4, <1>8, <2>1, <2>2, <3>1 DEF Once
    <3>3. handler'[u] = handler[u] /\ client_message'[u] = client_message[u] /\ read_size'[u] = read_size[u]
      BY <1>0, <1>1, <1>4, <2>4 DEF EchoTyped, TalkTyped
    <3>4. Talks(u, d) BY <1>1, <1>19, <2>2 DEF Rest
    <3>5. Talks(u, d)' BY <1>1, <1>7, <3>2, <3>3, <3>4, TalksKept
    <3> QED BY <2>3, <3>5
  <2>5. CASE u = t
    <3>1. d = c BY <1>4, <1>8, <2>2, <2>5
    <3>2. handler'[t] = "echo" /\ client_message'[t] = m /\ read_size'[t] = n
      BY <1>0, <1>1, <1>4 DEF EchoTyped, TalkTyped
    <3>3. E!EndOf(c, sent[c])' = end BY <1>1, <1>10 DEF E!EndOf
    <3>4. \A k \in 1 .. n : k \in 1 .. l BY <1>5, <1>6
    <3>5. \A k \in 1 .. n : m[k] = from + k BY <1>4, <1>12, <3>4
    <3>6. from + n <= end BY <1>5, <1>6, <1>12
    <3>7. HoldsBytes(t, c)' BY <1>6, <1>9, <1>13, <3>2, <3>3, <3>5, <3>6 DEF HoldsBytes
    <3>8. Got(c)' = Echoed(c)' + n BY <1>9, <1>11, <1>12, <1>13
    <3>9. Talks(t, c)' BY <1>1, <1>12, <3>2, <3>7, <3>8 DEF Talks
    <3> QED BY <2>3, <2>5, <3>1, <3>9
  <2> QED BY <2>4, <2>5
<1> QED BY <1>15, <1>16, <1>17, <1>18, <1>19 DEF Rest

LEMMA RestStep ==
  ASSUME EchoInv, TalkTyped, TalkKnown, Once, EchoesTyped, EchoesMessages,
         acceptor # "killed" => Rest, [E!Next]_echov
  PROVE  EchoesMessages' /\ EchoesTyped' /\ (acceptor' # "killed" => Rest')
<1> USE DEF E!peers, E!mains, E!handlers, E!Goes
<1>0. EchoTyped BY DEF EchoInv
<1>1. CASE UNCHANGED echov
  <2>1. EchoesMessages' /\ EchoesTyped'
    <3>1. outbox' = outbox /\ sent' = sent BY <1>1 DEF echov
    <3> QED BY <3>1, SameEnds, EchoesKept
  <2>2. ASSUME acceptor' # "killed" PROVE Rest'
    <3>1. Rest BY <1>1, <2>2 DEF echov
    <3>2. Greeted' BY <1>1, <3>1 DEF echov, Rest, Greeted, Fresh, Got, E!EndOf
    <3> QED BY <1>1, <3>1, <3>2, RestKept DEF echov
  <2> QED BY <2>1, <2>2
<1>2. CASE E!Next
  <2>1. Rest BY <1>2 DEF E!Next
  <2>2. ASSUME NEW c \in Clients, E!Connect(c) \/ E!Leave(c)
        PROVE  EchoesMessages' /\ EchoesTyped' /\ Rest'
    <3>1. UNCHANGED <<inbox, sent, accepted, outbox, acceptor, new_socket, new_sock, handler,
                      client_message, read_size>>
      BY <2>2 DEF E!Connect, E!Leave
    <3>2. EchoesMessages' /\ EchoesTyped' BY <3>1, SameEnds, EchoesKept
    <3>3. \A d \in Clients : peer'[d] = "reset" <=> peer[d] = "reset"
      BY <2>2 DEF E!Connect, E!Leave, TalkTyped
    <3>4. Greeted'
      <4>1. SUFFICES ASSUME acceptor \in {"hello", "create"}, new_socket # -1
                     PROVE  /\ Len(outbox[accepted[new_socket]]) = IF acceptor = "hello" THEN 0 ELSE 1
                            /\ Fresh(accepted[new_socket])'
        BY <3>1 DEF Greeted
      <4>2. new_socket \in 1 .. Len(accepted)
        BY <1>0, <4>1, EchoAssumption, LenProperties DEF EchoInv, EchoTyped, Served, Sockets
      <4>3. PICK d \in Clients : d = accepted[new_socket] BY <1>0, <4>2, ElementOfSeq DEF EchoTyped
      <4>4. Fresh(d) BY <2>1, <4>1, <4>3 DEF Rest, Greeted
      <4>5. Fresh(d)' BY <3>1, <3>3, <4>4 DEF Fresh, Got, E!EndOf
      <4> QED BY <2>1, <3>1, <4>1, <4>3, <4>5 DEF Rest, Greeted
    <3> QED BY <2>1, <3>1, <3>2, <3>3, <3>4, RestKept
  <2>3. ASSUME NEW t \in E!Handlers, E!Start(t) \/ E!RecvEnds(t)
        PROVE  EchoesMessages' /\ EchoesTyped' /\ Rest'
    <3>1. UNCHANGED <<peer, inbox, sent, accepted, outbox, acceptor, new_socket, new_sock,
                      client_message, read_size>>
      BY <2>3 DEF E!Start, E!RecvEnds
    <3>2. EchoesMessages' /\ EchoesTyped' BY <3>1, SameEnds, EchoesKept
    <3>3. Greeted' BY <2>1, <3>1 DEF Rest, Greeted, Fresh, Got, E!EndOf
    <3>4. \A u \in E!Handlers : \/ handler'[u] = handler[u]
                                \/ handler[u] = "start" /\ handler'[u] = "greet"
                                \/ handler[u] = "recv" /\ handler'[u] = "ended"
      BY <1>0, <2>3 DEF E!Start, E!RecvEnds, EchoTyped
    <3> QED BY <2>1, <3>1, <3>2, <3>3, <3>4, RestKept
  <2>4. ASSUME NEW t \in E!Handlers, E!connection_handler2(t)
        PROVE  EchoesMessages' /\ EchoesTyped' /\ (acceptor' # "killed" => Rest')
    BY <2>1, <2>3, <2>4, EchoRest, RecvRest DEF E!connection_handler2
  <2>5. ASSUME NEW c \in Clients, E!Send(c) PROVE EchoesMessages' /\ EchoesTyped' /\ Rest'
    BY <2>1, <2>5, SendRest
  <2>6. CASE E!Main BY <2>1, <2>6, AcceptRest, HelloRest, CreateRest DEF E!Main
  <2> QED BY <1>2, <2>2, <2>4, <2>5, <2>6 DEF E!Next
<1> QED BY <1>1, <1>2

LEMMA TalkInit == ASSUME E!Init PROVE TalkInv
<1> USE DEF E!Init
<1>1. /\ <<>> \in Seq(Int) /\ <<>> \in Seq(Said) /\ Len(<<>>) = 0
      /\ \A c \in Clients : Len(Sends[c]) \in Nat
  BY EchoAssumption, LenProperties
<1>2. TalkTyped
  <2>1. 0 \in 0 .. Size BY EchoAssumption
  <2> QED BY <1>1, <2>1 DEF TalkTyped
<1>3. \A c \in Clients : /\ outbox[c] = <<>> /\ inbox[c] = <<>> /\ peer[c] = "idle"
                         /\ Echoed(c) = 0 /\ Got(c) = 0
  BY <1>1 DEF Echoed, Got, E!LastByte, E!EndOf
<1>4. Once /\ TalkKnown BY <1>1 DEF Once, TalkKnown
<1>5. EchoesMessages /\ EchoesTyped BY <1>3 DEF EchoesMessages, E!EchoesMessages, EchoesTyped
<1>6. Rest BY <1>1, <1>3 DEF Rest, Streams, Unserved, Greeted
<1> QED BY <1>2, <1>4, <1>5, <1>6 DEF TalkInv

LEMMA TalkAlways == AnyFairSpec => []TalkInv
<1>1. AnyInit => TalkInv BY TalkInit DEF AnyInit
<1>2. EchoInv /\ TalkInv /\ [AnyNext]_allv => TalkInv'
  <2>1. SUFFICES ASSUME EchoInv, TalkInv, [E!Next]_echov PROVE TalkInv' BY EachProgram
  <2>2. TalkTyped' BY <2>1, TalkTypedStep DEF TalkInv
  <2>3. Once' BY <2>1, OnceStep DEF TalkInv
  <2>4. TalkKnown' BY <2>1, TalkKnownStep DEF TalkInv
  <2>5. EchoesMessages' /\ EchoesTyped' /\ (acceptor' # "killed" => Rest')
    BY <2>1, RestStep DEF TalkInv
  <2> QED BY <2>2, <2>3, <2>4, <2>5 DEF TalkInv
<1> QED BY <1>1, <1>2, EchoAlways, PTL DEF AnyFairSpec

(* Whatever the clients send, in whatever order the connections are served *)
(* and whoever leaves meanwhile, a client hears the greetings, and then    *)
(* every write begins with the bytes one recv took, these beginnings being *)
(* the bytes it sent, each once and in order, for any number of clients and*)
(* messages and any size of the buffer.  What may follow them in a write   *)
(* is left over in the buffer: RepeatsWhatWasTyped does not hold.          *)
THEOREM BytesComeBack == AnyFairSpec => []EchoesMessages
<1>1. TalkInv => EchoesMessages BY DEF TalkInv
<1> QED BY <1>1, TalkAlways, PTL
=============================================================================
