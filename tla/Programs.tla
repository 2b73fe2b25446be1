----------------------------- MODULE Programs -----------------------------
(***************************************************************************)
(* The smaller programs side by side: a behaviour is one of a single       *)
(* program, chosen at the start.  CondVar is extended, every other module  *)
(* has an instance; the names of CondVar's own are without a prefix.       *)
(***************************************************************************)
EXTENDS CondVar, Sequences

CONSTANTS
  Kinds, Workers, DEFAULT_BUFFER_SIZE, Elements, Passes,              \* Pipelines
  TCOUNT, COUNT_LIMIT, Bonus,                                         \* CountWatch
  NUMTHRDS, VECLEN,                                                   \* DotProduct
  Clients, Lines, Wrong,                                              \* AddServer
  Sends, MaxFds, MaxThreads, Size,                                    \* EchoServer
  Packages, Requires, Unknown, Essential, Commands,                   \* AptCyg
  Runs, Interrupts, Outages

VARIABLES
  program,
  kind, queue, writers, readers, main, at, worker, got, handled, result, printed, passes,
  count, count_mutex, step, i, woken, joined,
  sum, mutexsum, mysum, loaded, place, progress, output,
  requests, server_writers, server, buf, reply, reply_writer, reply_readers,
  client, line, answers, missed,
  peer, pending, inbox, sent, accepted, outbox, acceptor, new_socket, created,
  new_sock, handler, sock, client_message, read_size,
  installed_db, manifests, unpacked, postinstall, stack,
  runs, interrupts, outages, ended, broken

N == INSTANCE Pipelines
W == INSTANCE CountWatch
D == INSTANCE DotProduct
A == INSTANCE AddServer
E == INSTANCE EchoServer
G == INSTANCE AptCyg

(* A ring or a pipeline has a thread, a processor a buffer.                *)
ASSUME PipelinesAssumption ==
  /\ Kinds \subseteq {"chain", "sink", "parallel", "ring"}
  /\ Workers \in Nat \ {0} /\ DEFAULT_BUFFER_SIZE \in Nat \ {0}
  /\ Elements \in Nat /\ Passes \subseteq Nat

(* What the watcher adds reaches the limit at once, as 125 does 12.        *)
ASSUME CountWatchAssumption ==
  TCOUNT \in Nat \ {0} /\ COUNT_LIMIT \in Nat /\ Bonus \in Nat /\ COUNT_LIMIT <= Bonus

ASSUME AddAssumption == Lines \in Nat

ASSUME EchoAssumption ==
  /\ MaxFds \in Nat /\ MaxThreads \in Nat /\ Size \in Nat
  /\ Sends \in [Clients -> Seq(Nat)]
  /\ \A c \in Clients : \A m \in DOMAIN Sends[c] : E!EndOf(c, m - 1) <= Sends[c][m]

ASSUME DotAssumption == NUMTHRDS \in Nat /\ VECLEN \in Nat

ASSUME AptAssumption ==
  /\ G!Gone \notin SUBSET Packages
  /\ Requires \in [Packages -> Seq(Packages)]
  /\ Commands \subseteq
       [op : {"install", "remove"}, targets : Seq(Packages), nodeps : BOOLEAN]

Is(name) == program = name
netv == <<kind, queue, writers, readers, main, at, worker, got, handled, result, printed, passes>>
watchv == <<count, count_mutex, step, i, woken, joined>>
dotv == <<sum, mutexsum, mysum, loaded, place, progress, output>>
addv == <<requests, server_writers, server, buf, reply, reply_writer, reply_readers,
          client, line, answers, missed>>
echov == <<peer, pending, inbox, sent, accepted, outbox, acceptor, new_socket, created,
           new_sock, handler, sock, client_message, read_size>>
aptv == <<installed_db, manifests, unpacked, postinstall, stack,
          runs, interrupts, outages, ended, broken>>
allv == <<program, netv, vars, watchv, dotv, addv, echov, aptv>>

AnyInit ==
  /\ program \in {"pipelines", "condvar", "watch", "dot", "add", "echo", "apt"}
  /\ N!Init /\ (~Is("pipelines") => kind = "sink")
  /\ Init /\ W!Init /\ D!Init /\ A!Init /\ E!Init /\ G!Init

AnyNext ==
  /\ UNCHANGED program
  /\ \/ Is("pipelines") /\ N!Next /\ UNCHANGED <<vars, watchv, dotv, addv, echov, aptv>>
     \/ Is("condvar") /\ Next /\ UNCHANGED <<netv, watchv, dotv, addv, echov, aptv>>
     \/ Is("watch") /\ W!Next /\ UNCHANGED <<netv, vars, dotv, addv, echov, aptv>>
     \/ Is("dot") /\ D!Next /\ UNCHANGED <<netv, vars, watchv, addv, echov, aptv>>
     \/ Is("add") /\ A!Next /\ UNCHANGED <<netv, vars, watchv, dotv, echov, aptv>>
     \/ Is("echo") /\ E!Next /\ UNCHANGED <<netv, vars, watchv, dotv, addv, aptv>>
     \/ Is("apt") /\ G!Next /\ UNCHANGED <<netv, vars, watchv, dotv, addv, echov>>

(* The threads of a pipeline and of using-condition-variables.c run, and   *)
(* pthread_mutex_lock returns: the mutex is held for a few steps only, and *)
(* no thread takes it more than TCOUNT times.                              *)
AnyFairSpec ==
  /\ AnyInit /\ [][AnyNext]_allv
  /\ WF_netv(Is("pipelines") /\ N!Main)
  /\ \A t \in N!Workerset : WF_netv(Is("pipelines") /\ N!Worker(t))
  /\ WF_watchv(Is("watch") /\ W!Join)
  /\ \A t \in W!ThreadIds : WF_watchv(Is("watch") /\ W!Thread(t))

-----------------------------------------------------------------------------
(* The types of every program's variables.                                 *)
TypesOK ==
  /\ N!TypeOK /\ TypeOK /\ W!TypeOK /\ D!TypeOK /\ A!TypeOK /\ E!TypeOK /\ G!TypeOK

(* A pipeline gives its caller what it was given, a chain in order: nothing*)
(* is lost at the end of a pipe, where a processor may hold part of a      *)
(* buffer, and no processor of a chain has ended with less than everything.*)
ResultComplete == N!ResultComplete

(* A thread that has ended holds nothing, one that has not holds both its  *)
(* handles; when all of a pipeline is over no handle of any pipe is left.  *)
HandlesFreed == N!HandlesFreed

(* Thread (N mod THREADS) + 1, and no other, prints its number, and the    *)
(* process does not end before.                                            *)
RingAnswer == N!RingAnswer

(* Once a pipe has lost its last handle of one kind it never gets another: *)
(* what main still has to issue is issued while its pipe_t holds both      *)
(* kinds, whatever the threads already running do meanwhile.               *)
EndsAreFinal == N!EndsAreFinal

(* No increment is lost, and the watcher, which may begin before, between  *)
(* or after the increments and may be woken for no reason, adds its 125 at *)
(* most once.                                                              *)
CountExact == W!CountExact

(* Whatever order the threads run in, the sum that is printed has the      *)
(* product of every index once: no slice is missing, none is added twice,  *)
(* and main does not print before the last of them is in.                  *)
PrintedSumComplete == D!PrintedSumComplete

(* The sums a client prints are sums of its own requests, of each at most  *)
(* once and in the order it sent them: requests that the server reads at   *)
(* once are refused, never added up.                                       *)
SumsOwn == A!SumsOwn

(* As long as no read of a client has found its FIFO closed, the server is *)
(* there and what a client reads after a request is the one answer to it.  *)
(* (A client that opens its FIFO before the server has closed it after the *)
(* answer before reads nothing, and then the answer to an earlier request, *)
(* or it ends the server by closing its FIFO.)                             *)
InStep == A!InStep

(* However fast main accepts the next connection, no two handlers serve the*)
(* same one, and one that is accepted has a handler for as long as threads *)
(* can be created.                                                         *)
HandlersApart == E!HandlersApart

(* Main's hello comes first, then the handler's greetings, and then every  *)
(* write begins with all the bytes that one recv took, each byte a client  *)
(* sent once and in order.                                                 *)
EchoesMessages == E!EchoesMessages

(* Packages that require each other do not install each other for ever:    *)
(* no two processes of the stack are at work on the same package.          *)
NoPackageTwice == G!NoPackageTwice

(* Whatever is in the database is in place and can be removed again,       *)
(* wherever a command was interrupted, unless it was a removal, and unless *)
(* tar failed.                                                             *)
DatabaseTrue == G!DatabaseTrue

(* An install that has no failure leaves its targets in a database that    *)
(* has everything its packages require, if it found one like that.         *)
StaysClosed == G!StaysClosed

(* When an install with a new target is through, the scripts of everything *)
(* it installed on the way have run, though the processes started for what *)
(* the targets require run none.                                           *)
AllScriptsRun == G!AllScriptsRun


(* "if COUNT_LIMIT is reached before this routine is run by the waiting    *)
(* thread, the loop will be skipped to prevent pthread_cond_wait from      *)
(* never returning" (line 52): every thread ends and main joins them all.  *)
AllJoined == Is("watch") => W!AllJoined
============================================================================
