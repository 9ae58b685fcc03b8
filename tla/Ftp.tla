---------------------------------- MODULE Ftp ----------------------------------
(***************************************************************************)
(* The FTP library: the queue thread executes commands of several clients  *)
(* on their sessions, and every LIST, RETR and STOR runs a thread of its   *)
(* own (SendData, RecvData), which keeps a pointer to the session, which   *)
(* may be erased meanwhile.  The passive socket of a session, the control  *)
(* connections and the data connections are numbers in one table of        *)
(* descriptors, closed by number on three kinds of threads.                *)
(*                                                                         *)
(* Sessions are nodes of a map: an erased node keeps its contents until the *)
(* next session is made in it.  A client connects to a listening socket at *)
(* the accept of a thread.  What a transfer moves is all, some or nothing. *)
(* A command is served when it is sent (module Connections is about the    *)
(* queue), with its argument: none is malformed.                           *)
(***************************************************************************)
EXTENDS FtpSession, FiniteSetsExt

CONSTANTS
  MaxClients,    \* bound: clients there are
  MaxFd,         \* bound: the highest descriptor there is for them
  MaxTransfers,  \* bound: LIST, RETR and STOR that get to a thread
  Behaviours     \* what clients do: [plan : for each client, the commands it may
                 \* send first, second and so on, with their arguments,
                 \* leave : the clients that may hang up], held : the descriptors
                 \* the process has besides, its standard input among them, and
                 \* files : the tree there is at first

\* What may be sent: PORT and the commands without one have no argument to tell apart.
Arguments == {a \in [to : {"abs", "self", "up", "name"}, path : Path] :
                a.to = "name" => a.path # <<>>}
Commands ==
  [is : {"user"}, name : STRING] \union [is : {"pass"}, known : BOOLEAN]
  \union [is : {"noop", "type", "cdup", "port", "pasv", "list", "quit"}]
  \union [is : {"cwd"}, arg : Arguments]
  \union [is : {"mkd", "remove", "retr", "stor"},
          arg : {a \in Arguments : a.to \in {"abs", "name"}}]

ASSUME FtpBounds == {MaxClients, MaxFd, MaxTransfers} \subseteq Nat

\* Descriptor 0 is taken, as Daemonize leaves it.
ASSUME BehavioursAssumption ==
  \A b \in Behaviours :
    /\ b.plan \in Seq(Seq(SUBSET Commands)) /\ Len(b.plan) <= MaxClients
    /\ b.held \subseteq 0 .. MaxFd /\ 0 \in b.held
    /\ Grown(b.files)

Clients   == 1 .. MaxClients
Nodes     == 1 .. MaxClients
FDs       == 0 .. MaxFd
Transfers == 1 .. MaxTransfers
None      == 0               \* no client, node or reply
Bad       == -1              \* what a failed call returns for a descriptor

VARIABLES
  offered,   \* what the clients of this behaviour do
  fds,       \* the process's descriptors: what each number stands for
  ctl,       \* ctl[c]: the number of the control connection c was accepted on
  pending,   \* clients whose Socket is queued for CloseAllPendingSockets
  gone,      \* clients that have closed their end
  commands,  \* commands client c has sent
  nodes,     \* the memory of sessionData's nodes
  nodeOf,    \* sessionData: the node of client c's session
  reply,     \* the last reply the queue thread sent client c
  pasv,      \* the client whose PASV is between its close and its socket
  formatted, \* whose address the queue thread's inet_ntoa wrote last
  tree,      \* the files
  transfer,  \* the transfer threads
  crashed,   \* the process has died
  hit,       \* history: what was closed by someone who meant something else
  reached,   \* history: reached[t] are the clients transfer t moved data with
  marks      \* history: what has happened that the properties have to except

serverVars  == <<fds, ctl, pending>>
clientVars  == <<gone, commands>>
sessionVars == <<nodes, nodeOf, reply, pasv, formatted, tree>>
historyVars == <<hit, reached, marks>>
vars == <<offered, serverVars, clientVars, sessionVars, transfer, crashed, historyVars>>

Marks == {"left", "quit", "pasv", "pasvAgain", "passiveDone", "address", "reused", "full",
          "removed", "refused"}

\* What a number stands for.
Free       == [kind |-> "free", of |-> None]
Std        == [kind |-> "std", of |-> None]
Control(c) == [kind |-> "control", of |-> c]
Listen(c)  == [kind |-> "listen", of |-> c]       \* announced to client c
Data(t)    == [kind |-> "data", of |-> t]         \* opened by transfer t
Objects == {Free, Std} \union {Control(c) : c \in Clients} \union {Listen(c) : c \in Clients}
           \union {Data(t) : t \in Transfers}

\* The thread's variables; `peer' is who is at the other end of its connection,
\* `got' what it has moved, `final' its last reply, `own' whether that reply
\* went to its client.
NoTransfer == [pc |-> "none", client |-> None, node |-> None, send |-> FALSE, file |-> <<>>,
               passive |-> FALSE, conn |-> Bad, closed |-> 0, peer |-> None, got |-> "unknown",
               opened |-> TRUE, empty |-> FALSE, final |-> None, own |-> TRUE]

Running(t) == transfer[t].pc \notin {"none", "done"}

Connected  == {c \in Clients : ctl[c] # Bad}
FreeNumber == {n \in FDs : fds[n] = Free}
Lowest     == IF FreeNumber = {} THEN Bad ELSE Min(FreeNumber)

Init ==
  /\ offered \in Behaviours
  /\ fds = [n \in FDs |-> IF n \in offered.held THEN Std ELSE Free]
  /\ ctl = [c \in Clients |-> Bad] /\ pending = {} /\ gone = {}
  /\ commands = [c \in Clients |-> 0] /\ reply = [c \in Clients |-> None]
  /\ nodes = [n \in Nodes |-> NewSession] /\ nodeOf = [c \in Clients |-> None]
  /\ pasv = None /\ formatted = None /\ crashed = FALSE
  /\ tree = offered.files
  /\ transfer = [t \in Transfers |-> NoTransfer]
  /\ hit = {} /\ reached = [t \in Transfers |-> {}] /\ marks = {}

-----------------------------------------------------------------------------
(* Numbers. *)

Open(n, object) == fds' = IF n = Bad THEN fds ELSE [fds EXCEPT ![n] = object]

\* close(n): whoever has the number; the result is what close returns.
Closed(n) == IF n \in FDs THEN [fds EXCEPT ![n] = Free] ELSE fds
CloseResult(n) == IF n \in FDs /\ fds[n] # Free THEN 0 ELSE Bad

\* `own' are the things the closer may mean; another one it has hit.
CloseNumber(n, own) ==
  /\ fds' = Closed(n)
  /\ hit' = IF n \in FDs THEN hit \union ({fds[n]} \ ({Free, Std} \union own)) ELSE hit

Mark(new) == marks' = marks \union new

\* inet_ntoa returns a buffer of its thread, so that every address in a session
\* reads as the one the queue thread formatted last; `marks' notes a change that
\* another session with an address, or a thread about to use one, will read.
Format(c) == formatted' = c
Misread(c) ==
  IF \/ \E d \in Clients \ {c} : nodeOf[d] # None /\ nodes[nodeOf[d]].address
     \/ \E t \in Transfers : transfer[t].pc \in {"begin", "connect"}
  THEN {"address"} ELSE {}

\* A session is made in memory that a thread still takes for its own session.
Reused(n) == IF \E t \in Transfers : Running(t) /\ transfer[t].node = n THEN {"reused"} ELSE {}

-----------------------------------------------------------------------------
(* Clients come and leave; the main thread closes what is pending. *)

\* The main thread: the lowest free number.
Accept(c) ==
  /\ c \notin Connected /\ c \in DOMAIN offered.plan /\ \A d \in 1 .. (c - 1) : d \in Connected
  /\ Lowest # Bad /\ Open(Lowest, Control(c))
  /\ ctl' = [ctl EXCEPT ![c] = Lowest]
  /\ UNCHANGED <<pending, clientVars, sessionVars, transfer, crashed, historyVars>>

\* processConnect: a greeting, and a session.
OnConnect(c) ==
  /\ c \in Connected /\ reply[c] = None /\ pasv = None
  /\ \E n \in Nodes \ Range(nodeOf) :
       /\ nodes' = [nodes EXCEPT ![n] = NewSession] /\ nodeOf' = [nodeOf EXCEPT ![c] = n]
       /\ Mark(Misread(c) \union Reused(n))
  /\ reply' = [reply EXCEPT ![c] = 220]
  /\ Format(c)
  /\ UNCHANGED <<serverVars, clientVars, pasv, tree, transfer, crashed, hit, reached>>

HangUp(c) ==
  /\ c \in offered.leave \ gone /\ nodeOf[c] # None
  /\ gone' = gone \union {c} /\ Mark({"left"})
  /\ pending' = pending \union {c}
  /\ UNCHANGED <<fds, ctl, commands, sessionVars, transfer, crashed, hit, reached>>

\* processDisconnect
OnDisconnect(c) ==
  /\ c \in gone /\ nodeOf[c] # None /\ pasv = None
  /\ nodeOf' = [nodeOf EXCEPT ![c] = None]
  /\ UNCHANGED <<serverVars, clientVars, nodes, reply, pasv, formatted, tree, transfer, crashed,
                 historyVars>>

ClosePending(c) ==
  /\ c \in pending
  /\ pending' = pending \ {c}
  /\ CloseNumber(ctl[c], {Control(c)})
  /\ UNCHANGED <<ctl, clientVars, sessionVars, transfer, crashed, reached, marks>>

-----------------------------------------------------------------------------
(* Commands. *)

\* A client that is served sends a command.
Sends(c) ==
  /\ c \in Connected \ gone /\ nodeOf[c] # None /\ pasv = None
  /\ commands' = [commands EXCEPT ![c] = @ + 1]
  /\ UNCHANGED <<ctl, gone, crashed, reached>>

\* What it may send next.
Offered(c) == IF c \in DOMAIN offered.plan /\ commands[c] < Len(offered.plan[c])
              THEN offered.plan[c][commands[c] + 1] ELSE {}

Session(c) == nodes[nodeOf[c]]
LoggedIn(c) == Session(c).loggedIn

Answer(c, code) == reply' = IF code = None THEN reply ELSE [reply EXCEPT ![c] = code]
Update(c, s) == nodes' = [nodes EXCEPT ![nodeOf[c]] = s]

\* A command that only changes its session, as `result' says.
Dialogue(c, result) ==
  /\ Update(c, result.session) /\ Answer(c, result.reply)
  /\ UNCHANGED <<fds, pending, nodeOf, pasv, formatted, tree, transfer, hit>>

OnUser(c, command) ==
  /\ command.is = "user" /\ Sends(c)
  /\ Dialogue(c, User(Session(c), command.name))
  /\ UNCHANGED marks

OnPass(c, command) ==
  /\ command.is = "pass" /\ Sends(c)
  /\ Dialogue(c, Pass(Session(c), command.known))
  /\ UNCHANGED marks

\* The others want a login.
Refuse(c, command) ==
  /\ command.is \notin {"user", "pass", "noop", "quit"} /\ Sends(c) /\ ~LoggedIn(c)
  /\ Dialogue(c, [session |-> Session(c), reply |-> 530])
  /\ UNCHANGED marks

Serves(c, command, is) == command.is = is /\ Sends(c) /\ LoggedIn(c)

\* NOOP, SYST, HELP, anything unknown; PWD and TYPE once logged in.
OnOther(c, command) ==
  /\ \/ command.is = "noop" /\ Sends(c)
     \/ Serves(c, command, "type")
  /\ \E code \in {200, 500, 502} : Dialogue(c, [session |-> Session(c), reply |-> code])
  /\ UNCHANGED marks

\* Mutant of OnCwd: a name is appended before it is tested.
OnCwdUntested(c, command) ==
  /\ Serves(c, command, "cwd")
  /\ Dialogue(c, IF command.arg.to = "name"
                 THEN GoTo(Session(c), tree, Concat(Session(c).actualDir, command.arg.path))
                 ELSE Cwd(Session(c), tree, command.arg))
  /\ Mark(IF command.arg.to = "abs" /\ reply'[c] = 550 THEN {"refused"} ELSE {})

OnCwd(c, command) ==
  /\ Serves(c, command, "cwd")
  /\ Dialogue(c, Cwd(Session(c), tree, command.arg))
  /\ Mark(IF command.arg.to = "abs" /\ reply'[c] = 550 THEN {"refused"} ELSE {})

OnCdup(c, command) ==
  /\ Serves(c, command, "cdup")
  /\ Dialogue(c, [session |-> Cdup(Session(c)), reply |-> 250])
  /\ UNCHANGED marks

Files(c, newTree, code) ==
  /\ tree' = newTree /\ Answer(c, code)
  /\ UNCHANGED <<fds, pending, nodes, nodeOf, pasv, formatted, hit>>

\* A STOR that has the file open goes on with what has no name any more.
Unlinked(path) ==
  transfer' = [t \in Transfers |->
                 IF ~transfer[t].send /\ transfer[t].pc # "begin" /\ transfer[t].file = path
                 THEN [transfer[t] EXCEPT !.file = <<>>] ELSE transfer[t]]

OnMkd(c, command) ==
  /\ Serves(c, command, "mkd")
  /\ LET path == NewDirectory(Session(c).actualDir, command.arg)
     IN  IF HasParent(tree, path) /\ ~Exists(tree, path)
         THEN Files(c, Put(tree, path, "dir"), 257) ELSE Files(c, tree, 450)
  /\ UNCHANGED <<transfer, marks>>

\* RMD and DELE: either removes either.
OnRemove(c, command) ==
  /\ Serves(c, command, "remove")
  /\ LET path == Address(Session(c).actualDir, command.arg)
     IN  IF Removable(tree, path)
         THEN Files(c, Deleted(tree, path), 250) /\ Unlinked(path) /\ Mark({"removed"})
         ELSE Files(c, tree, 550) /\ UNCHANGED <<transfer, marks>>

OnPort(c, command) ==
  /\ Serves(c, command, "port")
  /\ Update(c, [Session(c) EXCEPT !.address = TRUE, !.isPassive = FALSE])
  /\ Answer(c, 200) /\ Format(c) /\ Mark(Misread(c))
  /\ UNCHANGED <<fds, pending, nodeOf, pasv, tree, transfer, hit>>

\* PASV, InitPassiveSock: closes the session's passive socket ...
OnPasv(c, command) ==
  /\ Serves(c, command, "pasv")
  /\ CloseNumber(Session(c).passiveSock, {Listen(c)})
  /\ pasv' = c /\ Mark(IF "pasv" \in marks THEN {"pasvAgain"} ELSE {"pasv"})
  /\ UNCHANGED <<pending, nodes, nodeOf, reply, formatted, tree, transfer>>

\* ... and makes another one, if it can.  The address is that of the server.
PasvListens ==
  /\ pasv # None
  /\ LET s == Session(pasv)
         opened == [s EXCEPT !.passiveSock = Lowest]
     IN  Update(pasv, IF Lowest = Bad THEN opened
                      ELSE [opened EXCEPT !.isPassive = TRUE, !.address = TRUE])
  /\ Open(Lowest, Listen(pasv))
  /\ formatted' = IF Lowest = Bad THEN formatted ELSE None
  /\ Mark(Misread(pasv))
  /\ Answer(pasv, 227) /\ pasv' = None
  /\ UNCHANGED <<ctl, pending, clientVars, nodeOf, tree, transfer, crashed, hit, reached>>

\* QUIT: the reply, Close, erase, CloseSocketByFd.
OnQuit(c, command) ==
  /\ command.is = "quit" /\ Sends(c)
  /\ Answer(c, 221) /\ CloseNumber(ctl[c], {Control(c)})
  /\ nodeOf' = [nodeOf EXCEPT ![c] = None]
  /\ pending' = pending \union {c} /\ Mark({"quit"})
  /\ UNCHANGED <<nodes, pasv, formatted, tree, transfer>>

Unused == {t \in Transfers : transfer[t] = NoTransfer}

\* A thread with a pointer to the session.
Start(c, send, file, empty) ==
  /\ transfer' = [transfer EXCEPT ![Min(Unused)] =
       [NoTransfer EXCEPT !.pc = "begin", !.client = c, !.node = nodeOf[c], !.send = send,
                          !.file = file, !.empty = empty]]
  /\ UNCHANGED reply

SendOverDTP(c, file, empty) == Start(c, TRUE, file, empty)
RecieveOverDTP(c, file) == Start(c, FALSE, file, FALSE)

OnList(c, command) ==
  /\ Serves(c, command, "list") /\ Unused # {}
  /\ IF IsDir(tree, Session(c).actualDir.path)
     THEN SendOverDTP(c, <<>>, FALSE) ELSE Answer(c, 550) /\ UNCHANGED transfer
  /\ UNCHANGED <<fds, pending, nodes, nodeOf, pasv, formatted, tree, hit, marks>>

OnRetr(c, command) ==
  /\ Serves(c, command, "retr") /\ Unused # {}
  /\ LET path == Address(Session(c).actualDir, command.arg)
     IN  CASE ~Exists(tree, path) -> Answer(c, 550) /\ UNCHANGED transfer
           [] IsDir(tree, path) -> Answer(c, 450) /\ UNCHANGED transfer
           [] OTHER -> SendOverDTP(c, path, tree[path] = "empty")
  /\ UNCHANGED <<fds, pending, nodes, nodeOf, pasv, formatted, tree, hit, marks>>

OnStor(c, command) ==
  /\ Serves(c, command, "stor") /\ Unused # {}
  /\ RecieveOverDTP(c, Address(Session(c).actualDir, command.arg))
  /\ UNCHANGED <<fds, pending, nodes, nodeOf, pasv, formatted, tree, hit, marks>>

-----------------------------------------------------------------------------
(* The transfer threads, SendData and RecvData. *)

\* Thread t is at pc, and goes on with the given variables.
At(t, pc) == transfer[t].pc = pc
Become(t, th) == transfer' = [transfer EXCEPT ![t] = th]

Node(t) == nodes[transfer[t].node]
OwnControl(t) == LET c == transfer[t].client IN fds[ctl[c]] = Control(c)

Keep == UNCHANGED <<ctl, pending, clientVars, nodeOf, reply, pasv, formatted>>

\* The last reply, 0 for none.
Ended(th, code, own) == [th EXCEPT !.pc = "done", !.final = code, !.own = own]

\* Reply 150.  RETR opens its file again; STOR opens its own, which is emptied.
Begin(t) ==
  /\ At(t, "begin")
  /\ LET th == transfer[t]
         creates == HasParent(tree, th.file) /\ ~IsDir(tree, th.file)
         next == IF Node(t).isPassive THEN "accept" ELSE "connect"
     IN  IF th.send
         THEN /\ Become(t, [th EXCEPT !.pc = next, !.passive = Node(t).isPassive,
                                      !.empty = \/ @
                                                \/ /\ th.file # <<>>
                                                   /\ ~(th.file \in DOMAIN tree /\ tree[th.file] = "full")])
              /\ UNCHANGED tree
         ELSE /\ Become(t, [th EXCEPT !.pc = IF creates THEN next ELSE "final",
                                      !.passive = Node(t).isPassive, !.opened = creates])
              /\ tree' = IF creates THEN Put(tree, th.file, "empty") ELSE tree
  /\ Keep /\ UNCHANGED <<fds, nodes, crashed, historyVars>>

\* Mutant of ConnectActive: the session's own address is read wrongly, as that of
\* the client which connected last.
ConnectLatest(t) ==
  /\ At(t, "connect") /\ Node(t).address /\ Lowest # Bad
  /\ Open(Lowest, Data(t))
  /\ Become(t, [transfer[t] EXCEPT !.pc = "move", !.conn = Lowest, !.peer = Max(Connected)])
  /\ Keep /\ UNCHANGED <<nodes, tree, crashed, historyVars>>

\* Mutant of ConnectActive: the transfer goes on after a refusal.
ConnectUnchecked(t) ==
  /\ At(t, "connect")
  /\ Become(t, [transfer[t] EXCEPT !.pc = "move"])
  /\ Keep /\ UNCHANGED <<fds, nodes, tree, crashed, historyVars>>

\* Active mode: to the address that is in the buffer now; a session without one
\* has a null pointer there.  A refused connection is not closed.
ConnectActive(t) ==
  /\ At(t, "connect")
  /\ LET th == transfer[t] IN
     \/ /\ ~Node(t).address
        /\ crashed' = TRUE /\ UNCHANGED <<fds, transfer>>
     \/ /\ Node(t).address /\ formatted \notin gone \union {None} /\ Lowest # Bad
        /\ Open(Lowest, Data(t))
        /\ Become(t, [th EXCEPT !.pc = "move", !.conn = Lowest, !.peer = formatted])
        /\ UNCHANGED crashed
     \/ /\ Node(t).address
        /\ Open(Lowest, Data(t))
        /\ Become(t, Ended([th EXCEPT !.conn = Lowest], 425, OwnControl(t)))
        /\ UNCHANGED crashed
  /\ Keep /\ UNCHANGED <<nodes, tree, historyVars>>

\* Passive mode: without a socket, 425; else accept waits, if it is one to listen on.
EnterAccept(t) ==
  /\ At(t, "accept")
  /\ LET th == transfer[t]  n == Node(t).passiveSock IN
     IF n = Bad THEN Become(t, Ended(th, 425, OwnControl(t)))
     ELSE Become(t, IF fds[n].kind = "listen"
                    THEN [th EXCEPT !.pc = "accepting", !.peer = fds[n].of]
                    ELSE [th EXCEPT !.pc = "move"])
  /\ Keep /\ UNCHANGED <<fds, nodes, tree, crashed, historyVars>>

AcceptReturns(t) ==
  /\ At(t, "accepting") /\ transfer[t].peer \notin gone
  /\ Open(Lowest, Data(t))
  /\ Become(t, [transfer[t] EXCEPT !.pc = "move", !.conn = Lowest])
  /\ Mark(IF Lowest = Bad THEN {"full"} ELSE {})
  /\ Keep /\ UNCHANGED <<nodes, tree, crashed, hit, reached>>

\* What thread t's number stands for now.
Connection(t) == IF transfer[t].conn = Bad THEN Free ELSE fds[transfer[t].conn]

\* The client at the other end, if there is one.
Peer(t) == CASE Connection(t).kind = "data" -> transfer[Connection(t).of].peer
             [] Connection(t).kind = "control" -> Connection(t).of
             [] OTHER -> None

\* The loop: everything, or what there is until the client breaks the connection,
\* or nothing if there is no connection.
Move(t) ==
  /\ At(t, "move")
  /\ LET th == transfer[t]
         got == IF Peer(t) = None THEN {"nothing"} ELSE {"all", "some"}
     IN  /\ \E g \in got : Become(t, [th EXCEPT !.pc = "close", !.got = g])
         /\ reached' = [reached EXCEPT ![t] = IF Peer(t) = None THEN @ ELSE @ \union {Peer(t)}]
         /\ tree' = IF ~th.send /\ Peer(t) # None /\ th.file # <<>>
                    THEN Put(tree, th.file, "full") ELSE tree
  /\ Keep /\ UNCHANGED <<fds, nodes, crashed, hit, marks>>

\* Mutant of CloseData: the connection of an active transfer stays open.
CloseDataPassive(t) ==
  /\ At(t, "close")
  /\ LET th == transfer[t]
     IN  /\ IF th.passive THEN CloseNumber(th.conn, {Data(t)}) ELSE UNCHANGED <<fds, hit>>
         /\ Become(t, [th EXCEPT !.pc = IF th.passive THEN "closeListener" ELSE "final"])
  /\ Keep /\ UNCHANGED <<nodes, tree, crashed, reached, marks>>

\* Mutant of CloseData: an active transfer's connection is closed again, too.
CloseDataTwice(t) ==
  /\ At(t, "close")
  /\ LET th == transfer[t]
     IN  /\ CloseNumber(th.conn, {Data(t)})
         /\ Become(t, [th EXCEPT !.pc = IF th.passive THEN "closeListener" ELSE "delete"])
  /\ Keep /\ UNCHANGED <<nodes, tree, crashed, reached, marks>>

\* Closed by number.  In active mode that is all.
CloseData(t) ==
  /\ At(t, "close")
  /\ LET th == transfer[t]
     IN  /\ CloseNumber(th.conn, {Data(t)})
         /\ Become(t, [th EXCEPT !.pc = IF th.passive THEN "closeListener" ELSE "final"])
  /\ Keep /\ UNCHANGED <<nodes, tree, crashed, reached, marks>>

\* lSock = close(lSock): close, ...
CloseListener(t) ==
  /\ At(t, "closeListener")
  /\ LET n == Node(t).passiveSock
     IN  /\ CloseNumber(n, {Listen(transfer[t].client)})
         /\ Become(t, [transfer[t] EXCEPT !.pc = "storeListener", !.closed = CloseResult(n)])
  /\ Mark({"passiveDone"})
  /\ Keep /\ UNCHANGED <<nodes, tree, crashed, reached>>

\* ... and the assignment of its result.
StoreListener(t) ==
  /\ At(t, "storeListener")
  /\ nodes' = [nodes EXCEPT ![transfer[t].node].passiveSock = transfer[t].closed]
  /\ Become(t, [transfer[t] EXCEPT !.pc = "delete"])
  /\ Keep /\ UNCHANGED <<fds, tree, crashed, historyVars>>

\* delete pSock: the destructor closes the number once more.
DeleteSocket(t) ==
  /\ At(t, "delete")
  /\ CloseNumber(transfer[t].conn, {})
  /\ Become(t, [transfer[t] EXCEPT !.pc = "final"])
  /\ Keep /\ UNCHANGED <<nodes, tree, crashed, reached, marks>>

\* Mutant of Finish: an interrupted STOR gets no reply, as an interrupted send.
FinishUninterrupted(t) ==
  /\ At(t, "final")
  /\ Become(t, Ended(transfer[t], IF transfer[t].send /\ ~transfer[t].empty THEN 226 ELSE None,
                     OwnControl(t)))
  /\ Keep /\ UNCHANGED <<fds, nodes, tree, crashed, historyVars>>

\* 226, but not from a send that had nothing to send.
Finish(t) ==
  /\ At(t, "final")
  /\ Become(t, Ended(transfer[t],
                     IF transfer[t].send /\ transfer[t].empty THEN None ELSE 226, OwnControl(t)))
  /\ Keep /\ UNCHANGED <<fds, nodes, tree, crashed, historyVars>>

\* The session's memory has been freed: a use of it may fault.
ThreadFaults(t) ==
  /\ Running(t) /\ transfer[t].node \notin Range(nodeOf)
  /\ crashed' = TRUE
  /\ UNCHANGED <<serverVars, clientVars, sessionVars, transfer, historyVars>>

\* SIGPIPE: the client has closed the connection that is written to.
BrokenPipe(t) ==
  /\ \/ transfer[t].pc \in {"begin", "final"} /\ OwnControl(t) /\ transfer[t].client \in gone
     \/ At(t, "move") /\ transfer[t].send /\ Peer(t) # None
  /\ crashed' = TRUE
  /\ UNCHANGED <<serverVars, clientVars, sessionVars, transfer, historyVars>>

Thread(t) == \/ Begin(t) \/ ConnectActive(t) \/ EnterAccept(t) \/ AcceptReturns(t) \/ Move(t)
             \/ CloseData(t) \/ CloseListener(t) \/ StoreListener(t) \/ DeleteSocket(t)
             \/ Finish(t) \/ ThreadFaults(t) \/ BrokenPipe(t)

Command(c, command) ==
  \/ OnUser(c, command) \/ OnPass(c, command) \/ Refuse(c, command) \/ OnOther(c, command)
  \/ OnCwd(c, command) \/ OnCdup(c, command) \/ OnMkd(c, command) \/ OnRemove(c, command)
  \/ OnPort(c, command) \/ OnPasv(c, command) \/ OnQuit(c, command) \/ OnList(c, command)
  \/ OnRetr(c, command) \/ OnStor(c, command)

Next ==
  /\ ~crashed
  /\ \/ \E c \in Clients :
          \/ Accept(c) \/ OnConnect(c) \/ HangUp(c) \/ OnDisconnect(c) \/ ClosePending(c)
          \/ \E command \in Offered(c) : Command(c, command)
     \/ PasvListens
     \/ \E t \in Transfers : Thread(t)
  /\ UNCHANGED offered

Spec == Init /\ [][Next]_vars

-----------------------------------------------------------------------------
TypeOK ==
  /\ offered \in Behaviours /\ crashed \in BOOLEAN
  /\ fds \in [FDs -> Objects] /\ ctl \in [Clients -> FDs \union {Bad}]
  /\ pending \subseteq Clients /\ gone \subseteq Clients /\ hit \subseteq Objects
  /\ \A c \in Connected : commands[c] \in 0 .. Len(offered.plan[c])
  /\ nodeOf \in [Clients -> Nodes \union {None}]
  /\ \A n \in Nodes : /\ DOMAIN nodes[n] = DOMAIN NewSession
                      /\ nodes[n].passiveSock \in FDs \union {Bad}
                      /\ nodes[n].actualDir.path = <<>> => nodes[n].actualDir.slash
  /\ pasv \in Clients \union {None} /\ formatted \in Clients \union {None}
  /\ Grown(tree)
  /\ \A t \in Transfers : DOMAIN transfer[t] = DOMAIN NoTransfer
  /\ reached \in [Transfers -> SUBSET Clients] /\ marks \subseteq Marks

-----------------------------------------------------------------------------
(* Safety.  Each property names what has to have happened for it to fail.   *)

Without(events) == marks \intersect events = {}

\* A client that stays keeps its control connection, whatever the transfers of
\* others close by number - until a passive transfer has come to its end (the
\* data connection is closed twice, the listening socket by a stale number, and
\* the session's passive socket is then descriptor 0), a second PASV has closed
\* the 0 of a session that never listened, or a QUIT has been closed twice.
ControlsKept ==
  Without({"passiveDone", "pasvAgain", "quit"}) => \A c \in Clients \ gone : Control(c) \notin hit

\* What a transfer moves, it moves with the client that asked, also when the session
\* is erased under its thread - unless, for an active one, an address was formatted
\* between a PORT and the connection, for a passive one, a session was made in the
\* memory of one whose thread runs, or such a thread closed its socket under another
\* thread; or somebody closed a wrong number.
DataOwnClient ==
  hit = {} =>
    \A t \in Transfers :
      Without(IF transfer[t].passive THEN {"passiveDone", "reused"} ELSE {"address"}) =>
        reached[t] \subseteq {transfer[t].client}

\* Every transfer that ends has told its own client so, with 226 or 425; only a
\* send that finds nothing to send ends without a word.  The exceptions are a
\* session that was erased and a wrong number that was closed.
Answered ==
  Without({"left", "quit"}) /\ hit = {} =>
    \A t \in Transfers : transfer[t].pc = "done" =>
      /\ transfer[t].own
      /\ transfer[t].final = None => transfer[t].send /\ transfer[t].empty

\* A transfer past its 150 has a data connection, and 226 means that it had one -
\* unless its file could not be opened, or a passive socket was used a second
\* time, closed, or accepted nobody for want of a descriptor.
SuccessIsReal ==
  Without({"passiveDone", "pasvAgain", "left", "quit", "full"}) =>
    \A t \in Transfers :
      /\ transfer[t].got # "nothing"
      /\ transfer[t].final = 226 /\ transfer[t].got = "unknown" => ~transfer[t].opened

\* No descriptor is lost: a data connection is open only while its thread runs or
\* when it was refused, and a listening one is some session's passive socket -
\* unless a PASV and a thread assigned that at once, or the session was erased.
DescriptorsKnown ==
  \A n \in FDs :
    /\ fds[n].kind = "data" => \/ Running(fds[n].of) \/ transfer[fds[n].of].final = 425
    /\ fds[n].kind = "listen" =>
         \/ nodeOf[fds[n].of] # None /\ Session(fds[n].of).passiveSock = n
         \/ ~Without({"passiveDone", "left", "quit"})

\* A session is in a directory that exists, whatever commands brought it there -
\* unless something was removed or the last change was refused, which an
\* absolute path assigns all the same.
InDirectory ==
  \A c \in Clients :
    nodeOf[c] # None /\ "removed" \notin marks /\ "refused" \notin marks =>
      IsDir(tree, Session(c).actualDir.path)
=============================================================================
