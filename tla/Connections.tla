----------------------------- MODULE Connections -----------------------------
(***************************************************************************)
(* Who owns a connection.  The main thread accepts connections, watches    *)
(* their descriptors in the set Recv, keeps a Socket object per descriptor *)
(* in ConnectionMgr::sockets and closes what is in ConnectionMgr::queue at *)
(* the end of an iteration that served a socket.  The queue thread serves  *)
(* the events it posts, finds the Socket by the event's descriptor, and,   *)
(* when the protocol lets the client quit, asks ConnectionMgr to close it. *)
(* The kernel gives a closed descriptor's number to the next connection.   *)
(*                                                                         *)
(* Here the queue of events is a lossless FIFO and the queue thread is     *)
(* awake: module Dispatch is about when that is so.  A recv takes all that *)
(* has arrived; a lookup in the map of sockets, which the threads share    *)
(* without a lock, is one step.  Delayed events, connection resets and     *)
(* replies to a closed descriptor are left out.                            *)
(***************************************************************************)
EXTENDS Integers, Sequences, FiniteSetsExt, Functions

CONSTANTS
  MaxConns,   \* bound: clients that connect in a behaviour
  MaxFd,      \* bound: descriptors the process may have open for clients
  MaxData,    \* bound: requests a client sends
  Libraries   \* the protocol libraries the server may be started with

ASSUME ConnectionBounds == MaxConns \in Nat /\ MaxFd \in Nat /\ MaxData \in Nat
ASSUME LibrariesAssumption == Libraries \subseteq {"http", "smtp", "ftp"}

Conns == 1 .. MaxConns
FDs   == 1 .. MaxFd
Listener == 0                \* the server socket's place in a descriptor set
None  == 0                   \* no connection

VARIABLES
  library,   \* the protocol library; it never changes
  backlog,   \* connections the kernel holds for accept
  inbox,     \* inbox[c]: requests of client c not received yet
  sent,      \* history: requests client c has sent
  hungUp,    \* clients that have closed their end
  fdOf,      \* the process's descriptors: fdOf[fd] is the connection, or None
  shut,      \* connections the server has shut down
  Recv,      \* the watched descriptors
  sockets,   \* ConnectionMgr::sockets: the connection of the Socket at key fd
  closing,   \* ConnectionMgr::queue: iterators into sockets
  events,    \* PacketHandler::queue
  mpc,       \* where the main thread is in the loop of Application::Update
  test,      \* descriptors select reported and the loop has yet to serve
  at,        \* the descriptor the loop is at
  qpc,       \* where the queue thread is in a callback
  ev,        \* the event it serves
  sock,      \* the connection of the Socket it found for it, or None for NULL
  sessions,  \* the protocol's session table: sessions[fd] is whose session
  senders,   \* the threads HTTP sends long pages from
  quit,      \* history: clients whose QUIT has been served
  strayed,   \* history: <<a, b>> when a reply to client a was sent to client b
  crashed    \* the process has died of a memory fault

clientVars == <<inbox, sent, hungUp>>
kernelVars == <<backlog, fdOf, shut>>
tableVars  == <<Recv, sockets, closing>>
mainVars   == <<mpc, test, at>>
queueVars  == <<qpc, ev, sock, sessions, senders, quit, strayed>>
vars == <<library, clientVars, kernelVars, tableVars, mainVars, queueVars, events,
          crashed>>

Kinds == {"connect", "recieve", "disconnect"}
EventSet == [kind : Kinds, fd : FDs, conn : Conns]
NoEvent == [kind |-> "none", fd |-> None, conn |-> None]

\* The connections accepted so far.
Accepted == {c \in Conns : \E fd \in FDs : fdOf[fd] = c}

\* An iterator is the key of the map node it points to and the connection it was
\* taken for; it dangles when the node has been erased.
Iterator(fd) == [fd |-> fd, conn |-> sockets[fd]]
Live(i) == sockets[i.fd] = i.conn

-----------------------------------------------------------------------------
Init ==
  /\ library \in Libraries
  /\ backlog = <<>> /\ hungUp = {} /\ shut = {}
  /\ inbox = [c \in Conns |-> 0] /\ sent = [c \in Conns |-> 0]
  /\ fdOf = [fd \in FDs |-> None] /\ sockets = [fd \in FDs |-> None]
  /\ Recv = {} /\ closing = <<>> /\ events = <<>>
  /\ mpc = "select" /\ test = {} /\ at = None
  /\ qpc = "idle" /\ ev = NoEvent /\ sock = None
  /\ sessions = [fd \in FDs |-> None]
  /\ senders = {} /\ quit = {} /\ strayed = {}
  /\ crashed = FALSE

-----------------------------------------------------------------------------
(* The clients, which connect in the order of their numbers. *)

Known == Range(backlog) \union Accepted \union hungUp \union shut

Connect(c) ==
  /\ ~crashed
  /\ c \notin Known /\ \A d \in 1 .. (c - 1) : d \in Known
  /\ backlog' = Append(backlog, c)
  /\ UNCHANGED <<clientVars, fdOf, shut, tableVars, mainVars, queueVars, events, crashed>>

SendRequest(c) ==
  /\ ~crashed
  /\ c \in Known \ hungUp /\ sent[c] < MaxData
  /\ inbox' = [inbox EXCEPT ![c] = @ + 1]
  /\ sent' = [sent EXCEPT ![c] = @ + 1]
  /\ UNCHANGED <<hungUp, kernelVars, tableVars, mainVars, queueVars, events, crashed>>

HangUp(c) ==
  /\ ~crashed
  /\ c \in Known \ hungUp
  /\ hungUp' = hungUp \union {c}
  /\ UNCHANGED <<inbox, sent, kernelVars, tableVars, mainVars, queueVars, events, crashed>>

-----------------------------------------------------------------------------
(* The main thread: the loop of Application::Update. *)

MainAt(pc) == ~crashed /\ mpc = pc

Keep == UNCHANGED <<clientVars, queueVars>>

\* nfds: descriptors above the highest one in the map of sockets are not looked at.
Watched == {fd \in Recv : \E high \in FDs : fd <= high /\ sockets[high] # None}

\* select refuses a set with a closed descriptor: r is -1, `test' keeps all of
\* Recv, and the loop tries to accept without serving any socket.
EnterSelect ==
  /\ MainAt("select")
  /\ IF \E fd \in Watched : fdOf[fd] = None
     THEN mpc' = "accept" /\ test' = {Listener}
     ELSE mpc' = "wait"   /\ test' = {}
  /\ Keep /\ UNCHANGED <<at, kernelVars, tableVars, events, crashed>>

\* The client has closed its end, or the server has shut the connection down.
Over(c) == c \in hungUp \union shut

\* recv would not block: data, the end of the stream, or a descriptor that has
\* been shut down and closed while select waits on it.
Readable(fd) == fdOf[fd] = None \/ inbox[fdOf[fd]] > 0 \/ Over(fdOf[fd])

Ready == {fd \in Watched : Readable(fd)}
         \union (IF backlog = <<>> THEN {} ELSE {Listener})

SelectReturns ==
  /\ MainAt("wait") /\ Ready # {}
  /\ test' = Ready
  /\ mpc' = IF Listener \in Ready THEN "accept" ELSE "scan"
  /\ Keep /\ UNCHANGED <<at, kernelVars, tableVars, events, crashed>>

\* r == 0: continue, past CloseAllPendingSockets.
SelectTimesOut ==
  /\ MainAt("wait") /\ Ready = {}
  /\ mpc' = "select"
  /\ Keep /\ UNCHANGED <<test, at, kernelVars, tableVars, events, crashed>>

\* Nobody waits any more, or no descriptor is free: continue, past the sockets
\* that are ready and past CloseAllPendingSockets.
AcceptFails ==
  /\ MainAt("accept")
  /\ backlog = <<>> \/ \A fd \in FDs : fdOf[fd] # None
  /\ mpc' = "select" /\ test' = {}
  /\ Keep /\ UNCHANGED <<at, kernelVars, tableVars, events, crashed>>

\* The library has callbacks for the begin and the end of a connection.
HasSessions == library # "http"

\* AddEvent, when the library has the callback.
Post(kind, fd, c) ==
  events' = IF kind = "recieve" \/ HasSessions
            THEN Append(events, [kind |-> kind, fd |-> fd, conn |-> c]) ELSE events

\* The kernel gives the lowest free descriptor; AddSocket leaves a key that is
\* in the map as it is.
AcceptAt(fd) ==
  /\ fdOf[fd] = None /\ \A lower \in 1 .. (fd - 1) : fdOf[lower] # None
  /\ fdOf' = [fdOf EXCEPT ![fd] = Head(backlog)]
  /\ backlog' = Tail(backlog)
  /\ sockets' = [sockets EXCEPT ![fd] = IF @ = None THEN Head(backlog) ELSE @]
  /\ Post("connect", fd, Head(backlog))

\* Mutant of Accept: FD_SET is forgotten.
AcceptUnwatched ==
  /\ MainAt("accept") /\ backlog # <<>>
  /\ \E fd \in FDs : AcceptAt(fd)
  /\ mpc' = "scan" /\ test' = test \ {Listener}
  /\ Keep /\ UNCHANGED <<at, shut, Recv, closing, crashed>>

Accept ==
  /\ MainAt("accept") /\ backlog # <<>>
  /\ \E fd \in FDs : AcceptAt(fd) /\ Recv' = Recv \union {fd}
  /\ mpc' = "scan" /\ test' = test \ {Listener}
  /\ Keep /\ UNCHANGED <<at, shut, closing, crashed>>

\* The sockets still to serve, in the order of the map.
Unserved == {fd \in test : sockets[fd] # None}

ServeSocket(fd) ==
  /\ MainAt("scan") /\ Unserved # {} /\ fd = Min(Unserved)
  /\ test' = test \ {fd}

\* Mutant of RecieveData: the connection is closed after the request, as HTTP's
\* replies say, without waiting for the reply.
RecieveDataAndClose(fd) ==
  /\ ServeSocket(fd)
  /\ fdOf[fd] # None /\ inbox[fdOf[fd]] > 0
  /\ inbox' = [inbox EXCEPT ![fdOf[fd]] = 0]
  /\ Post("recieve", fd, fdOf[fd])
  /\ Recv' = Recv \ {fd} /\ closing' = Append(closing, Iterator(fd))
  /\ UNCHANGED <<mpc, at, sent, hungUp, kernelVars, sockets, queueVars, crashed>>

\* recv > 0
RecieveData(fd) ==
  /\ ServeSocket(fd)
  /\ fdOf[fd] # None /\ inbox[fdOf[fd]] > 0
  /\ inbox' = [inbox EXCEPT ![fdOf[fd]] = 0]
  /\ Post("recieve", fd, fdOf[fd])
  /\ UNCHANGED <<mpc, at, sent, hungUp, kernelVars, tableVars, queueVars, crashed>>

\* Mutant of RecieveEnd: the connection is not queued for closing.
RecieveEndKeepsOpen(fd) ==
  /\ ServeSocket(fd)
  /\ fdOf[fd] # None /\ inbox[fdOf[fd]] = 0 /\ Over(fdOf[fd])
  /\ at' = fd /\ mpc' = "hangup"
  /\ Keep /\ UNCHANGED <<kernelVars, tableVars, events, crashed>>

\* recv == 0: CloseSocketByFd ...
RecieveEnd(fd) ==
  /\ ServeSocket(fd)
  /\ fdOf[fd] # None /\ inbox[fdOf[fd]] = 0 /\ Over(fdOf[fd])
  /\ closing' = Append(closing, Iterator(fd))
  /\ at' = fd /\ mpc' = "hangup"
  /\ Keep /\ UNCHANGED <<kernelVars, Recv, sockets, events, crashed>>

\* Mutant of PostDisconnect: FD_CLR is forgotten.
PostDisconnectWatched ==
  /\ MainAt("hangup")
  /\ Post("disconnect", at, sockets[at])
  /\ mpc' = "scan" /\ at' = None
  /\ Keep /\ UNCHANGED <<test, kernelVars, tableVars, crashed>>

\* ... then FD_CLR and the event.
PostDisconnect ==
  /\ MainAt("hangup")
  /\ Recv' = Recv \ {at}
  /\ Post("disconnect", at, sockets[at])
  /\ mpc' = "scan" /\ at' = None
  /\ Keep /\ UNCHANGED <<test, kernelVars, sockets, closing, crashed>>

\* EBADF: FD_CLR and CloseSocketByFd, but no event.
RecieveBadFd(fd) ==
  /\ ServeSocket(fd)
  /\ fdOf[fd] = None
  /\ Recv' = Recv \ {fd}
  /\ closing' = Append(closing, Iterator(fd))
  /\ Keep /\ UNCHANGED <<mpc, at, kernelVars, sockets, events, crashed>>

\* EAGAIN: another connection has got the descriptor since select returned.
RecieveNothing(fd) ==
  /\ ServeSocket(fd)
  /\ fdOf[fd] # None /\ inbox[fdOf[fd]] = 0 /\ ~Over(fdOf[fd])
  /\ Keep /\ UNCHANGED <<mpc, at, kernelVars, tableVars, events, crashed>>

ScanEnds ==
  /\ MainAt("scan") /\ Unserved = {}
  /\ mpc' = "close" /\ test' = {}
  /\ Keep /\ UNCHANGED <<at, kernelVars, tableVars, events, crashed>>

\* CloseAllPendingSockets: nothing (more) to close.
NothingPending ==
  /\ MainAt("close") /\ closing = <<>>
  /\ mpc' = "select"
  /\ Keep /\ UNCHANGED <<test, at, kernelVars, tableVars, events, crashed>>

\* shutdown(fd) and close(fd), whoever has the descriptor now.
Shut(fd) == IF fdOf[fd] = None THEN shut ELSE shut \union {fdOf[fd]}

\* queue.front()->second->Close(): through an iterator whose node was erased it
\* faults, or finds the Socket that used to be there.
ClosePending ==
  /\ MainAt("close") /\ closing # <<>>
  /\ LET i == Head(closing)
     IN  \/ /\ shut' = Shut(i.fd) /\ fdOf' = [fdOf EXCEPT ![i.fd] = None]
            /\ mpc' = "erase"
            /\ UNCHANGED crashed
         \/ /\ ~Live(i) /\ crashed' = TRUE
            /\ UNCHANGED <<fdOf, shut, mpc>>
  /\ Keep /\ UNCHANGED <<test, at, backlog, tableVars, events>>

\* Mutant of ErasePending: queue.pop() is forgotten.
ErasePendingUnpopped ==
  /\ MainAt("erase")
  /\ LET i == Head(closing)
     IN  \/ /\ sockets' = IF Live(i) THEN [sockets EXCEPT ![i.fd] = None] ELSE sockets
            /\ UNCHANGED crashed
         \/ ~Live(i) /\ crashed' = TRUE /\ UNCHANGED sockets
  /\ mpc' = "close"
  /\ Keep /\ UNCHANGED <<test, at, kernelVars, Recv, closing, events>>

\* sockets.erase(queue.front()); queue.pop(): the erase of an erased node
\* faults, or nothing happens.
ErasePending ==
  /\ MainAt("erase")
  /\ LET i == Head(closing)
     IN  \/ /\ sockets' = IF Live(i) THEN [sockets EXCEPT ![i.fd] = None] ELSE sockets
            /\ UNCHANGED crashed
         \/ ~Live(i) /\ crashed' = TRUE /\ UNCHANGED sockets
  /\ closing' = Tail(closing)
  /\ mpc' = "close"
  /\ Keep /\ UNCHANGED <<test, at, kernelVars, Recv, events>>

Recieve(fd) == RecieveData(fd) \/ RecieveEnd(fd) \/ RecieveBadFd(fd) \/ RecieveNothing(fd)

Main == \/ EnterSelect \/ SelectReturns \/ SelectTimesOut \/ AcceptFails \/ Accept
        \/ \E fd \in FDs : Recieve(fd)
        \/ PostDisconnect \/ ScanEnds \/ NothingPending \/ ClosePending
        \/ ErasePending

-----------------------------------------------------------------------------
(* The queue thread: the protocol's callbacks. *)

QueueAt(pc) == ~crashed /\ qpc = pc

Other == UNCHANGED <<clientVars, mainVars, events>>

\* GetSocketByFd(fd): whoever's Socket is in the map now.
TakeEvent ==
  /\ QueueAt("idle") /\ events # <<>>
  /\ ev' = Head(events)
  /\ events' = Tail(events)
  /\ sock' = sockets[ev'.fd]
  /\ qpc' = ev'.kind
  /\ UNCHANGED <<sessions, senders, quit, strayed, clientVars, mainVars, kernelVars,
                 tableVars, crashed>>

\* Socket::Send writes to whatever has the descriptor now.
Send(e) == strayed' = IF fdOf[e.fd] \in {None, e.conn} THEN strayed
                      ELSE strayed \union {<<e.conn, fdOf[e.fd]>>}

\* A reply from the queue thread: of a null Socket Send does nothing.
Reply == IF sock = None THEN UNCHANGED strayed ELSE Send(ev)

\* The callback returns.
Return == qpc' = "idle" /\ ev' = NoEvent /\ sock' = None

\* sessionData[fd] makes an entry if there is none.
OpenSession == sessions' = [sessions EXCEPT ![ev.fd] = IF @ = None THEN ev.conn ELSE @]

\* Greeting, and a session.
OnConnect ==
  /\ QueueAt("connect")
  /\ Reply /\ OpenSession /\ Return
  /\ Other /\ UNCHANGED <<senders, quit, kernelVars, tableVars, crashed>>

\* An HTTP request: a reply now, a long page from a thread of its own, or no
\* reply to an unsupported method.
OnHttpRequest ==
  /\ library = "http" /\ QueueAt("recieve")
  /\ \/ Reply /\ UNCHANGED senders
     \/ /\ senders' = IF sock = None THEN senders ELSE senders \union {ev}
        /\ UNCHANGED strayed
     \/ UNCHANGED <<senders, strayed>>
  /\ Return
  /\ Other /\ UNCHANGED <<sessions, quit, kernelVars, tableVars, crashed>>

SendOverNewThread ==
  /\ ~crashed
  /\ \E e \in senders : Send(e) /\ senders' = senders \ {e}
  /\ Other /\ UNCHANGED <<qpc, ev, sock, sessions, quit, kernelVars, tableVars,
                          crashed>>

\* A command that is not QUIT.
OnCommand ==
  /\ HasSessions /\ QueueAt("recieve")
  /\ Reply /\ OpenSession /\ Return
  /\ Other /\ UNCHANGED <<senders, quit, kernelVars, tableVars, crashed>>

\* Mutant of OnDisconnect: the session is not erased.
OnDisconnectKeeps ==
  /\ QueueAt("disconnect")
  /\ Return
  /\ Other /\ UNCHANGED <<sessions, senders, quit, strayed, kernelVars, tableVars, crashed>>

OnDisconnect ==
  /\ QueueAt("disconnect")
  /\ sessions' = [sessions EXCEPT ![ev.fd] = None]
  /\ Return
  /\ Other /\ UNCHANGED <<senders, quit, strayed, kernelVars, tableVars, crashed>>

\* Mutant of CloseSocketByFd: what find returned is queued without a test.
CloseSocketUntested(fd) == closing' = Append(closing, Iterator(fd))

\* CloseSocketByFd(fd): queues the node with that key, if there is one.
CloseSocketByFd(fd) ==
  closing' = IF sockets[fd] = None THEN closing ELSE Append(closing, Iterator(fd))

\* SMTP's QUIT.
OnSmtpQuit ==
  /\ library = "smtp" /\ QueueAt("recieve")
  /\ quit' = quit \union {ev.conn}
  /\ OpenSession /\ CloseSocketByFd(ev.fd) /\ Return
  /\ Other /\ UNCHANGED <<senders, strayed, kernelVars, Recv, sockets, crashed>>

\* FTP's QUIT: the reply, then Close of the Socket, which faults if it is null.
\* Close shuts the connection down ...
OnFtpQuit ==
  /\ library = "ftp" /\ QueueAt("recieve")
  /\ quit' = quit \union {ev.conn}
  /\ Reply
  /\ IF sock = None THEN crashed' = TRUE /\ UNCHANGED <<qpc, shut>>
                    ELSE shut' = Shut(ev.fd) /\ qpc' = "quitClose" /\ UNCHANGED crashed
  /\ Other /\ UNCHANGED <<ev, sock, sessions, senders, backlog, fdOf, tableVars>>

\* ... and closes the descriptor; the session is erased ...
FtpQuitCloses ==
  /\ QueueAt("quitClose")
  /\ shut' = Shut(ev.fd) /\ fdOf' = [fdOf EXCEPT ![ev.fd] = None]
  /\ sessions' = [sessions EXCEPT ![ev.fd] = None]
  /\ qpc' = "quitForget"
  /\ Other /\ UNCHANGED <<ev, sock, senders, quit, strayed, backlog, tableVars, crashed>>

\* ... and the Socket queued for closing again.
FtpQuitForgets ==
  /\ QueueAt("quitForget")
  /\ CloseSocketByFd(ev.fd) /\ Return
  /\ Other /\ UNCHANGED <<sessions, senders, quit, strayed, kernelVars, Recv, sockets,
                          crashed>>

Queue == \/ TakeEvent \/ OnConnect \/ OnHttpRequest \/ OnCommand \/ OnDisconnect
         \/ OnSmtpQuit \/ OnFtpQuit \/ FtpQuitCloses \/ FtpQuitForgets

-----------------------------------------------------------------------------
Client == \E c \in Conns : Connect(c) \/ SendRequest(c) \/ HangUp(c)

Next == (Client \/ Main \/ Queue \/ SendOverNewThread) /\ UNCHANGED library

Spec == Init /\ [][Next]_vars

\* Both threads are scheduled; clients owe nothing.
FairSpec == Spec /\ WF_vars(Main /\ UNCHANGED library)
                 /\ WF_vars(Queue /\ UNCHANGED library)

-----------------------------------------------------------------------------
(* Types. *)

IteratorSet == [fd : FDs, conn : Conns]

TypeOK ==
  /\ library \in Libraries /\ crashed \in BOOLEAN
  /\ backlog \in Seq(Conns)
  /\ inbox \in [Conns -> 0 .. MaxData] /\ sent \in [Conns -> 0 .. MaxData]
  /\ hungUp \subseteq Conns /\ shut \subseteq Conns /\ quit \subseteq Conns
  /\ fdOf \in [FDs -> Conns \union {None}] /\ sockets \in [FDs -> Conns \union {None}]
  /\ sessions \in [FDs -> Conns \union {None}]
  /\ Recv \subseteq FDs /\ test \subseteq FDs \union {Listener}
  /\ closing \in Seq(IteratorSet) /\ events \in Seq(EventSet)
  /\ mpc \in {"select", "wait", "accept", "scan", "hangup", "close", "erase"}
  /\ at \in FDs \union {None}
  /\ qpc \in Kinds \union {"idle", "quitClose", "quitForget"}
  /\ ev \in EventSet \union {NoEvent} /\ sock \in Conns \union {None}
  /\ senders \subseteq EventSet
  /\ strayed \subseteq Conns \X Conns

-----------------------------------------------------------------------------
(* Safety. *)

\* No connection is left behind: whenever the main thread is about to wait, it
\* watches every open descriptor and has a Socket for it, so that what its
\* client sends, or its end, will be noticed.  Two threads close descriptors
\* and queue Sockets for closing here, and numbers are used again.
OpenAreServed ==
  mpc = "select" /\ ~crashed =>
    \A fd \in FDs : fdOf[fd] # None => fd \in Recv /\ sockets[fd] # None

\* As long as no client has quit, the descriptors the process has open, the
\* ones it watches and the keys of the map agree whenever the main thread is
\* about to wait, and each Socket is for the connection that has its number.
TablesAgree ==
  mpc = "select" /\ quit = {} =>
    /\ sockets = fdOf
    /\ Recv = {fd \in FDs : fdOf[fd] # None}

\* As long as no client has quit, every iterator ConnectionMgr has queued is
\* for a node that is still in the map, and none is queued twice: closing the
\* pending sockets touches no erased node.
ClosingIsLive ==
  quit = {} =>
    /\ \A i \in DOMAIN closing : Live(closing[i])
    /\ \A i, j \in DOMAIN closing : i # j => closing[i] # closing[j]

\* The server dies of a dangling iterator or a null Socket only after a QUIT.
CrashOnlyByQuit == crashed => quit # {}

\* As long as no client has quit, a connection never finds the session of another
\* one under its number, however late the last requests of a client that hung up
\* and its disconnect are served.  (A QUIT ends a connection without the event
\* that erases its session.)
SessionsInTurn == qpc = "connect" /\ quit = {} => sessions[ev.fd] = None

\* As long as no client has quit, a reply reaches another client only when the one
\* that asked has hung up.
StrayOnlyAfterHangUp == quit = {} => \A s \in strayed : s[1] \in hungUp

-----------------------------------------------------------------------------
(* Liveness, under FairSpec. *)

\* Every descriptor is in use and a client waits to be accepted: each iteration
\* then ends at accept, and no socket is served or closed any more.
Exhausted == backlog # <<>> /\ \A fd \in FDs : fdOf[fd] # None

\* Unless the process runs out of descriptors, what an accepted client sends is
\* handed to the library, however many others come, send and go, and even when
\* the client hangs up at once.
RequestsServed ==
  \A c \in Conns :
    (c \in Accepted /\ inbox[c] > 0)
      ~> ((qpc = "recieve" /\ ev.conn = c) \/ Exhausted)

\* Unless the process runs out of descriptors, that of a client that has hung up
\* is closed.
HungUpReleased ==
  \A c \in Conns : (c \in Accepted /\ c \in hungUp) ~> (c \notin Accepted \/ Exhausted)
=============================================================================
