------------------------- MODULE ConnectionsProofs -------------------------
(***************************************************************************)
(* Proofs about Connections for any number of clients, descriptors and     *)
(* requests, and every library: type correctness, that no open connection  *)
(* is left unwatched, and, as long as no client has quit, that the tables  *)
(* agree, that closing touches no erased node, that a session is never     *)
(* another client's, and whom a stray reply can be for.                    *)
(***************************************************************************)
EXTENDS Connections, SequenceTheorems, WellFoundedInduction, TLAPS

-----------------------------------------------------------------------------
(* The inductive invariant. *)

\* What the places of the two threads say about what they go on with; what has not
\* been received was sent.
PlacesOK ==
  /\ \A c \in Conns : inbox[c] <= sent[c]
  /\ mpc = "hangup" => at \in FDs /\ sockets[at] # None
  /\ mpc = "erase" => closing # <<>>
  /\ qpc # "idle" => ev \in EventSet

TypeInv == TypeOK /\ PlacesOK

\* A Socket for fd waits to be closed.
Queued(fd) == \E i \in DOMAIN closing : closing[i].fd = fd

Serving == {"scan", "hangup", "close", "erase"}

\* An open descriptor has a Socket, and is watched unless it is about to be closed
\* in this iteration, whoever queued it.
ServedInv ==
  /\ \A fd \in FDs : fdOf[fd] # None => sockets[fd] # None
  /\ mpc = "erase" => fdOf[Head(closing).fd] = None
  /\ mpc = "hangup" => Queued(at)
  /\ \A fd \in FDs : fdOf[fd] # None /\ fd \notin Recv => mpc \in Serving /\ Queued(fd)

\* Until a client quits: the map is the descriptors, but for a Socket between its
\* close and its erase; what waits to be closed is live, once, and not served.
QuietInv ==
  /\ ~crashed
  /\ qpc \notin {"quitClose", "quitForget"}
  /\ closing # <<>> => mpc \in Serving
  /\ \A i \in DOMAIN closing : Live(closing[i])
  /\ \A i, j \in DOMAIN closing : closing[i].fd = closing[j].fd => i = j
  /\ \A fd \in FDs : fdOf[fd] = sockets[fd] \/ (mpc = "erase" /\ fd = Head(closing).fd)
  /\ \A fd \in Recv : fdOf[fd] # None
  /\ \A fd \in FDs : Queued(fd) => fd \notin test /\ (fd \in Recv => mpc = "hangup" /\ at = fd)
  /\ test \subseteq Recv \union {Listener}

\* Until a client quits: only connections that were hung up are shut down or wait
\* to be closed, and an event's number is its connection's unless that was hung up.
Addressed(e) == fdOf[e.fd] = e.conn \/ e.conn \in hungUp

AddressInv ==
  /\ shut \subseteq hungUp
  /\ \A i \in DOMAIN closing : closing[i].conn \in hungUp
  /\ \A i \in DOMAIN events : Addressed(events[i])
  /\ qpc # "idle" => Addressed(ev)
  /\ \A e \in senders : Addressed(e)
  /\ \A s \in strayed : s[1] \in hungUp

\* After the first n events that wait there is no session under fd.
ClosedAfter(fd, n) ==
  \/ \E j \in 1 .. n : /\ events[j].fd = fd /\ events[j].kind = "disconnect"
                       /\ \A k \in (j + 1) .. n : events[k].fd # fd
  \/ /\ \A k \in 1 .. n : events[k].fd # fd
     /\ IF qpc # "idle" /\ ev.fd = fd THEN qpc = "disconnect" ELSE sessions[fd] = None

\* Until a client quits: there is none when a connect event has its turn, nor when
\* a number is free or its end has been posted.
SessionInv ==
  /\ \A i \in DOMAIN events : events[i].kind = "connect" => ClosedAfter(events[i].fd, i - 1)
  /\ qpc = "connect" => sessions[ev.fd] = None
  /\ \A fd \in FDs :
       fdOf[fd] = None \/ (Queued(fd) /\ ~(mpc = "hangup" /\ at = fd))
         => ClosedAfter(fd, Len(events))

\* HTTP defines OnRecieve only, so no other event is posted.
HttpInv ==
  library = "http" => /\ \A i \in DOMAIN events : events[i].kind = "recieve"
                      /\ qpc \in {"idle", "recieve"}

\* The inductive invariant: the parts that hold always, and those that a QUIT ends.
IInv ==
  /\ TypeInv /\ ServedInv /\ HttpInv
  /\ quit = {} => QuietInv /\ AddressInv /\ (HasSessions => SessionInv)

-----------------------------------------------------------------------------
(* The queues as sequences. *)

\* What a queue is after a push.
LEMMA Pushed ==
  ASSUME NEW S, NEW q \in Seq(S), NEW e \in S
  PROVE  /\ Append(q, e) \in Seq(S)
         /\ DOMAIN Append(q, e) = 1 .. (Len(q) + 1) /\ Len(Append(q, e)) = Len(q) + 1
         /\ DOMAIN q = 1 .. Len(q) /\ Len(q) \in Nat
         /\ \A i \in 1 .. Len(q) : Append(q, e)[i] = q[i]
         /\ Append(q, e)[Len(q) + 1] = e
BY AppendProperties, LenProperties

\* What a queue is after a pop.
LEMMA Popped ==
  ASSUME NEW S, NEW q \in Seq(S), q # <<>>
  PROVE  /\ Head(q) \in S /\ Head(q) = q[1] /\ Tail(q) \in Seq(S)
         /\ Len(q) \in Nat \ {0} /\ DOMAIN q = 1 .. Len(q)
         /\ DOMAIN Tail(q) = 1 .. (Len(q) - 1) /\ Len(Tail(q)) = Len(q) - 1
         /\ \A i \in 1 .. (Len(q) - 1) : Tail(q)[i] = q[i + 1]
<1>1. Len(q) \in Nat \ {0}
  BY EmptySeq
<1>2. DOMAIN q = 1 .. Len(q) /\ DOMAIN Tail(q) = 1 .. Len(Tail(q))
  BY LenProperties, HeadTailProperties
<1> QED  BY <1>1, <1>2, HeadTailProperties

-----------------------------------------------------------------------------
(* Type correctness. *)

\* Numbers that are used for nothing are no descriptor and no connection.
LEMMA NoneOutside == None \notin FDs /\ None \notin Conns /\ Listener \notin FDs
BY ConnectionBounds DEF None, Listener, FDs, Conns

\* The socket the main thread serves next is one that select reported and that has
\* a Socket: of a set of numbers there is a least one.
LEMMA ServedIsReady ==
  ASSUME TypeOK, NEW fd \in FDs, ServeSocket(fd)
  PROVE  fd \in test /\ sockets[fd] # None
<1> DEFINE R == {ss \in Nat \X Nat : ss[1] < ss[2]}
<1>1. Unserved \subseteq Nat /\ Unserved # {}
  <2>1. FDs \union {Listener} \subseteq Nat
    BY ConnectionBounds DEF FDs, Listener
  <2> QED  BY <2>1 DEF TypeOK, Unserved, ServeSocket
<1>2. IsWellFoundedOn(R, Nat)
  BY NatLessThanWellFounded DEF OpToRel
<1> HIDE DEF R
<1>3. PICK x \in Unserved : \A y \in Unserved : ~ (<<y, x>> \in R)
  BY <1>1, <1>2, WFMin
<1>4. \A y \in Unserved : x <= y
  <2> HIDE DEF Unserved
  <2>1. \A y \in Unserved : ~(y < x)
    BY <1>1, <1>3 DEF R
  <2> QED  BY <1>1, <2>1
<1>5. Min(Unserved) \in Unserved
  <2> HIDE DEF Unserved
  <2> QED  BY <1>4 DEF Min
<1> QED  BY <1>5 DEF ServeSocket, Unserved

\* A push to the queue of events.
LEMMA PostType ==
  ASSUME TypeOK, NEW kind \in Kinds, NEW fd \in FDs, NEW c \in Conns, Post(kind, fd, c)
  PROVE  events' \in Seq(EventSet)
<1>1. [kind |-> kind, fd |-> fd, conn |-> c] \in EventSet
  BY DEF EventSet
<1> QED  BY <1>1, Pushed DEF Post, TypeOK

\* A push to the queue of pending closes.
LEMMA IteratorType ==
  ASSUME TypeOK, NEW fd \in FDs, sockets[fd] # None
  PROVE  Iterator(fd) \in IteratorSet /\ Append(closing, Iterator(fd)) \in Seq(IteratorSet)
<1>1. Iterator(fd) \in IteratorSet
  BY DEF TypeOK, Iterator, IteratorSet
<1> QED  BY <1>1, Pushed DEF TypeOK

\* A pop from it.
LEMMA NextPending ==
  ASSUME TypeOK, closing # <<>>
  PROVE  /\ Head(closing).fd \in FDs /\ Head(closing).conn \in Conns
         /\ Tail(closing) \in Seq(IteratorSet)
<1>1. Head(closing) \in IteratorSet /\ Tail(closing) \in Seq(IteratorSet)
  BY HeadTailProperties DEF TypeOK
<1> QED  BY <1>1 DEF IteratorSet

\* A reply strays from one client to another.
LEMMA SendType ==
  ASSUME TypeOK, NEW e \in EventSet, Send(e)
  PROVE  strayed' \subseteq Conns \X Conns
BY DEF TypeOK, Send, EventSet

\* A shutdown shuts a connection.
LEMMA ShutType ==
  ASSUME TypeOK, NEW fd \in FDs
  PROVE  Shut(fd) \subseteq Conns
BY DEF TypeOK, Shut

\* No step of a client, of the main thread or of the queue thread leaves the types.
LEMMA ClientType == TypeInv /\ Client /\ UNCHANGED library => TypeInv'
<1> SUFFICES ASSUME TypeInv, UNCHANGED library, NEW c \in Conns,
                    Connect(c) \/ SendRequest(c) \/ HangUp(c)
             PROVE  TypeInv'
  BY DEF Client
<1> USE DEF TypeInv, TypeOK, PlacesOK, clientVars, kernelVars, tableVars, mainVars, queueVars
<1>1. CASE Connect(c)
  <2>1. backlog' \in Seq(Conns)
    BY <1>1, Pushed DEF Connect
  <2> QED  BY <1>1, <2>1 DEF Connect
<1>2. CASE SendRequest(c)
  <2>1. /\ inbox[c] \in Nat /\ sent[c] \in Nat /\ inbox[c] <= sent[c] /\ sent[c] < MaxData
        /\ inbox' = [inbox EXCEPT ![c] = inbox[c] + 1] /\ sent' = [sent EXCEPT ![c] = sent[c] + 1]
    BY <1>2, ConnectionBounds DEF SendRequest
  <2>2. inbox[c] + 1 \in 0 .. MaxData /\ sent[c] + 1 \in 0 .. MaxData
    BY <2>1, ConnectionBounds
  <2>3. inbox' \in [Conns -> 0 .. MaxData] /\ sent' \in [Conns -> 0 .. MaxData]
    BY <2>1, <2>2
  <2>4. \A d \in Conns : inbox'[d] <= sent'[d]
    BY <2>1
  <2> QED  BY <1>2, <2>3, <2>4 DEF SendRequest
<1>3. CASE HangUp(c)
  BY <1>3 DEF HangUp
<1> QED  BY <1>1, <1>2, <1>3

\* Nor does the main thread, in any of its places.
LEMMA MainType == TypeInv /\ Main /\ UNCHANGED library => TypeInv'
<1> SUFFICES ASSUME TypeInv, Main, UNCHANGED library  PROVE TypeInv'
  OBVIOUS
<1> USE NoneOutside
        DEF TypeInv, TypeOK, PlacesOK, clientVars, kernelVars, tableVars, mainVars, queueVars,
            Keep, MainAt
<1>1. CASE EnterSelect
  BY <1>1 DEF EnterSelect
<1>2. CASE SelectReturns
  <2>1. Ready \subseteq FDs \union {Listener}
    BY DEF Ready, Watched
  <2> QED  BY <1>2, <2>1 DEF SelectReturns
<1>3. CASE SelectTimesOut
  BY <1>3 DEF SelectTimesOut
<1>4. CASE AcceptFails
  BY <1>4 DEF AcceptFails
<1>5. CASE Accept
  <2>1. PICK fd \in FDs : AcceptAt(fd) /\ Recv' = Recv \union {fd}
    BY <1>5 DEF Accept
  <2>2. Head(backlog) \in Conns /\ Tail(backlog) \in Seq(Conns)
    BY <1>5, Popped DEF Accept
  <2>3. events' \in Seq(EventSet)
    BY <2>1, <2>2, PostType DEF AcceptAt, Kinds
  <2> QED  BY <1>5, <2>1, <2>2, <2>3 DEF Accept, AcceptAt
<1>6. ASSUME NEW fd \in FDs, Recieve(fd)  PROVE TypeInv'
  <2>1. CASE RecieveData(fd)
    <3>1. fdOf[fd] \in Conns /\ 0 \in 0 .. MaxData
      BY <2>1, ConnectionBounds DEF RecieveData
    <3>2. events' \in Seq(EventSet)
      BY <2>1, <3>1, PostType DEF RecieveData, Kinds
    <3>3. inbox' \in [Conns -> 0 .. MaxData] /\ \A c \in Conns : inbox'[c] <= sent[c]
      BY <2>1, <3>1 DEF RecieveData
    <3> QED  BY <2>1, <3>2, <3>3 DEF RecieveData, ServeSocket
  <2>2. CASE RecieveEnd(fd)
    <3>1. sockets[fd] # None
      BY <2>2, ServedIsReady DEF RecieveEnd
    <3>2. closing' \in Seq(IteratorSet)
      BY <2>2, <3>1, IteratorType DEF RecieveEnd
    <3> QED  BY <2>2, <3>1, <3>2 DEF RecieveEnd, ServeSocket
  <2>3. CASE RecieveBadFd(fd)
    <3>1. sockets[fd] # None
      BY <2>3, ServedIsReady DEF RecieveBadFd
    <3>2. closing' \in Seq(IteratorSet)
      BY <2>3, <3>1, IteratorType DEF RecieveBadFd
    <3> QED  BY <2>3, <3>2 DEF RecieveBadFd, ServeSocket
  <2>4. CASE RecieveNothing(fd)
    BY <2>4 DEF RecieveNothing, ServeSocket
  <2> QED  BY <1>6, <2>1, <2>2, <2>3, <2>4 DEF Recieve
<1>7. CASE PostDisconnect
  <2>1. events' \in Seq(EventSet)
    BY <1>7, PostType DEF PostDisconnect, Kinds
  <2> QED  BY <1>7, <2>1 DEF PostDisconnect
<1>8. CASE ScanEnds
  BY <1>8 DEF ScanEnds
<1>9. CASE NothingPending
  BY <1>9 DEF NothingPending
<1>10. CASE ClosePending
  <2>1. Head(closing).fd \in FDs
    BY <1>10, NextPending DEF ClosePending
  <2>2. Shut(Head(closing).fd) \subseteq Conns
    BY <2>1, ShutType
  <2> QED  BY <1>10, <2>1, <2>2 DEF ClosePending
<1>11. CASE ErasePending
  <2>1. Head(closing).fd \in FDs /\ Tail(closing) \in Seq(IteratorSet)
    BY <1>11, NextPending DEF ErasePending
  <2> QED  BY <1>11, <2>1 DEF ErasePending
<1> QED  BY <1>1, <1>2, <1>3, <1>4, <1>5, <1>6, <1>7, <1>8, <1>9, <1>10, <1>11 DEF Main

\* An append of the queue thread to the pending closes.
LEMMA CloseSocketType ==
  ASSUME TypeOK, NEW fd \in FDs, CloseSocketByFd(fd)
  PROVE  closing' \in Seq(IteratorSet) /\ (closing # <<>> => closing' # <<>>)
<1>1. CASE sockets[fd] = None
  BY <1>1 DEF CloseSocketByFd, TypeOK
<1>2. CASE sockets[fd] # None
  <2>1. Iterator(fd) \in IteratorSet /\ closing \in Seq(IteratorSet)
    BY <1>2, IteratorType DEF TypeOK
  <2>2. closing' = Append(closing, Iterator(fd))
    BY <1>2 DEF CloseSocketByFd
  <2> QED  BY <2>1, <2>2, AppendProperties
<1> QED  BY <1>1, <1>2

\* Nor do the queue thread and the threads it starts for replies.
LEMMA QueueType == TypeInv /\ (Queue \/ SendOverNewThread) /\ UNCHANGED library => TypeInv'
<1> SUFFICES ASSUME TypeInv, Queue \/ SendOverNewThread, UNCHANGED library  PROVE TypeInv'
  OBVIOUS
<1> USE NoneOutside
        DEF TypeInv, TypeOK, PlacesOK, clientVars, kernelVars, tableVars, mainVars, queueVars,
            Other, QueueAt
<1>1. CASE TakeEvent
  <2>1. Head(events) \in EventSet /\ Tail(events) \in Seq(EventSet)
    BY <1>1, Popped DEF TakeEvent
  <2>2. ev' \in EventSet /\ ev'.fd \in FDs /\ ev'.kind \in Kinds
    BY <1>1, <2>1 DEF TakeEvent, EventSet
  <2>3. sock' \in Conns \union {None} /\ qpc' \in Kinds
    BY <1>1, <2>2 DEF TakeEvent
  <2> QED  BY <1>1, <2>1, <2>2, <2>3 DEF TakeEvent
<1>2. ASSUME ev \in EventSet, Reply  PROVE strayed' \subseteq Conns \X Conns
  BY <1>2, SendType DEF Reply
<1>3. ASSUME ev \in EventSet, OpenSession
      PROVE  sessions' \in [FDs -> Conns \union {None}]
  BY <1>3 DEF OpenSession, EventSet
<1>4. ev \in EventSet => ev.fd \in FDs /\ ev.conn \in Conns
  BY DEF EventSet
<1>5. CASE OnConnect
  BY <1>5, <1>2, <1>3 DEF OnConnect, Return
<1>6. CASE OnHttpRequest
  <2>1. ev \in EventSet /\ qpc' = "idle" /\ ev' = NoEvent /\ sock' = None
    BY <1>6 DEF OnHttpRequest, Return
  <2>2. strayed' \subseteq Conns \X Conns /\ senders' \subseteq EventSet
    BY <1>6, <2>1, <1>2 DEF OnHttpRequest
  <2> QED  BY <1>6, <2>1, <2>2 DEF OnHttpRequest
<1>7. CASE OnCommand
  BY <1>7, <1>2, <1>3 DEF OnCommand, Return
<1>8. CASE OnDisconnect
  BY <1>8, <1>4 DEF OnDisconnect, Return
<1>9. CASE OnSmtpQuit
  <2>1. ev \in EventSet /\ ev.fd \in FDs /\ ev.conn \in Conns
    BY <1>9, <1>4 DEF OnSmtpQuit
  <2>2. closing' \in Seq(IteratorSet) /\ (closing # <<>> => closing' # <<>>)
    BY <1>9, <2>1, CloseSocketType DEF OnSmtpQuit
  <2> QED  BY <1>9, <1>3, <2>1, <2>2 DEF OnSmtpQuit, Return
<1>10. CASE OnFtpQuit
  <2>1. ev \in EventSet /\ ev.fd \in FDs /\ ev.conn \in Conns
    BY <1>10, <1>4 DEF OnFtpQuit
  <2>2. Shut(ev.fd) \subseteq Conns
    BY <2>1, ShutType
  <2> QED  BY <1>10, <1>2, <2>1, <2>2 DEF OnFtpQuit
<1>11. CASE FtpQuitCloses
  <2>1. ev \in EventSet /\ ev.fd \in FDs
    BY <1>11, <1>4 DEF FtpQuitCloses
  <2>2. Shut(ev.fd) \subseteq Conns
    BY <2>1, ShutType
  <2> QED  BY <1>11, <2>1, <2>2 DEF FtpQuitCloses
<1>12. CASE FtpQuitForgets
  <2>1. ev \in EventSet /\ ev.fd \in FDs
    BY <1>12, <1>4 DEF FtpQuitForgets
  <2>2. closing' \in Seq(IteratorSet) /\ (closing # <<>> => closing' # <<>>)
    BY <1>12, <2>1, CloseSocketType DEF FtpQuitForgets
  <2> QED  BY <1>12, <2>1, <2>2 DEF FtpQuitForgets, Return
<1>13. CASE SendOverNewThread
  <2>1. PICK e \in senders : Send(e) /\ senders' = senders \ {e}
    BY <1>13 DEF SendOverNewThread
  <2>2. strayed' \subseteq Conns \X Conns
    BY <2>1, SendType
  <2> QED  BY <1>13, <2>1, <2>2 DEF SendOverNewThread
<1> QED  BY <1>1, <1>5, <1>6, <1>7, <1>8, <1>9, <1>10, <1>11, <1>12, <1>13 DEF Queue

\* The initial state has the types.
LEMMA TypeInit == Init => TypeInv
<1> SUFFICES ASSUME Init  PROVE TypeInv
  OBVIOUS
<1>1. <<>> \in Seq(Conns) /\ <<>> \in Seq(IteratorSet) /\ <<>> \in Seq(EventSet)
  BY EmptySeq
<1>2. 0 \in 0 .. MaxData
  BY ConnectionBounds
<1>3. /\ inbox \in [Conns -> 0 .. MaxData] /\ sent \in [Conns -> 0 .. MaxData]
      /\ \A c \in Conns : inbox[c] <= sent[c]
  BY <1>2 DEF Init
<1>4. backlog \in Seq(Conns) /\ closing \in Seq(IteratorSet) /\ events \in Seq(EventSet)
  BY <1>1 DEF Init
<1>5. /\ fdOf \in [FDs -> Conns \union {None}] /\ sockets \in [FDs -> Conns \union {None}]
      /\ sessions \in [FDs -> Conns \union {None}]
  BY DEF Init
<1> QED  BY <1>3, <1>4, <1>5 DEF Init, TypeInv, TypeOK, PlacesOK

\* Every step keeps them.
LEMMA TypeStep == TypeInv /\ [Next]_vars => TypeInv'
<1> SUFFICES ASSUME TypeInv, [Next]_vars  PROVE TypeInv'
  OBVIOUS
<1>1. CASE Next
  BY <1>1, ClientType, MainType, QueueType DEF Next
<1>2. CASE UNCHANGED vars
  BY <1>2 DEF TypeInv, TypeOK, PlacesOK, vars, clientVars, kernelVars, tableVars, mainVars,
              queueVars
<1> QED  BY <1>1, <1>2

-----------------------------------------------------------------------------
(* The queue of pending closes. *)

\* A push queues the descriptor, and leaves the head.
LEMMA MoreQueued ==
  ASSUME TypeOK, NEW i \in IteratorSet, closing' = Append(closing, i)
  PROVE  /\ \A fd \in FDs : Queued(fd)' <=> Queued(fd) \/ fd = i.fd
         /\ closing # <<>> => Head(closing') = Head(closing)
         /\ closing' # <<>>
<1>1. closing \in Seq(IteratorSet)
  BY DEF TypeOK
<1>2. /\ DOMAIN closing' = 1 .. (Len(closing) + 1)
      /\ DOMAIN closing = 1 .. Len(closing) /\ Len(closing) \in Nat
      /\ \A k \in 1 .. Len(closing) : closing'[k] = closing[k]
      /\ closing'[Len(closing) + 1] = i
  BY <1>1, Pushed
<1>3. ASSUME NEW fd \in FDs  PROVE Queued(fd)' <=> Queued(fd) \/ fd = i.fd
  BY <1>2 DEF Queued
<1>4. closing # <<>> => Head(closing) = closing[1] /\ Len(closing) >= 1
  BY <1>1, Popped
<1>5. closing' \in Seq(IteratorSet) /\ closing' # <<>>
  BY <1>1, AppendProperties
<1>6. Head(closing') = closing'[1]
  BY <1>5, Popped
<1> QED  BY <1>2, <1>3, <1>4, <1>5, <1>6

\* A pop unqueues at most the head's descriptor.
LEMMA LessQueued ==
  ASSUME TypeOK, closing # <<>>, closing' = Tail(closing)
  PROVE  \A fd \in FDs : /\ Queued(fd)' => Queued(fd)
                         /\ Queued(fd) => Queued(fd)' \/ fd = Head(closing).fd
<1>1. closing \in Seq(IteratorSet)
  BY DEF TypeOK
<1>2. /\ Head(closing) = closing[1] /\ Len(closing) \in Nat \ {0}
      /\ DOMAIN closing = 1 .. Len(closing) /\ DOMAIN closing' = 1 .. (Len(closing) - 1)
      /\ \A k \in 1 .. (Len(closing) - 1) : closing'[k] = closing[k + 1]
  BY <1>1, Popped
<1> SUFFICES ASSUME NEW fd \in FDs
             PROVE  /\ Queued(fd)' => Queued(fd)
                    /\ Queued(fd) => Queued(fd)' \/ fd = Head(closing).fd
  OBVIOUS
<1>3. ASSUME Queued(fd)'  PROVE Queued(fd)
  <2>1. PICK k \in 1 .. (Len(closing) - 1) : closing[k + 1].fd = fd
    BY <1>2, <1>3 DEF Queued
  <2>2. k + 1 \in DOMAIN closing
    BY <1>2
  <2> QED  BY <2>1, <2>2 DEF Queued
<1>4. ASSUME Queued(fd), fd # Head(closing).fd  PROVE Queued(fd)'
  <2>1. PICK k \in 1 .. Len(closing) : closing[k].fd = fd
    BY <1>2, <1>4 DEF Queued
  <2>2. k # 1 /\ k - 1 \in 1 .. (Len(closing) - 1) /\ (k - 1) + 1 = k
    BY <1>2, <1>4, <2>1
  <2>3. closing'[k - 1].fd = fd
    BY <1>2, <2>1, <2>2
  <2> QED  BY <1>2, <2>2, <2>3 DEF Queued
<1> QED  BY <1>3, <1>4

\* Steps that have nothing to do with descriptors and tables.
LEMMA AsideSteps ==
  ASSUME Client \/ TakeEvent \/ OnConnect \/ OnHttpRequest \/ OnCommand \/ OnDisconnect
         \/ SendOverNewThread
  PROVE  UNCHANGED <<fdOf, shut, Recv, sockets, closing, mpc, test, at, quit, crashed>>
BY DEF Client, Connect, SendRequest, HangUp, TakeEvent, OnConnect, OnHttpRequest, OnCommand,
       OnDisconnect, SendOverNewThread, Other, clientVars, kernelVars, tableVars, mainVars,
       queueVars

-----------------------------------------------------------------------------
(* No open connection is left behind. *)

\* No step leaves an open descriptor without a Socket or unwatched at the select.
LEMMA ServedStep == TypeInv /\ ServedInv /\ [Next]_vars => ServedInv'
<1> SUFFICES ASSUME TypeInv, ServedInv, [Next]_vars  PROVE ServedInv'
  OBVIOUS
<1> USE NoneOutside
<1>t. /\ fdOf \in [FDs -> Conns \union {None}] /\ sockets \in [FDs -> Conns \union {None}]
      /\ Recv \subseteq FDs /\ closing \in Seq(IteratorSet)
  BY DEF TypeInv, TypeOK
<1>0. ASSUME UNCHANGED <<fdOf, shut, Recv, sockets, closing, mpc, test, at>>  PROVE ServedInv'
  BY <1>0 DEF ServedInv, Queued
<1>1. CASE EnterSelect \/ SelectReturns \/ SelectTimesOut \/ AcceptFails
  BY <1>1 DEF EnterSelect, SelectReturns, SelectTimesOut, AcceptFails, MainAt, ServedInv, Queued,
              Serving, kernelVars, tableVars
<1>2. CASE Accept
  <2>1. PICK fd \in FDs : AcceptAt(fd) /\ Recv' = Recv \union {fd}
    BY <1>2 DEF Accept
  <2>2. Head(backlog) \in Conns
    BY <1>2, Popped DEF Accept, TypeInv, TypeOK
  <2>3. closing' = closing /\ mpc = "accept" /\ mpc' = "scan"
    BY <1>2 DEF Accept, MainAt
  <2>4. \A f \in FDs : fdOf'[f] # None => sockets'[f] # None
    BY <1>t, <2>1, <2>2 DEF AcceptAt, ServedInv
  <2>5. \A f \in FDs : fdOf'[f] # None => f \in Recv'
    BY <1>t, <2>1, <2>3 DEF AcceptAt, ServedInv, Serving
  <2> QED  BY <2>3, <2>4, <2>5 DEF ServedInv
<1>3. ASSUME NEW fd \in FDs, Recieve(fd)  PROVE ServedInv'
  <2>1. CASE RecieveData(fd) \/ RecieveNothing(fd)
    BY <2>1 DEF RecieveData, RecieveNothing, ServeSocket, MainAt, ServedInv, Queued, kernelVars,
                tableVars
  <2>2. ASSUME RecieveEnd(fd) \/ RecieveBadFd(fd)
        PROVE  /\ mpc = "scan" /\ UNCHANGED <<fdOf, sockets>>
               /\ \A f \in FDs : Queued(f)' <=> Queued(f) \/ f = fd
    <3>1. Iterator(fd) \in IteratorSet /\ Iterator(fd).fd = fd
      <4>1. sockets[fd] # None
        BY <2>2, ServedIsReady DEF RecieveEnd, RecieveBadFd, TypeInv
      <4> QED  BY <4>1, IteratorType DEF TypeInv, Iterator
    <3>2. closing' = Append(closing, Iterator(fd))
      BY <2>2 DEF RecieveEnd, RecieveBadFd
    <3>3. \A f \in FDs : Queued(f)' <=> Queued(f) \/ f = fd
      BY <3>1, <3>2, MoreQueued DEF TypeInv
    <3> QED  BY <2>2, <3>3 DEF RecieveEnd, RecieveBadFd, ServeSocket, MainAt, kernelVars
  <2>3. CASE RecieveEnd(fd)
    <3>1. mpc' = "hangup" /\ at' = fd /\ UNCHANGED Recv
      BY <2>3 DEF RecieveEnd
    <3> QED  BY <2>2, <2>3, <3>1 DEF ServedInv, Serving
  <2>4. CASE RecieveBadFd(fd)
    <3>1. mpc' = "scan" /\ Recv' = Recv \ {fd}
      BY <2>2, <2>4 DEF RecieveBadFd
    <3> QED  BY <2>2, <2>4, <3>1 DEF ServedInv, Serving
  <2> QED  BY <1>3, <2>1, <2>3, <2>4 DEF Recieve
<1>4. CASE PostDisconnect
  BY <1>4, <1>t DEF PostDisconnect, MainAt, ServedInv, Queued, Serving, kernelVars
<1>5. CASE ScanEnds
  BY <1>5 DEF ScanEnds, MainAt, ServedInv, Queued, Serving, kernelVars, tableVars
<1>6. CASE NothingPending
  <2>1. \A fd \in FDs : ~Queued(fd)
    BY <1>6 DEF NothingPending, Queued
  <2> QED  BY <1>6, <2>1 DEF NothingPending, MainAt, ServedInv, kernelVars, tableVars
<1>7. CASE ClosePending
  <2>1. Head(closing).fd \in FDs
    BY <1>7, NextPending DEF ClosePending, TypeInv
  <2>2. UNCHANGED <<Recv, sockets, closing, at>> /\ mpc = "close"
    BY <1>7 DEF ClosePending, MainAt, tableVars
  <2>3. CASE fdOf' = [fdOf EXCEPT ![Head(closing).fd] = None] /\ mpc' = "erase"
    BY <1>t, <2>1, <2>2, <2>3 DEF ServedInv, Queued, Serving
  <2>4. CASE UNCHANGED <<fdOf, mpc>>
    BY <2>2, <2>4 DEF ServedInv, Queued, Serving
  <2> QED  BY <1>7, <2>3, <2>4 DEF ClosePending
<1>8. CASE ErasePending
  <2>1. /\ Head(closing).fd \in FDs /\ closing # <<>> /\ fdOf[Head(closing).fd] = None
    BY <1>8, NextPending DEF ErasePending, MainAt, TypeInv, PlacesOK, ServedInv
  <2>2. /\ UNCHANGED <<Recv, fdOf>> /\ mpc = "erase" /\ mpc' = "close"
        /\ closing' = Tail(closing)
    BY <1>8 DEF ErasePending, MainAt, kernelVars
  <2>3. \A fd \in FDs : fdOf[fd] # None => (sockets'[fd] = sockets[fd])
    BY <1>8, <1>t, <2>1 DEF ErasePending
  <2>4. \A fd \in FDs : Queued(fd) /\ fdOf[fd] # None => Queued(fd)'
    BY <2>1, <2>2, LessQueued DEF TypeInv
  <2> QED  BY <2>2, <2>3, <2>4 DEF ServedInv, Serving
<1>9. ASSUME NEW fd \in FDs, CloseSocketByFd(fd), UNCHANGED <<fdOf, Recv, sockets, mpc, at>>
      PROVE  ServedInv'
  <2>1. CASE sockets[fd] = None
    BY <1>9, <2>1 DEF CloseSocketByFd, ServedInv, Queued
  <2>2. CASE sockets[fd] # None
    <3>1. Iterator(fd) \in IteratorSet /\ closing' = Append(closing, Iterator(fd))
      BY <1>9, <2>2, IteratorType DEF CloseSocketByFd, TypeInv
    <3>2. \A f \in FDs : Queued(f) => Queued(f)'
      BY <3>1, MoreQueued DEF TypeInv
    <3>3. mpc = "erase" => Head(closing') = Head(closing)
      BY <3>1, MoreQueued DEF TypeInv, PlacesOK
    <3>4. mpc = "hangup" => at \in FDs
      BY DEF TypeInv, PlacesOK
    <3> QED  BY <1>9, <3>2, <3>3, <3>4 DEF ServedInv
  <2> QED  BY <2>1, <2>2
<1>10. qpc # "idle" => ev.fd \in FDs
  BY DEF TypeInv, PlacesOK, EventSet
<1>11. CASE OnSmtpQuit
  BY <1>11, <1>9, <1>10 DEF OnSmtpQuit, QueueAt, Other, mainVars, kernelVars
<1>12. CASE OnFtpQuit
  BY <1>12, <1>0 DEF OnFtpQuit, Other, mainVars, tableVars, ServedInv, Queued
<1>13. CASE FtpQuitCloses
  <2>1. ev.fd \in FDs /\ fdOf' = [fdOf EXCEPT ![ev.fd] = None]
    BY <1>13, <1>10 DEF FtpQuitCloses, QueueAt
  <2>2. UNCHANGED <<Recv, sockets, closing, mpc, at>>
    BY <1>13 DEF FtpQuitCloses, Other, mainVars, tableVars
  <2>3. \A fd \in FDs : fdOf'[fd] \in {fdOf[fd], None}
    BY <1>t, <2>1
  <2>4. mpc = "erase" => Head(closing).fd \in FDs
    BY NextPending DEF TypeInv, PlacesOK
  <2> QED  BY <2>2, <2>3, <2>4 DEF ServedInv, Queued
<1>14. CASE FtpQuitForgets
  BY <1>14, <1>9, <1>10 DEF FtpQuitForgets, QueueAt, Other, mainVars, kernelVars
<1>15. CASE UNCHANGED vars
  BY <1>15, <1>0 DEF vars, kernelVars, tableVars, mainVars
<1>16. CASE Client \/ TakeEvent \/ OnConnect \/ OnHttpRequest \/ OnCommand \/ OnDisconnect
            \/ SendOverNewThread
  BY <1>16, <1>0, AsideSteps
<1> QED  BY <1>1, <1>2, <1>3, <1>4, <1>5, <1>6, <1>7, <1>8, <1>11, <1>12, <1>13, <1>14, <1>15,
            <1>16 DEF Next, Main, Queue

-----------------------------------------------------------------------------
(* Until a client quits. *)

\* Until then, no step of the queue thread has to do with tables; once it has
\* happened, it has.
LEMMA QuitStays == TypeInv /\ [Next]_vars => quit \subseteq quit'
BY DEF Next, Client, Connect, SendRequest, HangUp, Main, EnterSelect, SelectReturns,
       SelectTimesOut, AcceptFails, Accept, Recieve, RecieveData, RecieveEnd, RecieveBadFd,
       RecieveNothing, PostDisconnect, ScanEnds, NothingPending, ClosePending, ErasePending,
       Queue, TakeEvent, OnConnect, OnHttpRequest, OnCommand, OnDisconnect, OnSmtpQuit,
       OnFtpQuit, FtpQuitCloses, FtpQuitForgets, SendOverNewThread, Keep, vars, queueVars

\* The steps that are left as long as no client quits.
LEMMA QuietSteps ==
  ASSUME QuietInv, [Next]_vars, quit' = {}
  PROVE  \/ Client \/ TakeEvent \/ OnConnect \/ OnHttpRequest \/ OnCommand \/ OnDisconnect
         \/ SendOverNewThread
         \/ Main
         \/ UNCHANGED vars
<1>1. ~OnSmtpQuit /\ ~OnFtpQuit
  BY DEF OnSmtpQuit, OnFtpQuit
<1>2. ~FtpQuitCloses /\ ~FtpQuitForgets
  BY DEF FtpQuitCloses, FtpQuitForgets, QueueAt, QuietInv
<1> QED  BY <1>1, <1>2 DEF Next, Queue

\* A socket that is served is open, has its number in the tables, and waits for
\* no close.
LEMMA QuietServe ==
  ASSUME TypeInv, QuietInv, NEW fd \in FDs, ServeSocket(fd)
  PROVE  /\ mpc = "scan" /\ fd \in Recv /\ fdOf[fd] \in Conns /\ sockets[fd] = fdOf[fd]
         /\ ~Queued(fd) /\ \A i \in DOMAIN closing : closing[i].fd # fd
<1>1. fd \in test /\ mpc = "scan"
  BY ServedIsReady DEF ServeSocket, MainAt, TypeInv
<1>2. fd \in Recv
  BY <1>1, NoneOutside DEF QuietInv
<1>3. fdOf[fd] \in Conns
  BY <1>2, NoneOutside DEF QuietInv, TypeInv, TypeOK
<1>4. ~Queued(fd)
  BY <1>1 DEF QuietInv
<1> QED  BY <1>1, <1>2, <1>3, <1>4 DEF QuietInv, Queued

\* While no client quits, every step keeps the quiet state.
LEMMA QuietStep ==
  ASSUME TypeInv, ServedInv, QuietInv, [Next]_vars, quit' = {}
  PROVE  QuietInv'
<1> USE NoneOutside
<1>t. /\ fdOf \in [FDs -> Conns \union {None}] /\ sockets \in [FDs -> Conns \union {None}]
      /\ Recv \subseteq FDs /\ closing \in Seq(IteratorSet) /\ test \subseteq FDs \union {Listener}
  BY DEF TypeInv, TypeOK
<1>p. DOMAIN closing = 1 .. Len(closing) /\ Len(closing) \in Nat
  BY <1>t, LenProperties
<1>0. ASSUME UNCHANGED <<fdOf, Recv, sockets, closing, mpc, test, at, crashed>>,
             qpc' \notin {"quitClose", "quitForget"}
      PROVE  QuietInv'
  BY <1>0 DEF QuietInv, Queued, Live
<1>1. CASE Client \/ TakeEvent \/ OnConnect \/ OnHttpRequest \/ OnCommand \/ OnDisconnect
           \/ SendOverNewThread
  <2>1. qpc' \notin {"quitClose", "quitForget"}
    <3>1. CASE TakeEvent
      <4>1. Head(events).kind \in Kinds
        <5>1. Head(events) \in EventSet
          BY <3>1, HeadTailProperties DEF TakeEvent, TypeInv, TypeOK
        <5> QED  BY <5>1 DEF EventSet
      <4> QED  BY <3>1, <4>1 DEF TakeEvent, Kinds
    <3> QED  BY <1>1, <3>1 DEF QuietInv, Client, Connect, SendRequest, HangUp, OnConnect,
                OnHttpRequest, OnCommand, OnDisconnect, SendOverNewThread, Return, Other, queueVars
  <2> QED  BY <1>0, <1>1, <2>1, AsideSteps
<1>2. CASE UNCHANGED vars
  BY <1>0, <1>2 DEF vars, kernelVars, tableVars, mainVars, queueVars, QuietInv
<1>q. ASSUME Main  PROVE qpc' \notin {"quitClose", "quitForget"}
  BY <1>q DEF QuietInv, Main, EnterSelect, SelectReturns, SelectTimesOut, AcceptFails, Accept,
              Recieve, RecieveData, RecieveEnd, RecieveBadFd, RecieveNothing, PostDisconnect,
              ScanEnds, NothingPending, ClosePending, ErasePending, Keep, queueVars
<1>3. CASE EnterSelect \/ SelectTimesOut \/ AcceptFails
  <2>1. closing = <<>>
    BY <1>3 DEF EnterSelect, SelectTimesOut, AcceptFails, MainAt, QuietInv, Serving
  <2>2. /\ UNCHANGED <<fdOf, Recv, sockets, closing, crashed>>
        /\ mpc' # "erase" /\ mpc # "erase"
        /\ test' \subseteq test \union {Listener} /\ ~crashed
    BY <1>3 DEF EnterSelect, SelectTimesOut, AcceptFails, MainAt, kernelVars, tableVars
  <2>3. \A fd \in FDs : ~Queued(fd) /\ ~Queued(fd)'
    BY <2>1, <2>2 DEF Queued
  <2>4. test' \subseteq Recv' \union {Listener}
    BY <2>2 DEF QuietInv
  <2> QED  BY <1>3, <1>q, <2>1, <2>2, <2>3, <2>4 DEF QuietInv, Live, Main
<1>4. CASE SelectReturns
  <2>1. closing = <<>>
    BY <1>4 DEF SelectReturns, MainAt, QuietInv, Serving
  <2>2. /\ UNCHANGED <<fdOf, Recv, sockets, closing, crashed>>
        /\ mpc' # "erase" /\ mpc # "erase" /\ ~crashed
    BY <1>4 DEF SelectReturns, MainAt, kernelVars, tableVars
  <2>3. \A fd \in FDs : ~Queued(fd) /\ ~Queued(fd)'
    BY <2>1, <2>2 DEF Queued
  <2>4. test' \subseteq Recv' \union {Listener}
    BY <1>4, <2>2 DEF SelectReturns, Ready, Watched
  <2> QED  BY <1>4, <1>q, <2>1, <2>2, <2>3, <2>4 DEF QuietInv, Live, Main
<1>5. CASE Accept
  <2>1. PICK fd \in FDs : AcceptAt(fd) /\ Recv' = Recv \union {fd}
    BY <1>5 DEF Accept
  <2>2. closing = <<>> /\ closing' = <<>> /\ mpc = "accept" /\ mpc' = "scan" /\ ~crashed /\ ~crashed'
    BY <1>5 DEF Accept, MainAt, QuietInv, Serving
  <2>3. Head(backlog) \in Conns
    BY <1>5, Popped DEF Accept, TypeInv, TypeOK
  <2>4. fdOf[fd] = None /\ sockets = fdOf
    BY <1>t, <2>1, <2>2 DEF AcceptAt, QuietInv
  <2>5. fdOf' = [fdOf EXCEPT ![fd] = Head(backlog)] /\ sockets' = fdOf'
    BY <1>t, <2>1, <2>4 DEF AcceptAt
  <2>6. \A f \in Recv' : fdOf'[f] # None
    BY <1>t, <2>1, <2>3, <2>5 DEF QuietInv
  <2>7. test' \subseteq Recv' \union {Listener}
    BY <1>5, <2>1 DEF Accept, QuietInv
  <2>8. \A f \in FDs : ~Queued(f)'
    BY <2>2 DEF Queued
  <2> QED  BY <1>5, <1>q, <2>2, <2>5, <2>6, <2>7, <2>8 DEF QuietInv, Live, Main
<1>6. ASSUME NEW fd \in FDs, Recieve(fd)  PROVE QuietInv'
  <2>1. Main /\ ServeSocket(fd)
    BY <1>6 DEF Main, Recieve, RecieveData, RecieveEnd, RecieveBadFd, RecieveNothing
  <2>2. /\ mpc = "scan" /\ fd \in Recv /\ fdOf[fd] \in Conns /\ sockets[fd] = fdOf[fd]
        /\ ~Queued(fd) /\ \A i \in DOMAIN closing : closing[i].fd # fd
        /\ test' = test \ {fd} /\ ~crashed
    BY <2>1, QuietServe DEF ServeSocket, MainAt
  <2>3. CASE RecieveData(fd) \/ RecieveNothing(fd)
    <3>1. UNCHANGED <<fdOf, Recv, sockets, closing, mpc, at, crashed>>
      BY <2>3 DEF RecieveData, RecieveNothing, kernelVars, tableVars
    <3> QED  BY <1>q, <2>1, <2>2, <3>1 DEF QuietInv, Queued, Live
  <2>4. ~RecieveBadFd(fd)
    BY <2>2 DEF RecieveBadFd
  <2>5. CASE RecieveEnd(fd)
    <3>1. /\ UNCHANGED <<fdOf, Recv, sockets, crashed>> /\ mpc' = "hangup" /\ at' = fd
          /\ closing' = Append(closing, Iterator(fd))
      BY <2>5 DEF RecieveEnd, kernelVars
    <3>2. Iterator(fd) \in IteratorSet /\ Iterator(fd).fd = fd /\ Iterator(fd).conn = sockets[fd]
      BY <2>2, IteratorType DEF TypeInv, Iterator
    <3>3. /\ DOMAIN closing' = 1 .. (Len(closing) + 1)
          /\ \A k \in 1 .. Len(closing) : closing'[k] = closing[k]
          /\ closing'[Len(closing) + 1] = Iterator(fd)
      BY <1>t, <3>1, <3>2, Pushed
    <3>4. \A f \in FDs : Queued(f)' <=> Queued(f) \/ f = fd
      BY <3>1, <3>2, MoreQueued DEF TypeInv
    <3>5. \A i \in DOMAIN closing' : sockets'[closing'[i].fd] = closing'[i].conn
      BY <1>p, <3>1, <3>2, <3>3 DEF QuietInv, Live
    <3>6. \A i, j \in DOMAIN closing' : closing'[i].fd = closing'[j].fd => i = j
      BY <1>p, <2>2, <3>2, <3>3 DEF QuietInv
    <3>7. \A f \in FDs : Queued(f)' => f \notin test' /\ (f \in Recv' => mpc' = "hangup" /\ at' = f)
      BY <2>2, <3>1, <3>4 DEF QuietInv
    <3>8. \A f \in FDs : fdOf'[f] = sockets'[f]
      BY <2>2, <3>1 DEF QuietInv
    <3> QED  BY <1>q, <2>1, <2>2, <3>1, <3>5, <3>6, <3>7, <3>8 DEF QuietInv, Live, Serving
  <2> QED  BY <1>6, <2>3, <2>4, <2>5 DEF Recieve
<1>7. CASE PostDisconnect
  <2>1. /\ UNCHANGED <<fdOf, sockets, closing, test, crashed>> /\ mpc = "hangup" /\ mpc' = "scan"
        /\ Recv' = Recv \ {at} /\ at \in FDs /\ ~crashed /\ Queued(at)
    BY <1>7 DEF PostDisconnect, MainAt, kernelVars, TypeInv, PlacesOK, ServedInv
  <2>2. at \notin test
    BY <2>1 DEF QuietInv
  <2> QED  BY <1>7, <1>q, <2>1, <2>2 DEF QuietInv, Queued, Live, Serving, Main
<1>8. CASE ScanEnds
  <2>1. /\ UNCHANGED <<fdOf, Recv, sockets, closing, crashed>> /\ mpc = "scan" /\ mpc' = "close"
        /\ test' = {} /\ ~crashed
    BY <1>8 DEF ScanEnds, MainAt, kernelVars, tableVars
  <2> QED  BY <1>8, <1>q, <2>1 DEF QuietInv, Queued, Live, Serving, Main
<1>9. CASE NothingPending
  <2>1. /\ UNCHANGED <<fdOf, Recv, sockets, closing, test, crashed>> /\ mpc = "close"
        /\ mpc' = "select" /\ closing = <<>> /\ ~crashed
    BY <1>9 DEF NothingPending, MainAt, kernelVars, tableVars
  <2> QED  BY <1>9, <1>q, <2>1 DEF QuietInv, Queued, Live, Main
<1>10. CASE ClosePending
  <2> DEFINE h == Head(closing)
  <2>1. h.fd \in FDs /\ h = closing[1] /\ 1 \in DOMAIN closing
    BY <1>10, <1>t, <1>p, NextPending, Popped DEF ClosePending, TypeInv
  <2>2. Live(h) /\ Queued(h.fd)
    BY <2>1 DEF QuietInv, Queued
  <2> HIDE DEF h
  <2>3. /\ fdOf' = [fdOf EXCEPT ![h.fd] = None] /\ mpc' = "erase" /\ UNCHANGED crashed
        /\ UNCHANGED <<Recv, sockets, closing, test, at>> /\ mpc = "close" /\ ~crashed
    BY <1>10, <2>2 DEF ClosePending, MainAt, tableVars, h
  <2>4. \A f \in Recv : f # h.fd
    BY <2>1, <2>2, <2>3 DEF QuietInv
  <2>5. \A f \in FDs : fdOf'[f] = sockets'[f] \/ f = h.fd
    BY <1>t, <2>3 DEF QuietInv
  <2>6. Head(closing') = h
    BY <2>3 DEF h
  <2>7. \A f \in Recv' : fdOf'[f] # None
    BY <1>t, <2>3, <2>4 DEF QuietInv
  <2>8. \A f \in FDs : Queued(f)' => f \notin test' /\ f \notin Recv'
    BY <2>3 DEF QuietInv, Queued
  <2> QED  BY <1>10, <1>q, <2>3, <2>5, <2>6, <2>7, <2>8 DEF QuietInv, Live, Serving, Main
<1>11. CASE ErasePending
  <2> DEFINE h == Head(closing)
  <2>1. /\ h.fd \in FDs /\ closing # <<>> /\ h = closing[1] /\ Len(closing) \in Nat \ {0}
        /\ DOMAIN Tail(closing) = 1 .. (Len(closing) - 1)
        /\ \A k \in 1 .. (Len(closing) - 1) : Tail(closing)[k] = closing[k + 1]
    BY <1>11, <1>t, NextPending, Popped DEF ErasePending, MainAt, TypeInv, PlacesOK
  <2>2. Live(h)
    BY <1>p, <2>1 DEF QuietInv
  <2> HIDE DEF h
  <2>3. /\ sockets' = [sockets EXCEPT ![h.fd] = None] /\ mpc' = "close" /\ UNCHANGED crashed
        /\ UNCHANGED <<Recv, fdOf, test, at>> /\ mpc = "erase" /\ ~crashed
        /\ closing' = Tail(closing)
    BY <1>11, <2>2 DEF ErasePending, MainAt, kernelVars, h
  <2>4. fdOf[h.fd] = None
    BY <2>3 DEF ServedInv, h
  <2>5. \A f \in FDs : fdOf'[f] = sockets'[f]
    BY <1>t, <2>3, <2>4 DEF QuietInv, h
  <2>6. \A k \in DOMAIN closing' : /\ k + 1 \in DOMAIN closing /\ k + 1 # 1
                                   /\ closing'[k] = closing[k + 1]
    BY <1>p, <2>1, <2>3
  <2>7. \A k \in DOMAIN closing' : closing'[k].fd # h.fd
    BY <1>p, <2>1, <2>6 DEF QuietInv
  <2>8. \A k \in DOMAIN closing' : closing'[k].fd \in FDs
    <3>1. \A k \in DOMAIN closing : closing[k] \in IteratorSet
      BY <1>t, <1>p, ElementOfSeq
    <3> QED  BY <2>6, <3>1 DEF IteratorSet
  <2>9. \A k \in DOMAIN closing' : sockets'[closing'[k].fd] = closing'[k].conn
    BY <1>t, <2>3, <2>6, <2>7, <2>8 DEF QuietInv, Live
  <2>10. \A j, k \in DOMAIN closing' : closing'[j].fd = closing'[k].fd => j = k
    <3>1. \A j, k \in DOMAIN closing' : closing'[j].fd = closing'[k].fd => j + 1 = k + 1
      BY <2>6 DEF QuietInv
    <3>2. DOMAIN closing' \subseteq Int
      BY <2>1, <2>3
    <3> QED  BY <3>1, <3>2
  <2>11. \A f \in FDs : Queued(f)' => f \notin test' /\ f \notin Recv'
    BY <2>1, <2>3, LessQueued DEF QuietInv, TypeInv
  <2> QED  BY <1>11, <1>q, <2>3, <2>5, <2>9, <2>10, <2>11 DEF QuietInv, Live, Serving, Main
<1> QED  BY <1>1, <1>2, <1>3, <1>4, <1>5, <1>6, <1>7, <1>8, <1>9, <1>10, <1>11, QuietSteps DEF Main

-----------------------------------------------------------------------------
(* Whose an event is. *)

\* Events, iterators and numbers are what they are said to be, one by one.
LEMMA Elements ==
  ASSUME TypeInv
  PROVE  /\ events \in Seq(EventSet) /\ DOMAIN events = 1 .. Len(events) /\ Len(events) \in Nat
         /\ \A i \in DOMAIN events : events[i] \in EventSet
         /\ closing \in Seq(IteratorSet) /\ DOMAIN closing = 1 .. Len(closing)
         /\ Len(closing) \in Nat /\ \A i \in DOMAIN closing : closing[i] \in IteratorSet
         /\ fdOf \in [FDs -> Conns \union {None}] /\ sockets \in [FDs -> Conns \union {None}]
         /\ sessions \in [FDs -> Conns \union {None}]
<1>1. events \in Seq(EventSet) /\ closing \in Seq(IteratorSet)
  BY DEF TypeInv, TypeOK
<1>2. /\ DOMAIN events = 1 .. Len(events) /\ Len(events) \in Nat
      /\ DOMAIN closing = 1 .. Len(closing) /\ Len(closing) \in Nat
  BY <1>1, LenProperties
<1>3. \A i \in DOMAIN events : events[i] \in EventSet
  BY <1>1, <1>2, ElementOfSeq
<1>4. \A i \in DOMAIN closing : closing[i] \in IteratorSet
  BY <1>1, <1>2, ElementOfSeq
<1> QED  BY <1>1, <1>2, <1>3, <1>4 DEF TypeInv, TypeOK

\* What a post adds.
LEMMA Posted ==
  ASSUME TypeInv, NEW kind \in Kinds, NEW fd \in FDs, NEW c \in Conns, Post(kind, fd, c)
  PROVE  \/ events' = events /\ kind # "recieve" /\ library = "http"
         \/ /\ kind = "recieve" \/ HasSessions
            /\ Len(events') = Len(events) + 1 /\ DOMAIN events' = 1 .. (Len(events) + 1)
            /\ \A i \in 1 .. Len(events) : events'[i] = events[i]
            /\ events'[Len(events) + 1] = [kind |-> kind, fd |-> fd, conn |-> c]
<1>1. events \in Seq(EventSet) /\ [kind |-> kind, fd |-> fd, conn |-> c] \in EventSet
  BY DEF TypeInv, TypeOK, EventSet
<1>2. CASE kind = "recieve" \/ HasSessions
  BY <1>1, <1>2, Pushed DEF Post
<1>3. CASE ~(kind = "recieve" \/ HasSessions)
  BY <1>3 DEF Post, HasSessions
<1> QED  BY <1>2, <1>3

\* An event that waits after a post waited before, or is the new one.
LEMMA OldOrPosted ==
  ASSUME TypeInv, NEW kind \in Kinds, NEW fd \in FDs, NEW c \in Conns, Post(kind, fd, c),
         NEW i \in DOMAIN events'
  PROVE  \/ i \in DOMAIN events /\ events'[i] = events[i]
         \/ events'[i] = [kind |-> kind, fd |-> fd, conn |-> c]
<1>1. DOMAIN events = 1 .. Len(events) /\ Len(events) \in Nat
  BY Elements
<1>2. CASE events' = events
  BY <1>2
<1>3. CASE /\ DOMAIN events' = 1 .. (Len(events) + 1)
           /\ \A j \in 1 .. Len(events) : events'[j] = events[j]
           /\ events'[Len(events) + 1] = [kind |-> kind, fd |-> fd, conn |-> c]
  <2>1. i \in 1 .. Len(events) \/ i = Len(events) + 1
    BY <1>1, <1>3
  <2> QED  BY <1>1, <1>3, <2>1
<1> QED  BY <1>2, <1>3, Posted

\* The closed connection was hung up.
LEMMA ClosedWasHungUp ==
  ASSUME TypeInv, QuietInv, AddressInv, ClosePending
  PROVE  /\ Head(closing).fd \in FDs /\ mpc = "close" /\ mpc' = "erase"
         /\ Queued(Head(closing).fd)
         /\ fdOf[Head(closing).fd] = Head(closing).conn
         /\ Head(closing).conn \in hungUp
         /\ fdOf' = [fdOf EXCEPT ![Head(closing).fd] = None]
         /\ shut' = Shut(Head(closing).fd)
<1> DEFINE h == Head(closing)
<1>1. h.fd \in FDs /\ h = closing[1] /\ 1 \in DOMAIN closing
  BY NextPending, Popped, Elements DEF ClosePending, TypeInv
<1>2. Live(h) /\ h.conn \in hungUp /\ Queued(h.fd)
  BY <1>1 DEF QuietInv, AddressInv, Queued
<1> HIDE DEF h
<1>3. fdOf[h.fd] = h.conn /\ mpc = "close"
  BY <1>1, <1>2 DEF QuietInv, ClosePending, MainAt, Live
<1>4. fdOf' = [fdOf EXCEPT ![h.fd] = None] /\ shut' = Shut(h.fd) /\ mpc' = "erase"
  BY <1>2 DEF ClosePending, h
<1> QED  BY <1>1, <1>2, <1>3, <1>4 DEF h

\* A reply that strays is for one who has hung up.
LEMMA StraySend ==
  ASSUME NEW e, Addressed(e), Send(e), \A s \in strayed : s[1] \in hungUp, hungUp' = hungUp
  PROVE  \A s \in strayed' : s[1] \in hungUp'
BY DEF Addressed, Send

\* While no client quits, every step keeps events and replies addressed.
LEMMA AddressStep ==
  ASSUME TypeInv, ServedInv, QuietInv, AddressInv, [Next]_vars, quit' = {}
  PROVE  AddressInv'
<1> USE NoneOutside
<1> DEFINE Later(e) == fdOf'[e.fd] = e.conn \/ e.conn \in hungUp'
<1>e. \A e \in EventSet : e.fd \in FDs /\ e.conn \in Conns
  BY DEF EventSet
<1>0. ASSUME UNCHANGED <<fdOf, shut, closing, events, qpc, ev, senders, strayed>>,
             hungUp \subseteq hungUp'
      PROVE  AddressInv'
  BY <1>0 DEF AddressInv, Addressed
<1>1. CASE Client
  BY <1>0, <1>1 DEF Client, Connect, SendRequest, HangUp, clientVars, kernelVars, tableVars, queueVars
<1>2. CASE UNCHANGED vars
  BY <1>0, <1>2 DEF vars, clientVars, kernelVars, tableVars, queueVars
<1>3. CASE TakeEvent
  <2>1. /\ UNCHANGED <<fdOf, shut, closing, senders, strayed, hungUp>> /\ events # <<>>
        /\ ev' = Head(events) /\ events' = Tail(events)
    BY <1>3 DEF TakeEvent, clientVars, kernelVars, tableVars
  <2>2. /\ Head(events) = events[1] /\ 1 \in DOMAIN events
        /\ \A i \in DOMAIN events' : i + 1 \in DOMAIN events /\ events'[i] = events[i + 1]
    BY <2>1, Elements, Popped
  <2> QED  BY <2>1, <2>2 DEF AddressInv, Addressed
<1>4. ASSUME Reply, qpc # "idle", hungUp' = hungUp  PROVE \A s \in strayed' : s[1] \in hungUp'
  BY <1>4, StraySend DEF Reply, AddressInv
<1>5. CASE OnConnect \/ OnCommand
  <2>1. /\ UNCHANGED <<fdOf, shut, closing, events, senders, hungUp>> /\ qpc' = "idle"
        /\ Reply /\ qpc # "idle"
    BY <1>5 DEF OnConnect, OnCommand, Other, Return, QueueAt, clientVars, kernelVars, tableVars
  <2> QED  BY <1>4, <2>1 DEF AddressInv, Addressed
<1>6. CASE OnHttpRequest
  <2>1. /\ UNCHANGED <<fdOf, shut, closing, events, hungUp>> /\ qpc' = "idle" /\ qpc # "idle"
        /\ senders' \subseteq senders \union {ev} /\ (Reply \/ strayed' = strayed)
    BY <1>6 DEF OnHttpRequest, Other, Return, QueueAt, clientVars, kernelVars, tableVars
  <2>2. \A s \in strayed' : s[1] \in hungUp'
    BY <1>4, <2>1 DEF AddressInv
  <2> QED  BY <2>1, <2>2 DEF AddressInv, Addressed
<1>7. CASE OnDisconnect
  <2>1. /\ UNCHANGED <<fdOf, shut, closing, events, hungUp, senders, strayed>> /\ qpc' = "idle"
    BY <1>7 DEF OnDisconnect, Other, Return, QueueAt, clientVars, kernelVars, tableVars
  <2> QED  BY <2>1 DEF AddressInv, Addressed
<1>8. CASE SendOverNewThread
  <2>1. PICK e \in senders : Send(e) /\ senders' = senders \ {e}
    BY <1>8 DEF SendOverNewThread
  <2>2. UNCHANGED <<fdOf, shut, closing, events, hungUp, qpc, ev>>
    BY <1>8 DEF SendOverNewThread, Other, clientVars, kernelVars, tableVars
  <2>3. \A s \in strayed' : s[1] \in hungUp'
    BY <2>1, <2>2, StraySend DEF AddressInv
  <2> QED  BY <2>1, <2>2, <2>3 DEF AddressInv, Addressed
<1>9. CASE EnterSelect \/ SelectReturns \/ SelectTimesOut \/ AcceptFails \/ ScanEnds \/ NothingPending
  BY <1>0, <1>9 DEF EnterSelect, SelectReturns, SelectTimesOut, AcceptFails, ScanEnds,
                    NothingPending, Keep, clientVars, kernelVars, tableVars, queueVars
\* What a step of the main thread that posts or closes has to show.
<1>k. ASSUME Keep, \A e \in EventSet : Addressed(e) => Later(e),
             \A i \in DOMAIN events' : Later(events'[i]),
             shut' \subseteq hungUp, \A i \in DOMAIN closing' : closing'[i].conn \in hungUp
      PROVE  AddressInv'
  <2>1. UNCHANGED <<hungUp, qpc, ev, senders, strayed>>
    BY <1>k DEF Keep, clientVars, queueVars
  <2>2. qpc # "idle" => ev \in EventSet
    BY DEF TypeInv, PlacesOK
  <2>3. senders \subseteq EventSet
    BY DEF TypeInv, TypeOK
  <2> QED  BY <1>k, <2>1, <2>2, <2>3 DEF AddressInv, Addressed
<1>h. Keep => hungUp' = hungUp
  BY DEF Keep, clientVars
<1>10. ASSUME Keep, UNCHANGED fdOf, NEW kind \in Kinds, NEW fd \in FDs, fdOf[fd] \in Conns,
              Post(kind, fd, fdOf[fd])
       PROVE  \A i \in DOMAIN events' : Later(events'[i])
  <2>1. \A i \in DOMAIN events : Later(events[i])
    BY <1>10, <1>h DEF AddressInv, Addressed
  <2>2. Later([kind |-> kind, fd |-> fd, conn |-> fdOf[fd]])
    BY <1>10
  <2> QED  BY <1>10, <2>1, <2>2, OldOrPosted
<1>11. CASE Accept
  <2>1. PICK fd \in FDs : AcceptAt(fd)
    BY <1>11 DEF Accept
  <2>2. Head(backlog) \in Conns
    BY <1>11, Popped DEF Accept, TypeInv, TypeOK
  <2>3. Keep /\ UNCHANGED <<shut, closing, hungUp>>
    BY <1>11 DEF Accept, Keep, clientVars
  <2>4. /\ fdOf[fd] = None /\ fdOf' = [fdOf EXCEPT ![fd] = Head(backlog)]
        /\ Post("connect", fd, Head(backlog))
    BY <2>1 DEF AcceptAt
  <2>5. \A e \in EventSet : Addressed(e) => Later(e)
    BY <1>e, <2>3, <2>4, Elements DEF Addressed
  <2>6. \A i \in DOMAIN events' : Later(events'[i])
    <3>1. \A i \in DOMAIN events : Later(events[i])
      BY <2>5, Elements DEF AddressInv
    <3>2. Later([kind |-> "connect", fd |-> fd, conn |-> Head(backlog)])
      BY <2>4, Elements DEF Addressed
    <3> QED  BY <2>2, <2>4, <3>1, <3>2, OldOrPosted DEF Kinds
  <2> QED  BY <1>k, <2>3, <2>5, <2>6 DEF AddressInv
<1>12. ASSUME NEW fd \in FDs, Recieve(fd)  PROVE AddressInv'
  <2>1. /\ (ServeSocket(fd) /\ Keep) \/ RecieveData(fd)
        /\ UNCHANGED <<fdOf, shut, hungUp, qpc, ev, senders, strayed>>
    BY <1>12 DEF Recieve, RecieveData, RecieveEnd, RecieveBadFd, RecieveNothing, Keep, clientVars,
                 kernelVars, queueVars
  <2>2. fdOf[fd] \in Conns /\ sockets[fd] = fdOf[fd]
    BY <1>12, QuietServe DEF Recieve, RecieveData, RecieveEnd, RecieveBadFd, RecieveNothing
  <2>3. CASE RecieveNothing(fd)
    BY <1>0, <2>1, <2>3 DEF RecieveNothing, tableVars
  <2>4. CASE RecieveData(fd)
    <3>1. Post("recieve", fd, fdOf[fd]) /\ UNCHANGED closing
      BY <2>4 DEF RecieveData, tableVars
    <3>2. \A i \in DOMAIN events' : Later(events'[i])
      <4>1. \A i \in DOMAIN events : Later(events[i])
        BY <2>1 DEF AddressInv, Addressed
      <4>2. Later([kind |-> "recieve", fd |-> fd, conn |-> fdOf[fd]])
        BY <2>1
      <4> QED  BY <2>2, <3>1, <4>1, <4>2, OldOrPosted DEF Kinds
    <3> QED  BY <2>1, <3>1, <3>2 DEF AddressInv, Addressed
  <2>5. CASE RecieveEnd(fd)
    <3>1. closing' = Append(closing, Iterator(fd)) /\ UNCHANGED events /\ fdOf[fd] \in hungUp
      BY <2>5 DEF RecieveEnd, Over, AddressInv
    <3>2. Iterator(fd) \in IteratorSet /\ Iterator(fd).conn = fdOf[fd]
      BY <2>2, IteratorType DEF TypeInv, Iterator
    <3>3. \A i \in DOMAIN closing' : closing'[i].conn \in hungUp
      BY <3>1, <3>2, Pushed, Elements DEF AddressInv
    <3> QED  BY <2>1, <3>1, <3>3 DEF AddressInv, Addressed
  <2> QED  BY <1>12, <2>2, <2>3, <2>4, <2>5 DEF Recieve, RecieveBadFd
<1>13. CASE PostDisconnect
  <2>1. Keep /\ UNCHANGED <<fdOf, shut, closing>> /\ at \in FDs /\ sockets[at] # None
    BY <1>13 DEF PostDisconnect, kernelVars, MainAt, TypeInv, PlacesOK
  <2>2. Post("disconnect", at, fdOf[at]) /\ fdOf[at] \in Conns
    BY <1>13, <2>1, Elements DEF PostDisconnect, MainAt, QuietInv
  <2>3. \A i \in DOMAIN events' : Later(events'[i])
    BY <1>10, <2>1, <2>2 DEF Kinds
  <2> QED  BY <1>h, <1>k, <2>1, <2>3 DEF AddressInv, Addressed
<1>14. CASE ClosePending
  <2> DEFINE h == Head(closing)
  <2>1. /\ h.fd \in FDs /\ fdOf[h.fd] \in hungUp /\ fdOf' = [fdOf EXCEPT ![h.fd] = None]
        /\ shut' \subseteq shut \union {fdOf[h.fd]}
    BY <1>14, ClosedWasHungUp DEF Shut
  <2> HIDE DEF h
  <2>2. Keep /\ UNCHANGED <<closing, events>>
    BY <1>14 DEF ClosePending, tableVars
  <2>3. \A e \in EventSet : Addressed(e) => Later(e)
    BY <1>e, <1>h, <2>1, <2>2, Elements DEF Addressed
  <2> QED  BY <1>k, <2>1, <2>2, <2>3, Elements DEF AddressInv
<1>15. CASE ErasePending
  <2>1. /\ Keep /\ UNCHANGED <<fdOf, shut, events, hungUp, qpc, ev, senders, strayed>>
        /\ closing' = Tail(closing) /\ closing # <<>>
    BY <1>15 DEF ErasePending, MainAt, TypeInv, PlacesOK, kernelVars, Keep, clientVars, queueVars
  <2>2. \A i \in DOMAIN closing' : closing'[i].conn \in hungUp
    BY <2>1, Popped, Elements DEF AddressInv
  <2> QED  BY <2>1, <2>2 DEF AddressInv, Addressed
<1> QED  BY <1>1, <1>2, <1>3, <1>5, <1>6, <1>7, <1>8, <1>9, <1>11, <1>12, <1>13, <1>14, <1>15,
            QuietSteps DEF Main

-----------------------------------------------------------------------------
(* Whose a session is. *)

\* HTTP has no callbacks for the begin and the end of a connection.
LEMMA HttpStep == TypeInv /\ HttpInv /\ [Next]_vars => HttpInv'
<1> SUFFICES ASSUME TypeInv, HttpInv, [Next]_vars, library = "http"  PROVE HttpInv'
  BY DEF Next, vars, HttpInv
<1> USE DEF HttpInv
<1>1. CASE Client
  BY <1>1 DEF Client, Connect, SendRequest, HangUp, queueVars
<1>2. CASE UNCHANGED vars
  BY <1>2 DEF vars, queueVars
<1>p. ASSUME NEW kind \in Kinds, NEW fd \in FDs, NEW c \in Conns, Post(kind, fd, c)
      PROVE  \A i \in DOMAIN events' : events'[i].kind = "recieve"
  <2>1. CASE events' = events
    BY <2>1
  <2>2. CASE events' # events
    <3>1. kind = "recieve"
      BY <1>p, <2>2 DEF Post, HasSessions
    <3> QED  BY <1>p, <3>1, OldOrPosted
  <2> QED  BY <2>1, <2>2
<1>3. CASE Main
  <2>0. Main => qpc' = qpc
    BY DEF Main, EnterSelect, SelectReturns, SelectTimesOut, AcceptFails, Accept, Recieve,
           RecieveData, RecieveEnd, RecieveBadFd, RecieveNothing, PostDisconnect, ScanEnds,
           NothingPending, ClosePending, ErasePending, Keep, queueVars
  <2>1. CASE Accept
    <3>1. PICK fd \in FDs : Post("connect", fd, Head(backlog))
      BY <2>1 DEF Accept, AcceptAt
    <3>2. Head(backlog) \in Conns
      BY <2>1, Popped DEF Accept, TypeInv, TypeOK
    <3> QED  BY <1>3, <1>p, <2>0, <3>1, <3>2 DEF Kinds
  <2>2. CASE \E fd \in FDs : RecieveData(fd)
    <3>1. PICK fd \in FDs : RecieveData(fd)
      BY <2>2
    <3>2. fdOf[fd] \in Conns
      BY <3>1, Elements DEF RecieveData
    <3> QED  BY <1>3, <1>p, <2>0, <3>1, <3>2 DEF RecieveData, Kinds
  <2>3. CASE PostDisconnect
    <3>1. at \in FDs /\ sockets[at] \in Conns
      BY <2>3, Elements DEF PostDisconnect, MainAt, TypeInv, PlacesOK
    <3> QED  BY <1>3, <1>p, <2>0, <2>3, <3>1 DEF PostDisconnect, Kinds
  <2>4. CASE ~Accept /\ ~PostDisconnect /\ \A fd \in FDs : ~RecieveData(fd)
    <3>1. events' = events
      BY <1>3, <2>4 DEF Main, EnterSelect, SelectReturns, SelectTimesOut, AcceptFails, Recieve,
                        RecieveEnd, RecieveBadFd, RecieveNothing, ScanEnds, NothingPending,
                        ClosePending, ErasePending
    <3> QED  BY <1>3, <2>0, <3>1
  <2> QED  BY <2>1, <2>2, <2>3, <2>4
<1>4. CASE TakeEvent
  <2>1. /\ Head(events) = events[1] /\ 1 \in DOMAIN events
        /\ \A i \in DOMAIN Tail(events) : i + 1 \in DOMAIN events /\ Tail(events)[i] = events[i + 1]
    BY <1>4, Elements, Popped DEF TakeEvent
  <2> QED  BY <1>4, <2>1 DEF TakeEvent
<1>5. CASE Queue /\ ~TakeEvent
  <2>1. qpc = "recieve"
    BY <1>5 DEF Queue, OnConnect, OnHttpRequest, OnCommand, OnDisconnect, OnSmtpQuit, OnFtpQuit,
                FtpQuitCloses, FtpQuitForgets, QueueAt
  <2>2. OnHttpRequest
    BY <1>5, <2>1 DEF Queue, OnConnect, OnCommand, OnDisconnect, OnSmtpQuit, OnFtpQuit,
                      FtpQuitCloses, FtpQuitForgets, QueueAt, HasSessions
  <2> QED  BY <2>2 DEF OnHttpRequest, Return, Other
<1>6. CASE SendOverNewThread
  BY <1>6 DEF SendOverNewThread, Other
<1> QED  BY <1>1, <1>2, <1>3, <1>4, <1>5, <1>6 DEF Next

\* What is closed after the first n events stays so, whatever is posted behind them,
LEMMA ClosedStays ==
  ASSUME UNCHANGED <<sessions, qpc, ev>>, NEW fd \in FDs, NEW n \in Nat,
         \A k \in 1 .. n : events'[k] = events[k], ClosedAfter(fd, n)
  PROVE  ClosedAfter(fd, n)'
BY DEF ClosedAfter

\* also after one more of another connection,
LEMMA ClosedGrows ==
  ASSUME UNCHANGED <<sessions, qpc, ev>>, NEW fd \in FDs, NEW n \in Nat,
         \A k \in 1 .. n : events'[k] = events[k], events'[n + 1].fd # fd, ClosedAfter(fd, n)
  PROVE  ClosedAfter(fd, n + 1)'
<1>1. \A k \in 1 .. (n + 1) : k \in 1 .. n \/ k = n + 1
  OBVIOUS
<1>2. CASE \E j \in 1 .. n : /\ events[j].fd = fd /\ events[j].kind = "disconnect"
                             /\ \A k \in (j + 1) .. n : events[k].fd # fd
  <2>1. PICK j \in 1 .. n : /\ events[j].fd = fd /\ events[j].kind = "disconnect"
                            /\ \A k \in (j + 1) .. n : events[k].fd # fd
    BY <1>2
  <2>2. \A k \in (j + 1) .. (n + 1) : k \in (j + 1) .. n \/ k = n + 1
    OBVIOUS
  <2>3. \A k \in (j + 1) .. n : k \in 1 .. n
    OBVIOUS
  <2>4. \A k \in (j + 1) .. (n + 1) : events'[k].fd # fd
    BY <2>1, <2>2, <2>3
  <2>5. events'[j].fd = fd /\ events'[j].kind = "disconnect" /\ j \in 1 .. (n + 1)
    BY <2>1
  <2> QED  BY <2>4, <2>5 DEF ClosedAfter
<1>3. CASE /\ \A k \in 1 .. n : events[k].fd # fd
           /\ IF qpc # "idle" /\ ev.fd = fd THEN qpc = "disconnect" ELSE sessions[fd] = None
  BY <1>1, <1>3 DEF ClosedAfter
<1> QED  BY <1>2, <1>3 DEF ClosedAfter

\* and it is after the end of its own.
LEMMA ClosedByEnd ==
  ASSUME NEW fd \in FDs, NEW n \in Nat, events'[n + 1].fd = fd, events'[n + 1].kind = "disconnect"
  PROVE  ClosedAfter(fd, n + 1)'
<1>1. n + 1 \in 1 .. (n + 1) /\ (n + 1 + 1) .. (n + 1) = {}
  OBVIOUS
<1> QED  BY <1>1 DEF ClosedAfter

\* When the first of them is taken, it is closed after the others,
LEMMA ClosedTaken ==
  ASSUME TypeInv, TakeEvent, NEW fd \in FDs, NEW n \in 0 .. (Len(events) - 1),
         ClosedAfter(fd, n + 1)
  PROVE  ClosedAfter(fd, n)'
<1>1. /\ Head(events) = events[1] /\ Len(events) \in Nat \ {0}
      /\ \A k \in 1 .. (Len(events) - 1) : Tail(events)[k] = events[k + 1]
      /\ events[1] \in EventSet
  BY Elements, Popped DEF TakeEvent
<1>2. /\ ev' = events[1] /\ qpc' = events[1].kind /\ qpc = "idle" /\ sessions' = sessions
      /\ \A k \in 1 .. n : events'[k] = events[k + 1]
  BY <1>1 DEF TakeEvent, QueueAt
<1>3. qpc' # "idle"
  BY <1>1, <1>2 DEF EventSet, Kinds
<1>4. CASE \E j \in 1 .. (n + 1) : /\ events[j].fd = fd /\ events[j].kind = "disconnect"
                                   /\ \A k \in (j + 1) .. (n + 1) : events[k].fd # fd
  <2>1. PICK j \in 1 .. (n + 1) : /\ events[j].fd = fd /\ events[j].kind = "disconnect"
                                  /\ \A k \in (j + 1) .. (n + 1) : events[k].fd # fd
    BY <1>4
  <2>2. CASE j = 1
    <3>1. \A k \in 1 .. n : k + 1 \in (j + 1) .. (n + 1)
      BY <2>2
    <3>2. \A k \in 1 .. n : events'[k].fd # fd
      BY <1>2, <2>1, <3>1
    <3> QED  BY <1>2, <1>3, <2>1, <2>2, <3>2 DEF ClosedAfter
  <2>3. CASE j # 1
    <3>1. j - 1 \in 1 .. n /\ (j - 1) + 1 = j
      BY <2>3
    <3>2. \A k \in ((j - 1) + 1) .. n : k \in 1 .. n /\ k + 1 \in (j + 1) .. (n + 1)
      BY <3>1
    <3>3. \A k \in ((j - 1) + 1) .. n : events'[k].fd # fd
      BY <1>2, <2>1, <3>2
    <3>4. events'[j - 1] = events[j]
      BY <1>2, <3>1
    <3> QED  BY <2>1, <3>1, <3>3, <3>4 DEF ClosedAfter
  <2> QED  BY <2>2, <2>3
<1>5. CASE /\ \A k \in 1 .. (n + 1) : events[k].fd # fd
           /\ IF qpc # "idle" /\ ev.fd = fd THEN qpc = "disconnect" ELSE sessions[fd] = None
  <2>1. 1 \in 1 .. (n + 1) /\ \A k \in 1 .. n : k + 1 \in 1 .. (n + 1)
    OBVIOUS
  <2>2. ev'.fd # fd /\ sessions'[fd] = None /\ \A k \in 1 .. n : events'[k].fd # fd
    BY <1>2, <1>5, <2>1
  <2> QED  BY <2>2 DEF ClosedAfter
<1> QED  BY <1>4, <1>5 DEF ClosedAfter

\* and when it has been served, after what is left.
LEMMA ClosedServed ==
  ASSUME TypeInv, OnConnect \/ OnCommand \/ OnDisconnect, NEW fd \in FDs, NEW n \in Nat,
         ClosedAfter(fd, n)
  PROVE  ClosedAfter(fd, n)'
<1>1. qpc # "idle" /\ qpc' = "idle" /\ events' = events
  BY DEF OnConnect, OnCommand, OnDisconnect, QueueAt, Return, Other
<1>2. qpc = "disconnect" => sessions' = [sessions EXCEPT ![ev.fd] = None]
  BY DEF OnConnect, OnCommand, OnDisconnect, QueueAt
<1>3. ASSUME ev.fd # fd  PROVE sessions'[fd] = sessions[fd]
  BY <1>3, Elements DEF OnConnect, OnCommand, OnDisconnect, OpenSession
<1>4. CASE \E j \in 1 .. n : /\ events[j].fd = fd /\ events[j].kind = "disconnect"
                             /\ \A k \in (j + 1) .. n : events[k].fd # fd
  BY <1>1, <1>4 DEF ClosedAfter
<1>5. CASE /\ \A k \in 1 .. n : events[k].fd # fd
           /\ IF qpc # "idle" /\ ev.fd = fd THEN qpc = "disconnect" ELSE sessions[fd] = None
  <2>1. sessions'[fd] = None
    BY <1>1, <1>2, <1>3, <1>5, Elements
  <2> QED  BY <1>1, <1>5, <2>1 DEF ClosedAfter
<1> QED  BY <1>4, <1>5 DEF ClosedAfter

\* While no client quits, every step keeps the sessions in turn.
LEMMA SessionStep ==
  ASSUME TypeInv, ServedInv, QuietInv, HasSessions, SessionInv, [Next]_vars, quit' = {}
  PROVE  SessionInv'
<1> USE NoneOutside
<1> DEFINE Ended(fd) == fdOf[fd] = None \/ (Queued(fd) /\ ~(mpc = "hangup" /\ at = fd))
<1>e. /\ DOMAIN events = 1 .. Len(events) /\ Len(events) \in Nat
      /\ \A i \in DOMAIN events : events[i].fd \in FDs /\ i - 1 \in Nat /\ i <= Len(events)
      /\ qpc # "idle" => ev.fd \in FDs
  BY Elements DEF EventSet, TypeInv, PlacesOK
\* Steps that post nothing.
<1>0. ASSUME UNCHANGED <<events, qpc, ev, sessions>>, \A fd \in FDs : Ended(fd)' => Ended(fd)
      PROVE  SessionInv'
  BY <1>0 DEF SessionInv, ClosedAfter
\* Steps that post an event.
<1>n. PICK n \in Nat : n = Len(events)
  BY <1>e
<1>k. ASSUME UNCHANGED <<qpc, ev, sessions>>, NEW kind \in Kinds, NEW f \in FDs, NEW c \in Conns,
             Post(kind, f, c),
             kind = "connect" => ClosedAfter(f, Len(events)),
             \A fd \in FDs \ {f} : Ended(fd)' => Ended(fd),
             Ended(f)' => kind = "disconnect"
      PROVE  SessionInv'
  <2>1. /\ UNCHANGED <<qpc, ev, sessions>>
        /\ Len(events') = Len(events) + 1 /\ DOMAIN events' = 1 .. (Len(events) + 1)
        /\ \A i \in 1 .. Len(events) : events'[i] = events[i]
        /\ events'[Len(events) + 1] = [kind |-> kind, fd |-> f, conn |-> c]
    BY <1>k, Posted DEF HasSessions
  <2>2. ASSUME NEW i \in DOMAIN events', events'[i].kind = "connect"
        PROVE  events'[i].fd \in FDs /\ ClosedAfter(events'[i].fd, i - 1)
    <3>1. CASE i \in 1 .. Len(events)
      BY <1>e, <2>1, <2>2, <3>1 DEF SessionInv
    <3>2. CASE i = Len(events) + 1
      BY <1>e, <1>k, <2>1, <2>2, <3>2
    <3> QED  BY <1>e, <2>1, <3>1, <3>2
  <2>3. ASSUME NEW i \in DOMAIN events', NEW fd \in FDs, ClosedAfter(fd, i - 1)
        PROVE  ClosedAfter(fd, i - 1)'
    <3>1. i - 1 \in Nat /\ \A k \in 1 .. (i - 1) : events'[k] = events[k]
      BY <1>e, <2>1
    <3> HIDE DEF ClosedAfter
    <3> QED  BY <2>1, <2>3, <3>1, ClosedStays
  <2>4. ASSUME NEW fd \in FDs, Ended(fd)'  PROVE ClosedAfter(fd, n + 1)'
    <3>1. CASE fd = f
      <4>1. events'[n + 1].fd = fd /\ events'[n + 1].kind = "disconnect"
        BY <1>k, <1>n, <2>1, <2>4, <3>1
      <4> QED  BY <4>1, ClosedByEnd
    <3>2. CASE fd # f
      <4>1. ClosedAfter(fd, n)
        BY <1>k, <1>n, <2>4, <3>2 DEF SessionInv
      <4>2. events'[n + 1].fd # fd /\ \A k \in 1 .. n : events'[k] = events[k]
        BY <1>n, <2>1, <3>2
      <4> HIDE DEF Ended
      <4> QED  BY <2>1, <4>1, <4>2, ClosedGrows
    <3> QED  BY <3>1, <3>2
  <2> HIDE DEF Ended
  <2>5. \A i \in DOMAIN events' : events'[i].kind = "connect" => ClosedAfter(events[i].fd, i - 1)'
    BY <2>2, <2>3
  <2>6. \A fd \in FDs : Ended(fd)' => ClosedAfter(fd, Len(events))'
    <3>1. Len(events') = n + 1
      BY <1>n, <2>1
    <3> QED  BY <2>4, <3>1 DEF ClosedAfter
  <2>7. qpc' = "connect" => sessions'[ev'.fd] = None
    BY <2>1 DEF SessionInv
  <2> QED  BY <2>5, <2>6, <2>7 DEF SessionInv, Ended
<1>1. CASE Client \/ SendOverNewThread
  <2>1. UNCHANGED <<fdOf, closing, mpc, at>>
    BY <1>1, AsideSteps
  <2>2. UNCHANGED <<events, qpc, ev, sessions>>
    BY <1>1 DEF Client, Connect, SendRequest, HangUp, SendOverNewThread, Other, queueVars
  <2> QED  BY <1>0, <2>1, <2>2 DEF Queued
<1>2. CASE UNCHANGED vars
  BY <1>0, <1>2 DEF vars, kernelVars, tableVars, mainVars, queueVars, Queued
<1>3. CASE TakeEvent
  <2>1. UNCHANGED <<fdOf, closing, mpc, at>>
    BY <1>3, AsideSteps
  <2>2. /\ Len(events) \in Nat \ {0} /\ Len(events') = Len(events) - 1
        /\ DOMAIN events' = 1 .. (Len(events) - 1)
        /\ \A i \in 1 .. (Len(events) - 1) : events'[i] = events[i + 1]
        /\ ev' = events[1] /\ qpc' = events[1].kind /\ qpc = "idle" /\ sessions' = sessions
    BY <1>3, Elements, Popped DEF TakeEvent, QueueAt
  <2>3. ASSUME NEW i \in DOMAIN events', events'[i].kind = "connect"
        PROVE  ClosedAfter(events[i].fd, i - 1)'
    <3>1. /\ i + 1 \in DOMAIN events /\ (i + 1) - 1 = i /\ i - 1 \in 0 .. (Len(events) - 1)
          /\ (i - 1) + 1 = i
      BY <1>e, <2>2
    <3>2. PICK fd \in FDs : fd = events'[i].fd
      BY <1>e, <2>2, <3>1
    <3>3. ClosedAfter(fd, (i - 1) + 1)
      BY <2>2, <2>3, <3>1, <3>2 DEF SessionInv
    <3>4. ClosedAfter(fd, i - 1)'
      BY <1>3, <3>1, <3>3, ClosedTaken
    <3> QED  BY <3>2, <3>4 DEF ClosedAfter
  <2>4. ASSUME qpc' = "connect"  PROVE sessions'[ev'.fd] = None
    <3>1. 1 \in DOMAIN events /\ events[1].fd \in FDs /\ 1 - 1 = 0
      BY <1>e, <2>2
    <3>2. ClosedAfter(events[1].fd, 0)
      BY <2>2, <2>4, <3>1 DEF SessionInv
    <3>3. sessions[events[1].fd] = None
      BY <2>2, <3>2 DEF ClosedAfter
    <3> QED  BY <2>2, <3>3
  <2>5. ASSUME NEW fd \in FDs, Ended(fd)'  PROVE ClosedAfter(fd, Len(events))'
    <3>1. /\ n - 1 \in 0 .. (Len(events) - 1) /\ (n - 1) + 1 = Len(events)
          /\ Len(events') = n - 1
      BY <1>n, <2>2
    <3>2. ClosedAfter(fd, (n - 1) + 1)
      BY <2>1, <2>5, <3>1 DEF SessionInv, Queued
    <3>3. ClosedAfter(fd, n - 1)'
      BY <1>3, <3>1, <3>2, ClosedTaken
    <3> QED  BY <3>1, <3>3 DEF ClosedAfter
  <2> HIDE DEF Ended
  <2> QED  BY <2>3, <2>4, <2>5 DEF SessionInv, Ended
<1>4. CASE OnConnect \/ OnCommand \/ OnDisconnect
  <2>1. UNCHANGED <<fdOf, closing, mpc, at, events>> /\ qpc' = "idle"
    BY <1>4, AsideSteps DEF OnConnect, OnCommand, OnDisconnect, Return, Other
  <2>2. \A fd \in FDs, m \in Nat : ClosedAfter(fd, m) => ClosedAfter(fd, m)'
    BY <1>4, ClosedServed
  <2>3. \A i \in DOMAIN events' : events'[i].kind = "connect" => ClosedAfter(events[i].fd, i - 1)'
    BY <1>e, <2>1, <2>2 DEF SessionInv
  <2>4. \A fd \in FDs : Ended(fd)' => ClosedAfter(fd, Len(events))'
    BY <1>e, <2>1, <2>2 DEF SessionInv, Queued
  <2> HIDE DEF Ended
  <2> QED  BY <2>1, <2>3, <2>4 DEF SessionInv, Ended
<1>5. ~OnHttpRequest
  BY DEF OnHttpRequest, HasSessions
<1>6. CASE EnterSelect \/ SelectReturns \/ SelectTimesOut \/ AcceptFails \/ ScanEnds \/ NothingPending
  <2>1. UNCHANGED <<fdOf, closing, events, qpc, ev, sessions, at>> /\ mpc # "hangup"
    BY <1>6 DEF EnterSelect, SelectReturns, SelectTimesOut, AcceptFails, ScanEnds,
                NothingPending, Keep, MainAt, kernelVars, tableVars, queueVars
  <2> QED  BY <1>0, <2>1 DEF Queued
<1>7. CASE Accept
  <2>1. PICK f \in FDs : AcceptAt(f)
    BY <1>7 DEF Accept
  <2>2. Head(backlog) \in Conns
    BY <1>7, Popped DEF Accept, TypeInv, TypeOK
  <2>3. /\ UNCHANGED <<qpc, ev, sessions>> /\ closing = <<>> /\ closing' = <<>>
    BY <1>7 DEF Accept, MainAt, QuietInv, Serving, Keep, queueVars
  <2>4. /\ fdOf[f] = None /\ fdOf' = [fdOf EXCEPT ![f] = Head(backlog)]
        /\ Post("connect", f, Head(backlog))
    BY <2>1 DEF AcceptAt
  <2>5. ClosedAfter(f, Len(events))
    BY <2>4 DEF SessionInv
  <2>6. ~Ended(f)' /\ \A fd \in FDs \ {f} : Ended(fd)' => Ended(fd)
    BY <2>2, <2>3, <2>4, Elements DEF Queued
  <2> HIDE DEF Ended
  <2> QED  BY <1>k, <2>2, <2>3, <2>4, <2>5, <2>6 DEF Kinds
<1>8. ASSUME NEW f \in FDs, Recieve(f)  PROVE SessionInv'
  <2>1. ServeSocket(f)
    BY <1>8 DEF Recieve, RecieveData, RecieveEnd, RecieveBadFd, RecieveNothing
  <2>2. mpc = "scan" /\ fdOf[f] \in Conns /\ sockets[f] = fdOf[f] /\ ~Queued(f)
    BY <2>1, QuietServe
  <2>3. CASE RecieveNothing(f)
    BY <1>0, <2>2, <2>3 DEF RecieveNothing, Keep, kernelVars, tableVars, queueVars, Queued
  <2>4. CASE RecieveData(f)
    <3>1. /\ Post("recieve", f, fdOf[f]) /\ UNCHANGED <<fdOf, closing, mpc, at, qpc, ev, sessions>>
      BY <2>4 DEF RecieveData, kernelVars, tableVars, queueVars
    <3>2. ~Ended(f)' /\ \A fd \in FDs \ {f} : Ended(fd)' => Ended(fd)
      BY <2>2, <3>1 DEF Queued
    <3> QED  BY <1>k, <2>2, <3>1, <3>2 DEF Kinds
  <2>5. CASE RecieveEnd(f)
    <3>1. /\ closing' = Append(closing, Iterator(f)) /\ mpc' = "hangup" /\ at' = f
          /\ UNCHANGED <<fdOf, events, qpc, ev, sessions>>
      BY <2>5 DEF RecieveEnd, Keep, kernelVars, queueVars
    <3>2. Iterator(f) \in IteratorSet /\ Iterator(f).fd = f
      BY <2>2, IteratorType DEF TypeInv, Iterator
    <3>3. \A fd \in FDs : Queued(fd)' <=> Queued(fd) \/ fd = f
      BY <3>1, <3>2, MoreQueued DEF TypeInv
    <3>4. \A fd \in FDs : Ended(fd)' => Ended(fd)
      BY <2>2, <3>1, <3>3
    <3> QED  BY <1>0, <3>1, <3>4
  <2> QED  BY <1>8, <2>2, <2>3, <2>4, <2>5 DEF Recieve, RecieveBadFd
<1>9. CASE PostDisconnect
  <2>1. /\ UNCHANGED <<qpc, ev, sessions, fdOf, closing>> /\ at \in FDs /\ sockets[at] \in Conns
        /\ mpc = "hangup" /\ mpc' = "scan" /\ Post("disconnect", at, sockets[at])
    BY <1>9, Elements DEF PostDisconnect, Keep, kernelVars, queueVars, MainAt, TypeInv, PlacesOK
  <2>2. \A fd \in FDs \ {at} : Ended(fd)' => Ended(fd)
    BY <2>1 DEF Queued
  <2> HIDE DEF Ended
  <2> QED  BY <1>k, <2>1, <2>2 DEF Kinds
<1>10. CASE ClosePending
  <2> DEFINE h == Head(closing)
  <2>1. /\ h.fd \in FDs /\ Queued(h.fd) /\ fdOf' = [fdOf EXCEPT ![h.fd] = None] /\ mpc = "close"
    <3>1. h = closing[1] /\ 1 \in DOMAIN closing /\ h.fd \in FDs
      BY <1>10, NextPending, Popped, Elements DEF ClosePending, TypeInv
    <3>2. Live(h) /\ Queued(h.fd)
      BY <3>1 DEF QuietInv, Queued
    <3> HIDE DEF h
    <3> QED  BY <1>10, <3>1, <3>2 DEF ClosePending, MainAt, h
  <2> HIDE DEF h
  <2>2. UNCHANGED <<closing, events, at, qpc, ev, sessions>>
    BY <1>10 DEF ClosePending, Keep, tableVars, queueVars
  <2>3. \A fd \in FDs : Ended(fd)' => Ended(fd)
    BY <2>1, <2>2, Elements DEF Queued
  <2> QED  BY <1>0, <2>2, <2>3
<1>11. CASE ErasePending
  <2>1. /\ closing' = Tail(closing) /\ closing # <<>> /\ mpc = "erase"
        /\ UNCHANGED <<fdOf, events, at, qpc, ev, sessions>>
    BY <1>11 DEF ErasePending, MainAt, TypeInv, PlacesOK, Keep, kernelVars, queueVars
  <2>2. \A fd \in FDs : Queued(fd)' => Queued(fd)
    BY <2>1, LessQueued DEF TypeInv
  <2> QED  BY <1>0, <2>1, <2>2
<1> QED  BY <1>1, <1>2, <1>3, <1>4, <1>5, <1>6, <1>7, <1>8, <1>9, <1>10, <1>11, QuietSteps DEF Main

-----------------------------------------------------------------------------
(* The invariant, and what follows from it. *)

\* The invariant holds initially.
LEMMA InvInit == Init => IInv
<1> SUFFICES ASSUME Init  PROVE IInv
  OBVIOUS
<1>1. ServedInv /\ HttpInv
  BY DEF Init, ServedInv, HttpInv
<1>2. \A fd \in FDs : ~Queued(fd)
  BY DEF Init, Queued
<1>3. QuietInv
  BY <1>2 DEF Init, QuietInv
<1>4. AddressInv
  BY DEF Init, AddressInv
<1>5. SessionInv
  <2>1. DOMAIN events = {} /\ Len(events) = 0
    BY DEF Init
  <2>2. \A fd \in FDs : ClosedAfter(fd, 0)
    BY DEF Init, ClosedAfter
  <2> QED  BY <2>1, <2>2 DEF Init, SessionInv
<1> QED  BY <1>1, <1>3, <1>4, <1>5, TypeInit DEF IInv

\* Every step keeps the invariant.
LEMMA InvStep == IInv /\ [Next]_vars => IInv'
<1> SUFFICES ASSUME IInv, [Next]_vars  PROVE IInv'
  OBVIOUS
<1>1. TypeInv' /\ ServedInv' /\ HttpInv'
  BY TypeStep, ServedStep, HttpStep DEF IInv
<1>2. ASSUME quit' = {}  PROVE QuietInv' /\ AddressInv' /\ (HasSessions' => SessionInv')
  <2>1. quit = {}
    BY <1>2, QuitStays DEF IInv
  <2>2. HasSessions' => HasSessions
    BY DEF HasSessions, Next, vars
  <2> QED  BY <1>2, <2>1, <2>2, QuietStep, AddressStep, SessionStep DEF IInv
<1> QED  BY <1>1, <1>2 DEF IInv

\* Every reachable state satisfies the invariant.
THEOREM Invariance == Spec => []IInv
<1> QED  BY InvInit, InvStep, PTL DEF Spec

\* Every variable keeps its type, whatever the library and however many clients.
THEOREM TypeCorrect == Spec => []TypeOK
<1>1. IInv => TypeOK
  BY DEF IInv, TypeInv
<1> QED  BY Invariance, <1>1, PTL

\* Whenever the main loop is about to wait, every open descriptor is watched and has
\* a Socket, also after clients have quit (Application.cpp:515, SocketMgr.cpp:22).
THEOREM NoneLeftBehind == Spec => []OpenAreServed
<1>1. IInv => OpenAreServed
  BY DEF IInv, ServedInv, OpenAreServed, Serving
<1> QED  BY Invariance, <1>1, PTL

\* Until a client quits, the descriptors, the map and the watched set agree at the
\* top of the main loop.
THEOREM Agreement == Spec => []TablesAgree
<1>1. IInv => TablesAgree
  <2> SUFFICES ASSUME IInv, mpc = "select", quit = {}
               PROVE  sockets = fdOf /\ Recv = {fd \in FDs : fdOf[fd] # None}
    BY DEF TablesAgree
  <2>1. QuietInv /\ ServedInv
    BY DEF IInv
  <2>2. sockets \in [FDs -> Conns \union {None}] /\ fdOf \in [FDs -> Conns \union {None}]
    BY DEF IInv, TypeInv, TypeOK
  <2>3. \A fd \in FDs : sockets[fd] = fdOf[fd]
    BY <2>1 DEF QuietInv
  <2>4. sockets = fdOf
    BY <2>2, <2>3
  <2>5. Recv \subseteq FDs /\ \A fd \in FDs : fd \in Recv <=> fdOf[fd] # None
    BY <2>1 DEF QuietInv, ServedInv, Serving, IInv, TypeInv, TypeOK
  <2> QED  BY <2>4, <2>5
<1> QED  BY Invariance, <1>1, PTL

\* Until a client quits, what waits to be closed is in the map, and waits once: no
\* erased node is touched (SocketMgr.cpp:22).
THEOREM NoneDangles == Spec => []ClosingIsLive
<1>1. IInv => ClosingIsLive
  BY DEF IInv, QuietInv, ClosingIsLive
<1> QED  BY Invariance, <1>1, PTL

\* The server faults only after a client has quit.
THEOREM QuitAlone == Spec => []CrashOnlyByQuit
<1>1. IInv => CrashOnlyByQuit
  BY DEF IInv, QuietInv, CrashOnlyByQuit
<1> QED  BY Invariance, <1>1, PTL

\* Until a client quits, a connection never finds the session of an earlier one
\* under its number (sessionData and sessionStatus of SMTP and FTP).
THEOREM NoInheritance == Spec => []SessionsInTurn
<1>1. IInv => SessionsInTurn
  BY DEF IInv, HttpInv, SessionInv, HasSessions, SessionsInTurn
<1> QED  BY Invariance, <1>1, PTL

\* Until a client quits, a reply that reaches another client was for one who had
\* hung up.
THEOREM StraysFromTheGone == Spec => []StrayOnlyAfterHangUp
<1>1. IInv => StrayOnlyAfterHangUp
  BY DEF IInv, AddressInv, StrayOnlyAfterHangUp
<1> QED  BY Invariance, <1>1, PTL
=============================================================================
