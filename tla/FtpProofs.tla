------------------------------- MODULE FtpProofs -------------------------------
(***************************************************************************)
(* Proofs about Ftp for any number of clients, descriptors and transfers,  *)
(* and any behaviour of the clients: type correctness, and what the        *)
(* transfers of several clients, on threads that share descriptors and     *)
(* sessions with the queue thread, can and cannot do to each other.        *)
(***************************************************************************)
EXTENDS Ftp, SequenceTheorems, WellFoundedInduction, TLAPS

-----------------------------------------------------------------------------
(* The invariant. *)

\* No name was given yet, or any name.
UserName == {NewSession.user} \union STRING

SessionSet == [user : UserName, loginPrompted : BOOLEAN, loggedIn : BOOLEAN,
               actualDir : [path : Path, slash : BOOLEAN], address : BOOLEAN,
               isPassive : BOOLEAN, passiveSock : FDs \union {Bad}]

Places == {"none", "begin", "connect", "accept", "accepting", "move", "close", "closeListener",
           "storeListener", "delete", "final", "done"}
Somebody == Clients \union {None}
Somewhere == Nodes \union {None}
Numbers  == FDs \union {Bad}
Results  == {0, Bad}
Outcomes == {"unknown", "all", "some", "nothing"}
Codes    == {None, 226, 425}

TransferSet ==
  [pc : Places, client : Somebody, node : Somewhere, send : BOOLEAN, file : Path,
   passive : BOOLEAN, conn : Numbers, closed : Results, peer : Somebody, got : Outcomes,
   opened : BOOLEAN, empty : BOOLEAN, final : Codes, own : BOOLEAN]

\* The root ends in a slash.
Rooted(s) == s.actualDir.path = <<>> => s.actualDir.slash

TypeInv ==
  /\ offered \in Behaviours /\ crashed \in BOOLEAN
  /\ fds \in [FDs -> Objects] /\ ctl \in [Clients -> FDs \union {Bad}]
  /\ pending \subseteq Clients /\ gone \subseteq Clients /\ hit \subseteq Objects
  /\ commands \in [Clients -> Nat] /\ reply \in [Clients -> Nat]
  /\ nodeOf \in [Clients -> Nodes \union {None}]
  /\ nodes \in [Nodes -> SessionSet] /\ \A n \in Nodes : Rooted(nodes[n])
  /\ pasv \in Clients \union {None} /\ formatted \in Clients \union {None}
  /\ transfer \in [Transfers -> TransferSet]
  /\ reached \in [Transfers -> SUBSET Clients] /\ marks \subseteq Marks

\* Clients send what they offer.
PlanInv ==
  /\ \A c \in Connected : c \in DOMAIN offered.plan /\ commands[c] \in 0 .. Len(offered.plan[c])
  /\ \A c \in Clients \ Connected : commands[c] = 0

\* What a STOR has open is a file, while it has a name.
TreeInv ==
  /\ Grown(tree)
  /\ \A t \in Transfers :
       ~transfer[t].send /\ transfer[t].pc \in {"connect", "accept", "accepting", "move"}
         /\ transfer[t].file # <<>>
       => transfer[t].file \in DOMAIN tree /\ tree[transfer[t].file] # "dir"

\* A client has one session, once, and its threads have that one.
NodesInv ==
  /\ \A c, d \in Clients : nodeOf[c] = nodeOf[d] /\ nodeOf[c] # None => c = d
  /\ \A c \in Clients : nodeOf[c] # None => c \in Connected /\ reply[c] # None
  /\ pasv # None => nodeOf[pasv] # None
  /\ pending \subseteq Connected
  /\ \A t \in Transfers : Running(t) =>
       /\ transfer[t].client \in Connected /\ reply[transfer[t].client] # None
       /\ transfer[t].node \in Nodes
       /\ nodeOf[transfer[t].client] \in {None, transfer[t].node}

\* Where a thread is says what it knows.
ThreadInv ==
  \A t \in Transfers :
    LET th == transfer[t]
    IN  /\ th.pc \in {"none", "begin", "connect", "accept", "accepting"} => reached[t] = {}
        /\ th.pc \in {"none", "begin", "connect", "accept"} => th.peer = None
        /\ th.pc \in {"none", "begin", "connect", "accept", "accepting"} => th.conn = Bad
        /\ th.pc = "connect" => ~th.passive
        /\ th.pc \in {"accept", "accepting"} => th.passive
        /\ th.pc \in {"storeListener", "delete"} => "passiveDone" \in marks
        /\ th.pc \in {"close", "closeListener", "storeListener", "delete"} => th.got # "unknown"
        /\ th.pc = "final" \/ th.final = 226 => th.got # "unknown" \/ ~th.opened
        /\ th.pc # "done" => th.final = None
        /\ th.pc = "done" /\ th.final = None => th.send /\ th.empty

\* A data connection has the number its thread knows, and nobody else closed it.
DataInv ==
  /\ \A n \in FDs, t \in Transfers : fds[n] = Data(t) =>
       /\ transfer[t].conn = n
       /\ transfer[t].pc \in {"move", "close"} \/ transfer[t].final = 425
  /\ hit = {} => \A t \in Transfers :
       transfer[t].pc \in {"move", "close"} /\ transfer[t].conn # Bad =>
         fds[transfer[t].conn] = Data(t)

\* The one buffer has the address of the one client that has set one.
AddressInv ==
  "address" \notin marks =>
    /\ \A c \in Clients :
         nodeOf[c] # None /\ nodes[nodeOf[c]].address => formatted \in {c, None}
    /\ \A t \in Transfers :
         transfer[t].pc \in {"begin", "connect"} /\ Node(t).address =>
           formatted \in {transfer[t].client, None}

\* Client c, or a thread of its, has a pointer to session n.
Owns(c, n) ==
  nodeOf[c] = n \/ \E t \in Transfers : Running(t) /\ transfer[t].client = c /\ transfer[t].node = n

\* Somebody will accept, or may, on the passive socket of session n.
Listens(n) ==
  nodes[n].isPassive \/ \E t \in Transfers : transfer[t].pc = "accept" /\ transfer[t].node = n

\* The passive socket of a session is the one its client was told of, except in the
\* middle of a PASV.
PassiveInv ==
  /\ pasv # None => "pasv" \in marks
  /\ "reused" \notin marks =>
       \A n \in Nodes, c, d \in Clients : Owns(c, n) /\ Owns(d, n) => c = d
  /\ hit = {} /\ Without({"passiveDone", "reused"}) =>
       \A n \in Nodes, c \in Clients : Owns(c, n) /\ Listens(n) =>
         LET s == nodes[n].passiveSock
         IN  s # Bad => fds[s] = Listen(c) \/ (pasv = c /\ fds[s].kind # "listen")
  /\ "pasv" \notin marks \/ (pasv # None /\ "pasvAgain" \notin marks) =>
       \A n \in Nodes : ~Listens(n)

\* Who is at the other end is the client that asked.
PeerInv ==
  hit = {} =>
    \A t \in Transfers :
      Without(IF transfer[t].passive THEN {"passiveDone", "reused"} ELSE {"address"}) =>
        /\ transfer[t].peer \in {None, transfer[t].client}
        /\ reached[t] \subseteq {transfer[t].client}

\* Until a number is closed that is closed elsewhere too, nothing wrong is closed.
ControlInv ==
  Without({"passiveDone", "pasvAgain", "quit"}) =>
    /\ hit = {} /\ pending \subseteq gone
    /\ "pasv" \notin marks => fds[0] = Std /\ \A n \in Nodes : nodes[n].passiveSock = 0
    /\ \A c \in Connected : fds[ctl[c]] = Control(c) \/ c \in gone \ pending

\* Until somebody leaves, sessions and connections stay.
StayInv ==
  Without({"left", "quit"}) =>
    /\ gone = {} /\ pending = {} /\ "reused" \notin marks
    /\ \A t \in Transfers : Running(t) => nodeOf[transfer[t].client] = transfer[t].node
    /\ hit = {} => /\ \A c \in Connected : fds[ctl[c]] = Control(c)
                   /\ \A t \in Transfers : transfer[t].own

\* A transfer that moves something has a connection.
MoveInv ==
  Without({"passiveDone", "pasvAgain", "left", "quit", "full"}) =>
    \A t \in Transfers :
      /\ transfer[t].got # "nothing"
      /\ transfer[t].pc = "accepting" => transfer[t].peer # None
      /\ transfer[t].pc = "move" => transfer[t].conn # Bad /\ transfer[t].peer # None

ListenInv ==
  Without({"passiveDone", "left", "quit"}) =>
    \A n \in FDs, c \in Clients : fds[n] = Listen(c) =>
      pasv # c /\ nodeOf[c] # None /\ Session(c).passiveSock = n

Inv == /\ TypeInv /\ PlanInv /\ TreeInv /\ NodesInv /\ ThreadInv /\ DataInv /\ AddressInv
       /\ PassiveInv /\ PeerInv /\ ControlInv /\ StayInv /\ MoveInv /\ ListenInv
       /\ InDirectory

-----------------------------------------------------------------------------
(* Paths and trees. *)

LEMMA FrontType ==
  ASSUME NEW path \in Path, path # <<>>
  PROVE  /\ Front(path) \in Path /\ Len(Front(path)) = Len(path) - 1
         /\ Len(path) \in Nat \ {0}
<1>1. path \in Seq(Seq(STRING)) /\ Len(path) \in Nat /\ Len(path) # 0
  BY EmptySeq DEF Path
<1>2. \A i \in 1 .. (Len(path) - 1) : path[i] \in Seq(STRING)
  BY <1>1
<1> DEFINE n == Len(path) - 1
<1>3. n \in Nat
  BY <1>1
<1>4. /\ SubSeq(path, 1, n) \in Seq(Seq(STRING))
      /\ Len(SubSeq(path, 1, n)) = IF 1 <= n THEN n - 1 + 1 ELSE 0
  BY <1>2, <1>3, SubSeqProperties
<1>5. Front(path) = SubSeq(path, 1, n)
  BY DEF Front
<1>6. (IF 1 <= n THEN n - 1 + 1 ELSE 0) = n
  <2>1. \A k \in Nat : (IF 1 <= k THEN k - 1 + 1 ELSE 0) = k
    OBVIOUS
  <2> QED  BY <1>3, <2>1
<1>7. n = Len(path) - 1
  OBVIOUS
<1> HIDE DEF n
<1>8. Front(path) \in Path /\ Len(Front(path)) = n
  BY <1>4, <1>5, <1>6 DEF Path
<1> QED  BY <1>1, <1>7, <1>8

LEMMA ConcatPath ==
  ASSUME NEW dir \in [path : Path, slash : BOOLEAN], dir.path = <<>> => dir.slash,
         NEW path \in Path, path # <<>>
  PROVE  Concat(dir, path) \in Path
<1>1. dir.path \in Seq(Seq(STRING)) /\ path \in Seq(Seq(STRING))
  BY DEF Path
<1>2. CASE dir.slash
  BY <1>1, <1>2, ConcatProperties DEF Concat, Path
<1>3. CASE ~dir.slash
  <2>1. dir.path # <<>> /\ Front(dir.path) \in Seq(Seq(STRING)) /\ Len(dir.path) \in Nat \ {0}
    BY <1>3, FrontType DEF Path
  <2>2. Last(dir.path) \in Seq(STRING)
    BY <1>1, <2>1 DEF Last
  <2>3. Head(path) \in Seq(STRING) /\ Tail(path) \in Seq(Seq(STRING))
    BY <1>1, HeadTailProperties
  <2>4. Last(dir.path) \o Head(path) \in Seq(STRING)
    BY <2>2, <2>3, ConcatProperties
  <2> DEFINE name == Last(dir.path) \o Head(path)
             front == Front(dir.path)
             tail == Tail(path)
  <2>5. Concat(dir, path) = front \o <<name>> \o tail
    BY <1>3 DEF Concat
  <2> HIDE DEF name, front, tail
  <2>6. <<name>> \in Seq(Seq(STRING))
    BY <2>4 DEF name
  <2>7. front \o <<name>> \in Seq(Seq(STRING))
    BY <2>1, <2>6, ConcatProperties DEF front
  <2>8. front \o <<name>> \o tail \in Seq(Seq(STRING))
    BY <2>3, <2>7, ConcatProperties DEF tail
  <2> QED  BY <2>5, <2>8 DEF Path
<1> QED  BY <1>2, <1>3

LEMMA AddressPath ==
  ASSUME NEW dir \in [path : Path, slash : BOOLEAN], dir.path = <<>> => dir.slash,
         NEW arg \in Arguments, arg.to \in {"abs", "name"}
  PROVE  Address(dir, arg) \in Path /\ NewDirectory(dir, arg) \in Path
<1>1. arg.path \in Path /\ dir.path \in Path /\ (arg.to = "name" => arg.path # <<>>)
  BY DEF Arguments
<1>2. dir.path \o arg.path \in Path
  BY <1>1, ConcatProperties DEF Path
<1>3. arg.to # "abs" => Concat(dir, arg.path) \in Path
  BY <1>1, ConcatPath
<1> QED  BY <1>1, <1>2, <1>3 DEF Address, NewDirectory

\* A file or a directory more.
LEMMA PutGrown ==
  ASSUME NEW f, Grown(f), NEW path \in Path, HasParent(f, path), NEW kind \in Kinds,
         path \in DOMAIN f => f[path] # "dir"
  PROVE  /\ Grown(Put(f, path, kind))
         /\ \A p : IsDir(f, p) => IsDir(Put(f, path, kind), p)
         /\ DOMAIN Put(f, path, kind) = DOMAIN f \union {path}
         /\ Put(f, path, kind)[path] = kind
         /\ \A p \in DOMAIN f : p # path => Put(f, path, kind)[p] = f[p]
<1> DEFINE g == Put(f, path, kind)
<1>1. /\ DOMAIN g = DOMAIN f \union {path} /\ g[path] = kind
      /\ \A p \in DOMAIN f : p # path => g[p] = f[p]
  BY DEF Put
<1> HIDE DEF g
<1>2. \A p : IsDir(f, p) => IsDir(g, p)
  BY <1>1 DEF IsDir
<1>3. \A p : HasParent(f, p) => HasParent(g, p)
  BY <1>2 DEF HasParent
<1>4. Grown(g)
  BY <1>1, <1>3 DEF Grown
<1> QED  BY <1>1, <1>2, <1>4 DEF g

\* A file, or a directory with nothing in it, less.
LEMMA DeletedGrown ==
  ASSUME NEW f, Grown(f), NEW path, Removable(f, path)
  PROVE  /\ Grown(Deleted(f, path)) /\ DOMAIN Deleted(f, path) = DOMAIN f \ {path}
         /\ \A p \in DOMAIN f \ {path} : Deleted(f, path)[p] = f[p]
<1> DEFINE g == Deleted(f, path)
<1>1. /\ DOMAIN g = DOMAIN f \ {path} /\ \A p \in DOMAIN g : g[p] = f[p]
      /\ path \in DOMAIN f /\ \A p \in DOMAIN f : p # path => ~IsPrefix(path, p)
  BY DEF Deleted, Restrict, Removable
<1> HIDE DEF g
<1>2. ASSUME NEW p \in DOMAIN g
      PROVE  HasParent(g, p)
  <2>1. p \in DOMAIN f /\ p # path /\ p # <<>> /\ p \in Path /\ IsDir(f, Front(p))
    BY <1>1, <1>2 DEF Grown, HasParent
  <2>2. Front(p) # path
    <3> SUFFICES ASSUME Front(p) = path PROVE FALSE
      OBVIOUS
    <3> DEFINE q == Front(p)
    <3>1. /\ q \in Path /\ Len(q) = Len(p) - 1 /\ Len(p) \in Nat /\ Len(q) \in Nat
      BY <2>1, FrontType
    <3>2. q = SubSeq(p, 1, Len(q))
      BY <3>1 DEF Front
    <3>3. SubSeq(q, 1, Len(q)) = q
      BY <3>1, SubSeqFull DEF Path
    <3> HIDE DEF q
    <3>4. IsPrefix(q, p)
      BY <3>1, <3>2, <3>3 DEF IsPrefix
    <3> QED  BY <1>1, <2>1, <3>4 DEF q
  <2> QED  BY <1>1, <2>1, <2>2 DEF IsDir, HasParent
<1>3. Grown(g)
  BY <1>1, <1>2 DEF Grown
<1> QED  BY <1>1, <1>3 DEF g

\* The directory above one that exists.
LEMMA FrontIsDir ==
  ASSUME NEW f, Grown(f), NEW path, path # <<>>, IsDir(f, path)
  PROVE  IsDir(f, Front(path))
BY DEF Grown, HasParent, IsDir

-----------------------------------------------------------------------------
(* Sessions. *)

LEMMA NewSessionType == NewSession \in SessionSet /\ Rooted(NewSession)
<1>1. 0 \in FDs
  BY FtpBounds DEF FDs
<1>2. Root \in [path : Path, slash : BOOLEAN] /\ Root.slash
  BY DEF Root, Path
<1>3. "none" \in UserName
  BY DEF UserName, NewSession
<1>4. NewSession.actualDir = Root
  BY DEF NewSession
<1>5. Rooted(NewSession)
  BY <1>2, <1>4 DEF Rooted
<1>6. NewSession \in SessionSet
  BY <1>1, <1>2, <1>3 DEF NewSession, SessionSet
<1> QED  BY <1>5, <1>6

\* What a dialogue leaves alone.
Talked(new, s) == /\ new \in SessionSet /\ Rooted(new)
                  /\ new.address = s.address /\ new.isPassive = s.isPassive
                  /\ new.passiveSock = s.passiveSock

LEMMA LoginTalk ==
  ASSUME NEW s \in SessionSet, Rooted(s), NEW user \in UserName, NEW prompted \in BOOLEAN,
         NEW in \in BOOLEAN
  PROVE  /\ Talked(s, s) /\ Talked([s EXCEPT !.user = user, !.loginPrompted = prompted], s)
         /\ Talked([s EXCEPT !.loginPrompted = prompted, !.loggedIn = in], s)
         /\ Talked([s EXCEPT !.loginPrompted = prompted], s)
<1>1. Talked(s, s)
  BY DEF Talked
<1>2. Talked([s EXCEPT !.user = user, !.loginPrompted = prompted], s)
  BY DEF Talked, SessionSet, Rooted
<1>3. Talked([s EXCEPT !.loginPrompted = prompted, !.loggedIn = in], s)
  BY DEF Talked, SessionSet, Rooted
<1>4. Talked([s EXCEPT !.loginPrompted = prompted], s)
  BY DEF Talked, SessionSet, Rooted
<1> QED  BY <1>1, <1>2, <1>3, <1>4

LEMMA DirectoryTalk ==
  ASSUME NEW s \in SessionSet, Rooted(s), NEW dir \in [path : Path, slash : BOOLEAN],
         dir.path = <<>> => dir.slash
  PROVE  Talked([s EXCEPT !.actualDir = dir], s) /\ [s EXCEPT !.actualDir = dir].actualDir = dir
BY DEF Talked, SessionSet, Rooted

LEMMA UserTalk ==
  ASSUME NEW s \in SessionSet, Rooted(s), NEW name \in STRING
  PROVE  Talked(User(s, name).session, s) /\ User(s, name).reply \in Nat
<1>1. Talked(s, s) /\ Talked([s EXCEPT !.user = name, !.loginPrompted = TRUE], s)
  BY LoginTalk DEF UserName
<1>2. \/ User(s, name) = [session |-> s, reply |-> 0]
      \/ User(s, name) = [session |-> s, reply |-> 500]
      \/ User(s, name) = [session |-> [s EXCEPT !.user = name, !.loginPrompted = TRUE],
                          reply |-> 331]
  BY DEF User, SessionSet
<1> QED  BY <1>1, <1>2

LEMMA PassTalk ==
  ASSUME NEW s \in SessionSet, Rooted(s), NEW known \in BOOLEAN
  PROVE  Talked(Pass(s, known).session, s) /\ Pass(s, known).reply \in Nat
<1> DEFINE in == [s EXCEPT !.loginPrompted = FALSE, !.loggedIn = TRUE]
           out == [s EXCEPT !.loginPrompted = FALSE]
<1>1. Talked(s, s) /\ Talked(in, s) /\ Talked(out, s)
  BY LoginTalk DEF SessionSet
<1>2. \/ Pass(s, known) = [session |-> s, reply |-> 0]
      \/ Pass(s, known) = [session |-> in, reply |-> 230]
      \/ Pass(s, known) = [session |-> out, reply |-> 530]
  BY DEF Pass
<1> HIDE DEF in, out
<1> QED  BY <1>1, <1>2

LEMMA GoToTalk ==
  ASSUME NEW s \in SessionSet, Rooted(s), NEW path \in Path
  PROVE  /\ Talked(GoTo(s, tree, path).session, s)
         /\ GoTo(s, tree, path).session.actualDir.path = path
         /\ GoTo(s, tree, path).reply \in {200, 550}
         /\ GoTo(s, tree, path).reply # 550 <=> IsDir(tree, path)
<1> DEFINE dir == [path |-> path, slash |-> TRUE]
<1>1. dir \in [path : Path, slash : BOOLEAN] /\ dir.path = path /\ dir.slash
  OBVIOUS
<1> HIDE DEF dir
<1>2. Talked([s EXCEPT !.actualDir = dir], s) /\ [s EXCEPT !.actualDir = dir].actualDir = dir
  BY <1>1, DirectoryTalk
<1>3. /\ GoTo(s, tree, path).session = [s EXCEPT !.actualDir = dir]
      /\ GoTo(s, tree, path).reply = IF IsDir(tree, path) THEN 200 ELSE 550
  BY DEF GoTo, dir
<1> QED  BY <1>1, <1>2, <1>3

\* CWD: a directory that is there, or the absolute path that was refused.
LEMMA CwdTalk ==
  ASSUME NEW s \in SessionSet, Rooted(s), NEW arg \in Arguments
  PROVE  LET r == Cwd(s, tree, arg)
         IN  /\ Talked(r.session, s) /\ r.reply \in {200, 250, 550}
             /\ Grown(tree) /\ IsDir(tree, s.actualDir.path) =>
                  \/ IsDir(tree, r.session.actualDir.path)
                  \/ arg.to = "abs" /\ r.reply = 550
<1> DEFINE r == Cwd(s, tree, arg)
           dir == s.actualDir
<1>1. /\ arg.to \in {"abs", "self", "up", "name"} /\ arg.path \in Path
      /\ arg.to = "name" => arg.path # <<>>
      /\ dir \in [path : Path, slash : BOOLEAN] /\ dir.path \in Path
      /\ dir.path = <<>> => dir.slash
  BY DEF Arguments, SessionSet, Rooted
<1>2. CASE arg.to = "self"
  <2>1. r.session = s /\ r.reply \in {200, 550}
    BY <1>2 DEF Cwd
  <2> QED  BY <2>1 DEF Talked
<1>3. CASE arg.to = "up"
  <2>1. CASE dir = Root
    <3>1. r.session = s /\ r.reply = 200
      BY <1>3, <2>1 DEF Cwd
    <3> QED  BY <3>1 DEF Talked
  <2>2. CASE dir # Root
    <3>1. dir.path # <<>>
      BY <1>1, <2>2 DEF Root
    <3>2. r = GoTo(s, tree, Front(dir.path)) /\ Front(dir.path) \in Path
      BY <1>1, <1>3, <2>2, <3>1, FrontType DEF Cwd
    <3>3. Grown(tree) /\ IsDir(tree, dir.path) => IsDir(tree, Front(dir.path))
      BY <3>1, FrontIsDir
    <3> QED  BY <3>2, <3>3, GoToTalk
  <2> QED  BY <2>1, <2>2
<1>4. CASE arg.to = "abs"
  <2>1. r = GoTo(s, tree, arg.path)
    BY <1>4 DEF Cwd
  <2> QED  BY <1>1, <1>4, <2>1, GoToTalk
<1>5. CASE arg.to = "name"
  <2> DEFINE path == Concat(dir, arg.path)
             go == GoTo(s, tree, path)
  <2>1. path \in Path
    BY <1>1, <1>5, ConcatPath
  <2>2. CASE IsDir(tree, path)
    <3>1. r = [go EXCEPT !.reply = 250]
      BY <1>5, <2>2 DEF Cwd
    <3>2. r.session = go.session /\ r.reply = 250
      BY <3>1 DEF GoTo
    <3> QED  BY <2>1, <2>2, <3>2, GoToTalk
  <2>3. CASE ~IsDir(tree, path)
    <3>1. r.session = s /\ r.reply = 550
      BY <1>5, <2>3 DEF Cwd
    <3> QED  BY <3>1 DEF Talked
  <2> QED  BY <2>2, <2>3
<1> QED  BY <1>1, <1>2, <1>3, <1>4, <1>5

LEMMA CdupTalk ==
  ASSUME NEW s \in SessionSet, Rooted(s)
  PROVE  /\ Talked(Cdup(s), s)
         /\ Grown(tree) /\ IsDir(tree, s.actualDir.path) => IsDir(tree, Cdup(s).actualDir.path)
<1> DEFINE path == s.actualDir.path
<1>1. path \in Path /\ Len(path) \in Nat
  BY DEF SessionSet, Path
<1>2. CASE Len(path) <= 1
  <2>1. Cdup(s) = [s EXCEPT !.actualDir = Root]
    BY <1>2 DEF Cdup
  <2>2. Root \in [path : Path, slash : BOOLEAN] /\ Root.slash /\ Root.path = <<>>
    BY DEF Root, Path
  <2>3. Talked(Cdup(s), s) /\ Cdup(s).actualDir = Root
    BY <2>1, <2>2, DirectoryTalk
  <2> QED  BY <2>2, <2>3 DEF IsDir
<1>3. CASE ~(Len(path) <= 1)
  <2> DEFINE dir == [path |-> Front(path), slash |-> FALSE]
  <2>1. path # <<>> /\ Front(path) \in Path /\ Len(Front(path)) = Len(path) - 1
    BY <1>1, <1>3, FrontType
  <2>2. Front(path) # <<>>
    BY <1>1, <1>3, <2>1
  <2>3. Cdup(s) = [s EXCEPT !.actualDir = dir]
    BY <1>3 DEF Cdup
  <2>4. dir \in [path : Path, slash : BOOLEAN] /\ dir.path = Front(path)
    BY <2>1
  <2> HIDE DEF dir
  <2>5. Talked(Cdup(s), s) /\ Cdup(s).actualDir = dir
    BY <2>2, <2>3, <2>4, DirectoryTalk
  <2> QED  BY <2>1, <2>4, <2>5, FrontIsDir
<1> QED  BY <1>2, <1>3

-----------------------------------------------------------------------------
(* What the threads assign. *)

LEMMA Assigned ==
  ASSUME NEW th \in TransferSet
  PROVE  /\ \A pc \in Places : [th EXCEPT !.pc = pc] \in TransferSet
         /\ \A yes \in BOOLEAN : /\ [th EXCEPT !.passive = yes] \in TransferSet
                                 /\ [th EXCEPT !.empty = yes] \in TransferSet
                                 /\ [th EXCEPT !.opened = yes] \in TransferSet
                                 /\ [th EXCEPT !.own = yes] \in TransferSet
         /\ \A n \in Numbers : [th EXCEPT !.conn = n] \in TransferSet
         /\ \A c \in Somebody : [th EXCEPT !.peer = c] \in TransferSet
         /\ \A code \in Codes : [th EXCEPT !.final = code] \in TransferSet
         /\ \A got \in Outcomes : [th EXCEPT !.got = got] \in TransferSet
         /\ \A n \in Results : [th EXCEPT !.closed = n] \in TransferSet
         /\ \A file \in Path : [th EXCEPT !.file = file] \in TransferSet
<1>1. \A pc \in Places : [th EXCEPT !.pc = pc] \in TransferSet
  BY DEF TransferSet
<1>2. \A yes \in BOOLEAN : [th EXCEPT !.passive = yes] \in TransferSet
  BY DEF TransferSet
<1>3. \A yes \in BOOLEAN : [th EXCEPT !.empty = yes] \in TransferSet
  BY DEF TransferSet
<1>4. \A yes \in BOOLEAN : [th EXCEPT !.opened = yes] \in TransferSet
  BY DEF TransferSet
<1>5. \A yes \in BOOLEAN : [th EXCEPT !.own = yes] \in TransferSet
  BY DEF TransferSet
<1>6. \A n \in Numbers : [th EXCEPT !.conn = n] \in TransferSet
  BY DEF TransferSet
<1>7. \A c \in Somebody : [th EXCEPT !.peer = c] \in TransferSet
  BY DEF TransferSet
<1>8. \A code \in Codes : [th EXCEPT !.final = code] \in TransferSet
  BY DEF TransferSet
<1>9. \A got \in Outcomes : [th EXCEPT !.got = got] \in TransferSet
  BY DEF TransferSet
<1>10. \A n \in Results : [th EXCEPT !.closed = n] \in TransferSet
  BY DEF TransferSet
<1>11. \A file \in Path : [th EXCEPT !.file = file] \in TransferSet
  BY DEF TransferSet
<1> QED  BY <1>1, <1>2, <1>3, <1>4, <1>5, <1>6, <1>7, <1>8, <1>9, <1>10, <1>11

LEMMA AssignedTogether ==
  ASSUME NEW th \in TransferSet
  PROVE  /\ \A pc \in Places, passive \in BOOLEAN, yes \in BOOLEAN :
              [th EXCEPT !.pc = pc, !.passive = passive, !.empty = yes] \in TransferSet
         /\ \A pc \in Places, passive \in BOOLEAN, yes \in BOOLEAN :
              [th EXCEPT !.pc = pc, !.passive = passive, !.opened = yes] \in TransferSet
         /\ \A pc \in Places, n \in Numbers, c \in Somebody :
              [th EXCEPT !.pc = pc, !.conn = n, !.peer = c] \in TransferSet
         /\ \A pc \in Places, code \in Codes, yes \in BOOLEAN :
              [th EXCEPT !.pc = pc, !.final = code, !.own = yes] \in TransferSet
         /\ \A pc \in Places, c \in Somebody :
              [th EXCEPT !.pc = pc, !.peer = c] \in TransferSet
         /\ \A pc \in Places, n \in Numbers :
              [th EXCEPT !.pc = pc, !.conn = n] \in TransferSet
         /\ \A pc \in Places, got \in Outcomes :
              [th EXCEPT !.pc = pc, !.got = got] \in TransferSet
         /\ \A pc \in Places, n \in Results :
              [th EXCEPT !.pc = pc, !.closed = n] \in TransferSet
<1>1. ASSUME NEW pc \in Places, NEW passive \in BOOLEAN, NEW yes \in BOOLEAN
      PROVE  [th EXCEPT !.pc = pc, !.passive = passive, !.empty = yes] \in TransferSet
  <2> DEFINE x1 == [th EXCEPT !.pc = pc]
             x2 == [x1 EXCEPT !.passive = passive]
             x3 == [x2 EXCEPT !.empty = yes]
  <2>1. x1 \in TransferSet
    BY Assigned
  <2>2. x2 \in TransferSet
    <3> HIDE DEF x1
    <3> QED  BY <2>1, Assigned
  <2>3. x3 \in TransferSet
    <3> HIDE DEF x2
    <3> QED  BY <2>2, Assigned
  <2> QED  BY <2>3
<1>2. ASSUME NEW pc \in Places, NEW passive \in BOOLEAN, NEW yes \in BOOLEAN
      PROVE  [th EXCEPT !.pc = pc, !.passive = passive, !.opened = yes] \in TransferSet
  <2> DEFINE x1 == [th EXCEPT !.pc = pc]
             x2 == [x1 EXCEPT !.passive = passive]
             x3 == [x2 EXCEPT !.opened = yes]
  <2>1. x1 \in TransferSet
    BY Assigned
  <2>2. x2 \in TransferSet
    <3> HIDE DEF x1
    <3> QED  BY <2>1, Assigned
  <2>3. x3 \in TransferSet
    <3> HIDE DEF x2
    <3> QED  BY <2>2, Assigned
  <2> QED  BY <2>3
<1>3. ASSUME NEW pc \in Places, NEW n \in Numbers, NEW c \in Somebody
      PROVE  [th EXCEPT !.pc = pc, !.conn = n, !.peer = c] \in TransferSet
  <2> DEFINE x1 == [th EXCEPT !.pc = pc]
             x2 == [x1 EXCEPT !.conn = n]
             x3 == [x2 EXCEPT !.peer = c]
  <2>1. x1 \in TransferSet
    BY Assigned
  <2>2. x2 \in TransferSet
    <3> HIDE DEF x1
    <3> QED  BY <2>1, Assigned
  <2>3. x3 \in TransferSet
    <3> HIDE DEF x2
    <3> QED  BY <2>2, Assigned
  <2> QED  BY <2>3
<1>4. ASSUME NEW pc \in Places, NEW code \in Codes, NEW yes \in BOOLEAN
      PROVE  [th EXCEPT !.pc = pc, !.final = code, !.own = yes] \in TransferSet
  <2> DEFINE x1 == [th EXCEPT !.pc = pc]
             x2 == [x1 EXCEPT !.final = code]
             x3 == [x2 EXCEPT !.own = yes]
  <2>1. x1 \in TransferSet
    BY Assigned
  <2>2. x2 \in TransferSet
    <3> HIDE DEF x1
    <3> QED  BY <2>1, Assigned
  <2>3. x3 \in TransferSet
    <3> HIDE DEF x2
    <3> QED  BY <2>2, Assigned
  <2> QED  BY <2>3
<1>5. ASSUME NEW pc \in Places, NEW c \in Somebody
      PROVE  [th EXCEPT !.pc = pc, !.peer = c] \in TransferSet
  <2> DEFINE x1 == [th EXCEPT !.pc = pc]
             x2 == [x1 EXCEPT !.peer = c]
  <2>1. x1 \in TransferSet
    BY Assigned
  <2>2. x2 \in TransferSet
    <3> HIDE DEF x1
    <3> QED  BY <2>1, Assigned
  <2> QED  BY <2>2
<1>6. ASSUME NEW pc \in Places, NEW n \in Numbers
      PROVE  [th EXCEPT !.pc = pc, !.conn = n] \in TransferSet
  <2> DEFINE x1 == [th EXCEPT !.pc = pc]
             x2 == [x1 EXCEPT !.conn = n]
  <2>1. x1 \in TransferSet
    BY Assigned
  <2>2. x2 \in TransferSet
    <3> HIDE DEF x1
    <3> QED  BY <2>1, Assigned
  <2> QED  BY <2>2
<1>7. ASSUME NEW pc \in Places, NEW got \in Outcomes
      PROVE  [th EXCEPT !.pc = pc, !.got = got] \in TransferSet
  <2> DEFINE x1 == [th EXCEPT !.pc = pc]
             x2 == [x1 EXCEPT !.got = got]
  <2>1. x1 \in TransferSet
    BY Assigned
  <2>2. x2 \in TransferSet
    <3> HIDE DEF x1
    <3> QED  BY <2>1, Assigned
  <2> QED  BY <2>2
<1>8. ASSUME NEW pc \in Places, NEW n \in Results
      PROVE  [th EXCEPT !.pc = pc, !.closed = n] \in TransferSet
  <2> DEFINE x1 == [th EXCEPT !.pc = pc]
             x2 == [x1 EXCEPT !.closed = n]
  <2>1. x1 \in TransferSet
    BY Assigned
  <2>2. x2 \in TransferSet
    <3> HIDE DEF x1
    <3> QED  BY <2>1, Assigned
  <2> QED  BY <2>2
<1> QED  BY <1>1, <1>2, <1>3, <1>4, <1>5, <1>6, <1>7, <1>8


-----------------------------------------------------------------------------
(* Numbers, commands and threads. *)

LEMMA MinIn ==
  ASSUME NEW S \in SUBSET Nat, S # {}
  PROVE  Min(S) \in S
<1> DEFINE R == OpToRel(<, Nat)
<1>1. IsWellFoundedOn(R, Nat)
  BY NatLessThanWellFounded
<1>2. \A x, y \in Nat : <<x, y>> \in R <=> x < y
  BY DEF OpToRel
<1> HIDE DEF R
<1>3. PICK x \in S : \A y \in S : ~(<<y, x>> \in R)
  BY <1>1, WFMin
<1>4. \A y \in S : ~(y < x)
  BY <1>2, <1>3
<1>5. \A y \in S : x <= y
  BY <1>4
<1> QED  BY <1>5 DEF Min

\* The lowest free number, if there is one.
LEMMA LowestFree ==
  /\ Lowest \in FDs \union {Bad}
  /\ Lowest # Bad => Lowest \in FDs /\ fds[Lowest] = Free
  /\ Bad \notin FDs /\ 0 \in FDs
<1>1. FDs \subseteq Nat /\ Bad \notin FDs /\ 0 \in FDs
  BY FtpBounds DEF FDs, Bad
<1>2. FreeNumber \subseteq FDs /\ \A n \in FreeNumber : fds[n] = Free
  BY DEF FreeNumber
<1>3. CASE FreeNumber = {}
  BY <1>1, <1>3 DEF Lowest
<1>4. CASE FreeNumber # {}
  <2>1. Lowest \in FreeNumber
    BY <1>1, <1>2, <1>4, MinIn DEF Lowest
  <2> QED  BY <1>1, <1>2, <2>1
<1> QED  BY <1>3, <1>4

LEMMA UnusedTransfer ==
  ASSUME Unused # {}
  PROVE  Min(Unused) \in Transfers /\ transfer[Min(Unused)] = NoTransfer
<1>1. Unused \subseteq Transfers /\ Transfers \subseteq Nat
  BY FtpBounds DEF Unused, Transfers
<1> QED  BY <1>1, MinIn DEF Unused

LEMMA Opened ==
  ASSUME TypeInv, NEW n \in FDs \union {Bad}, NEW object \in Objects, Open(n, object)
  PROVE  /\ fds' \in [FDs -> Objects] /\ (n = Bad => fds' = fds)
         /\ n # Bad => fds'[n] = object
         /\ \A m \in FDs : m # n => fds'[m] = fds[m]
BY DEF TypeInv, Open

LEMMA ClosedFacts ==
  ASSUME TypeInv, NEW n \in FDs \union {Bad}, NEW own, CloseNumber(n, own)
  PROVE  /\ fds' \in [FDs -> Objects] /\ hit' \subseteq Objects /\ hit \subseteq hit'
         /\ n \in FDs => fds'[n] = Free
         /\ \A m \in FDs : m # n => fds'[m] = fds[m]
         /\ \A x \in hit' : x \in hit \/ (n \in FDs /\ x = fds[n] /\ x \notin own)
         /\ hit' = {} => hit = {} /\ (n \in FDs => fds[n] \in {Free, Std} \union own)
<1>1. Free \in Objects
  BY DEF Objects
<1>2. fds \in [FDs -> Objects] /\ hit \subseteq Objects
  BY DEF TypeInv
<1>3. CASE n \in FDs
  <2>1. fds' = [fds EXCEPT ![n] = Free]
        /\ hit' = hit \union ({fds[n]} \ ({Free, Std} \union own))
    BY <1>3 DEF CloseNumber, Closed
  <2> QED  BY <1>1, <1>2, <1>3, <2>1
<1>4. CASE n \notin FDs
  <2>1. fds' = fds /\ hit' = hit
    BY <1>4 DEF CloseNumber, Closed
  <2> QED  BY <1>2, <1>4, <2>1
<1> QED  BY <1>3, <1>4

LEMMA CommandFields ==
  ASSUME NEW command \in Commands
  PROVE  /\ command.is = "user" => command.name \in STRING
         /\ command.is = "pass" => command.known \in BOOLEAN
         /\ command.is = "cwd" => command.arg \in Arguments
         /\ command.is \in {"mkd", "remove", "retr", "stor"} =>
              command.arg \in Arguments /\ command.arg.to \in {"abs", "name"}
BY DEF Commands

\* A client that sends is connected, has a session, and sends what it offers.
LEMMA Sending ==
  ASSUME TypeInv, PlanInv, NEW c \in Clients, NEW command \in Offered(c), Sends(c),
         UNCHANGED offered
  PROVE  /\ command \in Commands /\ commands' \in [Clients -> Nat] /\ PlanInv'
         /\ nodeOf[c] \in Nodes /\ Session(c) \in SessionSet /\ Rooted(Session(c))
         /\ c \in Connected /\ c \notin gone /\ pasv = None
         /\ UNCHANGED <<ctl, gone, crashed, reached>>
<1>1. /\ c \in Connected /\ c \notin gone /\ nodeOf[c] # None /\ pasv = None
      /\ commands' = [commands EXCEPT ![c] = @ + 1]
      /\ UNCHANGED <<ctl, gone, crashed, reached>>
  BY DEF Sends
<1>2. /\ c \in DOMAIN offered.plan /\ commands[c] < Len(offered.plan[c])
      /\ command \in offered.plan[c][commands[c] + 1]
  BY DEF Offered
<1>3. offered.plan \in Seq(Seq(SUBSET Commands))
  BY BehavioursAssumption DEF TypeInv
<1>4. offered.plan[c] \in Seq(SUBSET Commands)
  BY <1>2, <1>3
<1>5. Len(offered.plan[c]) \in Nat
  BY <1>4
<1>6. commands[c] + 1 \in 1 .. Len(offered.plan[c])
  BY <1>2, <1>5 DEF TypeInv
<1>7. command \in Commands
  <2>1. offered.plan[c][commands[c] + 1] \in SUBSET Commands
    BY <1>4, <1>5, <1>6, ElementOfSeq
  <2> QED  BY <1>2, <2>1
<1>8. commands' \in [Clients -> Nat]
  BY <1>1 DEF TypeInv
<1>9. PlanInv'
  <2>1. Connected' = Connected
    BY <1>1 DEF Connected
  <2>2. commands'[c] \in 0 .. Len(offered.plan[c])
    BY <1>1, <1>5, <1>6 DEF TypeInv
  <2>3. \A d \in Clients : d # c => commands'[d] = commands[d]
    BY <1>1 DEF TypeInv
  <2>4. \A d \in Clients \ Connected : commands'[d] = commands[d]
    BY <1>1, <2>3
  <2> QED  BY <1>2, <2>1, <2>2, <2>3, <2>4 DEF PlanInv, Connected
<1>10. nodeOf[c] \in Nodes /\ Session(c) \in SessionSet /\ Rooted(Session(c))
  BY <1>1 DEF TypeInv, Session
<1> QED  BY <1>1, <1>7, <1>8, <1>9, <1>10

\* Only thread t goes on, with the same client, session and file.
Goes(t) ==
  /\ transfer' \in [Transfers -> TransferSet]
  /\ \A u \in Transfers : u # t => transfer'[u] = transfer[u]
  /\ transfer'[t].client = transfer[t].client /\ transfer'[t].node = transfer[t].node
  /\ transfer'[t].send = transfer[t].send /\ transfer'[t].file = transfer[t].file

LEMMA Becomes ==
  ASSUME TypeInv, NEW t \in Transfers, NEW th \in TransferSet, Become(t, th),
         th.client = transfer[t].client, th.node = transfer[t].node,
         th.send = transfer[t].send, th.file = transfer[t].file
  PROVE  Goes(t) /\ transfer'[t] = th
BY DEF TypeInv, Become, Goes

-----------------------------------------------------------------------------
(* Commands about logins, directories and files. *)

\* Threads, descriptors and what sessions say of addresses and sockets stay.
Quiet ==
  /\ UNCHANGED <<fds, ctl, pending, gone, nodeOf, pasv, formatted, hit, reached>>
  /\ \A n \in Nodes : /\ nodes'[n].address = nodes[n].address
                      /\ nodes'[n].isPassive = nodes[n].isPassive
                      /\ nodes'[n].passiveSock = nodes[n].passiveSock
  /\ \A c \in Clients : reply[c] # None => reply'[c] # None
  /\ \A t \in Transfers :
       /\ transfer'[t].pc = transfer[t].pc /\ transfer'[t].client = transfer[t].client
       /\ transfer'[t].node = transfer[t].node /\ transfer'[t].send = transfer[t].send
       /\ transfer'[t].passive = transfer[t].passive /\ transfer'[t].conn = transfer[t].conn
       /\ transfer'[t].peer = transfer[t].peer /\ transfer'[t].got = transfer[t].got
       /\ transfer'[t].opened = transfer[t].opened /\ transfer'[t].empty = transfer[t].empty
       /\ transfer'[t].final = transfer[t].final /\ transfer'[t].own = transfer[t].own
  /\ \A m : m \in marks' <=> m \in marks \/ (m \in marks' /\ m \in {"removed", "refused"})

LEMMA QuietNodes ==
  ASSUME TypeInv, NodesInv, Quiet
  PROVE  NodesInv' /\ Connected' = Connected
<1>1. Connected' = Connected
  BY DEF Quiet, Connected
<1>2. \A t \in Transfers : Running(t)' <=> Running(t)
  BY DEF Quiet, Running
<1>3. \A c, d \in Clients : nodeOf'[c] = nodeOf'[d] /\ nodeOf'[c] # None => c = d
  BY DEF Quiet, NodesInv
<1>4. \A c \in Clients : nodeOf'[c] # None => c \in Connected /\ reply'[c] # None
  BY DEF Quiet, NodesInv
<1>5. /\ pasv' # None => nodeOf'[pasv'] # None
      /\ pending' \subseteq Connected
  BY DEF Quiet, NodesInv
<1>6. ASSUME NEW t \in Transfers, Running(t)
      PROVE  /\ transfer'[t].client \in Connected /\ reply'[transfer'[t].client] # None
             /\ transfer'[t].node \in Nodes
             /\ nodeOf'[transfer'[t].client] \in {None, transfer'[t].node}
  BY <1>6 DEF Quiet, NodesInv, Connected
<1> QED  BY <1>1, <1>2, <1>3, <1>4, <1>5, <1>6 DEF NodesInv

LEMMA QuietRest ==
  ASSUME TypeInv, NodesInv, ThreadInv, DataInv, AddressInv, PassiveInv, PeerInv, Quiet
  PROVE  ThreadInv' /\ DataInv' /\ AddressInv' /\ PassiveInv' /\ PeerInv'
<1>1. ThreadInv'
  BY DEF Quiet, ThreadInv
<1>2. DataInv'
  BY DEF Quiet, DataInv, Data
<1>3. AddressInv'
  <2>1. \A t \in Transfers : transfer[t].pc \in {"begin", "connect"} => transfer[t].node \in Nodes
    BY DEF NodesInv, Running
  <2>2. \A c \in Clients : nodeOf[c] # None => nodeOf[c] \in Nodes
    BY DEF TypeInv
  <2> QED  BY <2>1, <2>2 DEF Quiet, AddressInv, Node
<1>4. PassiveInv'
  <2>1. \A n \in Nodes, c \in Clients : Owns(c, n)' <=> Owns(c, n)
    BY DEF Quiet, Owns, Running
  <2>2. \A n \in Nodes : Listens(n)' <=> Listens(n)
    BY DEF Quiet, Listens
  <2> QED  BY <2>1, <2>2 DEF Quiet, PassiveInv, Without, Listen
<1>5. PeerInv'
  BY DEF Quiet, PeerInv, Without
<1> QED  BY <1>1, <1>2, <1>3, <1>4, <1>5

LEMMA QuietEnds ==
  ASSUME TypeInv, NodesInv, ControlInv, StayInv, MoveInv, ListenInv, Quiet
  PROVE  ControlInv' /\ StayInv' /\ MoveInv' /\ ListenInv'
<1>1. Connected' = Connected
  BY DEF Quiet, Connected
<1>2. ControlInv'
  BY <1>1 DEF Quiet, ControlInv, Without, Control
<1>3. StayInv'
  BY <1>1 DEF Quiet, StayInv, Without, Control, Running
<1>4. MoveInv'
  BY DEF Quiet, MoveInv, Without
<1>5. ListenInv'
  BY DEF Quiet, ListenInv, Without, Listen, Session, TypeInv
<1> QED  BY <1>2, <1>3, <1>4, <1>5

LEMMA Dialogues ==
  ASSUME TypeInv, PlanInv, TreeInv, NodesInv, InDirectory, NEW c \in Clients,
         NEW command \in Offered(c), Sends(c), UNCHANGED offered, NEW result,
         Dialogue(c, result), Talked(result.session, Session(c)), result.reply \in Nat,
         NEW new \in SUBSET {"refused"}, Mark(new),
         Grown(tree) /\ IsDir(tree, Session(c).actualDir.path) =>
           IsDir(tree, result.session.actualDir.path) \/ "refused" \in new
  PROVE  TypeInv' /\ PlanInv' /\ TreeInv' /\ InDirectory' /\ Quiet
<1> DEFINE n == nodeOf[c]
           s == result.session
<1>1. /\ command \in Commands /\ commands' \in [Clients -> Nat] /\ PlanInv'
      /\ n \in Nodes /\ c \notin gone /\ pasv = None /\ n # None
      /\ UNCHANGED <<ctl, gone, crashed, reached>>
  BY Sending DEF Sends
<1>2. nodes' = [nodes EXCEPT ![n] = s] /\ s \in SessionSet /\ Rooted(s)
  BY DEF Dialogue, Update, Talked
<1>3. nodes' \in [Nodes -> SessionSet] /\ nodes'[n] = s
      /\ \A m \in Nodes : m # n => nodes'[m] = nodes[m]
  BY <1>1, <1>2 DEF TypeInv
<1>4. /\ reply' \in [Clients -> Nat]
      /\ \A d \in Clients : reply[d] # None => reply'[d] # None
  BY DEF Dialogue, Answer, TypeInv
<1>5. marks' = marks \union new /\ marks' \subseteq Marks
      /\ UNCHANGED <<fds, pending, nodeOf, pasv, formatted, tree, transfer, hit>>
  BY DEF Mark, Marks, Dialogue, TypeInv
<1>6. /\ nodes[n] = Session(c) /\ s.address = nodes[n].address
      /\ s.isPassive = nodes[n].isPassive /\ s.passiveSock = nodes[n].passiveSock
  BY DEF Talked, Session
<1> HIDE DEF n, s
<1>7. \A m \in Nodes : Rooted(nodes'[m])
  BY <1>2, <1>3 DEF TypeInv
<1>8. TypeInv'
  BY <1>1, <1>3, <1>4, <1>5, <1>7 DEF TypeInv
<1>9. TreeInv'
  BY <1>5 DEF TreeInv
<1>10. Quiet
  <2>1. \A m : m \in marks' <=> m \in marks \/ (m \in marks' /\ m \in {"removed", "refused"})
    BY <1>5
  <2>2. \A m \in Nodes : /\ nodes'[m].address = nodes[m].address
                         /\ nodes'[m].isPassive = nodes[m].isPassive
                         /\ nodes'[m].passiveSock = nodes[m].passiveSock
    BY <1>3, <1>6
  <2> QED  BY <1>1, <1>4, <1>5, <2>1, <2>2 DEF Quiet
<1>11. InDirectory'
  <2> SUFFICES ASSUME NEW d \in Clients, nodeOf'[d] # None, "removed" \notin marks',
                      "refused" \notin marks'
               PROVE  IsDir(tree', nodes'[nodeOf'[d]].actualDir.path)
    BY DEF InDirectory, Session
  <2>1. nodeOf[d] \in Nodes /\ IsDir(tree, nodes[nodeOf[d]].actualDir.path)
    BY <1>5 DEF InDirectory, Session, TypeInv
  <2>2. CASE nodeOf[d] = n
    <3>1. IsDir(tree, s.actualDir.path)
      BY <1>5, <1>6, <2>1, <2>2 DEF TreeInv, n, s
    <3> QED  BY <1>3, <1>5, <2>2, <3>1
  <2>3. CASE nodeOf[d] # n
    BY <1>3, <1>5, <2>1, <2>3
  <2> QED  BY <2>2, <2>3
<1> QED  BY <1>1, <1>8, <1>9, <1>10, <1>11

\* Login, directories, and what is refused.
LEMMA Talking ==
  ASSUME TypeInv, PlanInv, TreeInv, NodesInv, InDirectory, NEW c \in Clients,
         NEW command \in Offered(c), UNCHANGED offered,
         \/ OnUser(c, command) \/ OnPass(c, command) \/ Refuse(c, command)
         \/ OnOther(c, command) \/ OnCwd(c, command) \/ OnCdup(c, command)
  PROVE  TypeInv' /\ PlanInv' /\ TreeInv' /\ InDirectory' /\ Quiet
<1> DEFINE s == Session(c)
<1>1. Sends(c) /\ s \in SessionSet /\ Rooted(s) /\ command \in Commands
  BY Sending DEF OnUser, OnPass, Refuse, OnOther, OnCwd, OnCdup, Serves
<1>2. {} \in SUBSET {"refused"} /\ (UNCHANGED marks => Mark({}))
  BY DEF Mark
<1>3. Talked(s, s)
  BY <1>1 DEF Talked
<1> HIDE DEF s
<1>4. CASE OnUser(c, command)
  <2> DEFINE r == User(s, command.name)
  <2>1. command.name \in STRING /\ Dialogue(c, r)
    BY <1>1, <1>4, CommandFields DEF OnUser, s
  <2>2. Talked(r.session, s) /\ r.reply \in Nat
    BY <1>1, <2>1, UserTalk
  <2>3. r.session.actualDir = s.actualDir
    <3> DEFINE named == [s EXCEPT !.user = command.name, !.loginPrompted = TRUE]
    <3>1. \/ r = [session |-> s, reply |-> 0] \/ r = [session |-> s, reply |-> 500]
          \/ r = [session |-> named, reply |-> 331]
      BY <1>1 DEF User, SessionSet
    <3>2. named.actualDir = s.actualDir
      BY <1>1 DEF SessionSet
    <3> HIDE DEF r, named
    <3> QED  BY <3>1, <3>2
  <2> HIDE DEF r
  <2> QED  BY <1>1, <1>2, <1>4, <2>1, <2>2, <2>3, Dialogues DEF OnUser, s
<1>5. CASE OnPass(c, command)
  <2> DEFINE r == Pass(s, command.known)
  <2>1. command.known \in BOOLEAN /\ Dialogue(c, r)
    BY <1>1, <1>5, CommandFields DEF OnPass, s
  <2>2. Talked(r.session, s) /\ r.reply \in Nat
    BY <1>1, <2>1, PassTalk
  <2>3. r.session.actualDir = s.actualDir
    <3> DEFINE in == [s EXCEPT !.loginPrompted = FALSE, !.loggedIn = TRUE]
               out == [s EXCEPT !.loginPrompted = FALSE]
    <3>1. \/ r = [session |-> s, reply |-> 0] \/ r = [session |-> in, reply |-> 230]
          \/ r = [session |-> out, reply |-> 530]
      BY DEF Pass
    <3>2. in.actualDir = s.actualDir /\ out.actualDir = s.actualDir
      BY <1>1 DEF SessionSet
    <3> HIDE DEF r, in, out
    <3> QED  BY <3>1, <3>2
  <2> HIDE DEF r
  <2> QED  BY <1>1, <1>2, <1>5, <2>1, <2>2, <2>3, Dialogues DEF OnPass, s
<1>6. CASE Refuse(c, command)
  <2> DEFINE r == [session |-> s, reply |-> 530]
  <2>1. Dialogue(c, r) /\ r.session = s /\ r.reply \in Nat
    BY <1>6 DEF Refuse, s
  <2> HIDE DEF r
  <2> QED  BY <1>1, <1>2, <1>3, <1>6, <2>1, Dialogues DEF Refuse, s
<1>7. CASE OnOther(c, command)
  <2>1. PICK code \in {200, 500, 502} : Dialogue(c, [session |-> s, reply |-> code])
    BY <1>7 DEF OnOther, s
  <2> DEFINE r == [session |-> s, reply |-> code]
  <2>2. Dialogue(c, r) /\ r.session = s /\ r.reply \in Nat
    BY <2>1
  <2> HIDE DEF r
  <2> QED  BY <1>1, <1>2, <1>3, <1>7, <2>2, Dialogues DEF OnOther, s
<1>8. CASE OnCwd(c, command)
  <2> DEFINE r == Cwd(s, tree, command.arg)
             new == IF command.arg.to = "abs" /\ reply'[c] = 550 THEN {"refused"} ELSE {}
  <2>1. command.arg \in Arguments /\ Dialogue(c, r) /\ Mark(new) /\ new \in SUBSET {"refused"}
    BY <1>1, <1>8, CommandFields DEF OnCwd, Serves, s
  <2>2. /\ Talked(r.session, s) /\ r.reply \in {200, 250, 550}
        /\ Grown(tree) /\ IsDir(tree, s.actualDir.path) =>
             \/ IsDir(tree, r.session.actualDir.path)
             \/ command.arg.to = "abs" /\ r.reply = 550
    BY <1>1, <2>1, CwdTalk
  <2>3. reply'[c] = r.reply
    <3> HIDE DEF r
    <3> QED  BY <2>1, <2>2 DEF Dialogue, Answer, TypeInv, None
  <2>4. r.reply \in Nat
    <3> HIDE DEF r
    <3> QED  BY <2>2
  <2>5. Grown(tree) /\ IsDir(tree, s.actualDir.path) =>
          IsDir(tree, r.session.actualDir.path) \/ "refused" \in new
    BY <2>2, <2>3
  <2> HIDE DEF r, new
  <2> QED  BY <1>1, <2>1, <2>2, <2>4, <2>5, Dialogues DEF s
<1>9. CASE OnCdup(c, command)
  <2> DEFINE r == [session |-> Cdup(s), reply |-> 250]
  <2>1. Dialogue(c, r) /\ r.session = Cdup(s) /\ r.reply \in Nat
    BY <1>9 DEF OnCdup, s
  <2>2. /\ Talked(Cdup(s), s)
        /\ Grown(tree) /\ IsDir(tree, s.actualDir.path) => IsDir(tree, Cdup(s).actualDir.path)
    BY <1>1, CdupTalk
  <2> HIDE DEF r
  <2> QED  BY <1>1, <1>2, <1>9, <2>1, <2>2, Dialogues DEF OnCdup, s
<1> QED  BY <1>4, <1>5, <1>6, <1>7, <1>8, <1>9

\* A reply, and nothing else.
LEMMA Saying ==
  ASSUME TypeInv, PlanInv, TreeInv, NodesInv, InDirectory, NEW c \in Clients,
         NEW command \in Offered(c), Sends(c), NEW code \in Nat, Answer(c, code),
         UNCHANGED <<offered, fds, pending, nodes, nodeOf, pasv, formatted, tree, transfer, hit,
                     marks>>
  PROVE  TypeInv' /\ PlanInv' /\ TreeInv' /\ InDirectory' /\ Quiet
<1> DEFINE r == [session |-> Session(c), reply |-> code]
<1>1. Session(c) \in SessionSet /\ Rooted(Session(c)) /\ nodeOf[c] \in Nodes
  BY Sending
<1>2. r.session = Session(c) /\ r.reply = code
  OBVIOUS
<1>3. nodes' = [nodes EXCEPT ![nodeOf[c]] = Session(c)]
  BY <1>1 DEF Session, TypeInv
<1>4. Dialogue(c, r)
  BY <1>2, <1>3 DEF Dialogue, Update
<1>5. Talked(Session(c), Session(c))
  BY <1>1 DEF Talked
<1>6. {} \in SUBSET {"refused"} /\ Mark({})
  BY DEF Mark
<1> HIDE DEF r
<1> QED  BY <1>2, <1>4, <1>5, <1>6, Dialogues

LEMMA Making ==
  ASSUME TypeInv, PlanInv, TreeInv, NodesInv, InDirectory, NEW c \in Clients,
         NEW command \in Offered(c), UNCHANGED offered, OnMkd(c, command)
  PROVE  TypeInv' /\ PlanInv' /\ TreeInv' /\ InDirectory' /\ Quiet
<1> DEFINE path == NewDirectory(Session(c).actualDir, command.arg)
<1>1. /\ Sends(c) /\ command \in Commands /\ commands' \in [Clients -> Nat] /\ PlanInv'
      /\ Session(c) \in SessionSet /\ Rooted(Session(c))
      /\ UNCHANGED <<ctl, gone, crashed, reached>>
  BY Sending DEF OnMkd, Serves
<1>2. command.arg \in Arguments /\ command.arg.to \in {"abs", "name"}
  BY <1>1, CommandFields DEF OnMkd, Serves
<1>3. path \in Path
  BY <1>1, <1>2, AddressPath DEF SessionSet, Rooted
<1>4. UNCHANGED <<transfer, marks>>
  BY DEF OnMkd
<1>5. CASE HasParent(tree, path) /\ ~Exists(tree, path)
  <2>1. Files(c, Put(tree, path, "dir"), 257)
    BY <1>5 DEF OnMkd
  <2>2. /\ tree' = Put(tree, path, "dir") /\ Answer(c, 257)
        /\ UNCHANGED <<fds, pending, nodes, nodeOf, pasv, formatted, hit>>
    BY <2>1 DEF Files
  <2>3. /\ Grown(tree) /\ "dir" \in Kinds /\ path \notin DOMAIN tree
    BY <1>5 DEF TreeInv, Exists, Kinds
  <2>4. /\ Grown(tree') /\ \A p : IsDir(tree, p) => IsDir(tree', p)
        /\ \A p \in DOMAIN tree : p \in DOMAIN tree' /\ tree'[p] = tree[p]
    <3> DEFINE g == Put(tree, path, "dir")
    <3> HIDE DEF path
    <3>1. HasParent(tree, path) /\ (path \in DOMAIN tree => tree[path] # "dir")
      BY <1>5, <2>3
    <3>2. /\ Grown(g) /\ \A p : IsDir(tree, p) => IsDir(g, p)
          /\ DOMAIN g = DOMAIN tree \union {path}
          /\ \A p \in DOMAIN tree : p # path => g[p] = tree[p]
      BY <1>3, <2>3, <3>1, PutGrown
    <3>3. tree' = g
      BY <2>2
    <3> HIDE DEF g
    <3> QED  BY <2>3, <3>2, <3>3
  <2>5. /\ reply' \in [Clients -> Nat]
        /\ \A d \in Clients : reply[d] # None => reply'[d] # None
    BY <2>2 DEF Answer, TypeInv, None
  <2>6. TypeInv'
    BY <1>1, <1>4, <2>2, <2>5 DEF TypeInv
  <2>7. TreeInv'
    BY <1>4, <2>4 DEF TreeInv
  <2>8. InDirectory'
    BY <1>4, <2>2, <2>4 DEF InDirectory, Session
  <2>9. Quiet
    BY <1>1, <1>4, <2>2, <2>5 DEF Quiet
  <2> QED  BY <1>1, <2>6, <2>7, <2>8, <2>9
<1>6. CASE ~(HasParent(tree, path) /\ ~Exists(tree, path))
  <2>1. Files(c, tree, 450)
    BY <1>6 DEF OnMkd
  <2> QED  BY <1>1, <1>4, <2>1, Saying DEF Files
<1> QED  BY <1>5, <1>6

LEMMA Removing ==
  ASSUME TypeInv, PlanInv, TreeInv, NodesInv, InDirectory, NEW c \in Clients,
         NEW command \in Offered(c), UNCHANGED offered, OnRemove(c, command)
  PROVE  TypeInv' /\ PlanInv' /\ TreeInv' /\ InDirectory' /\ Quiet
<1> DEFINE path == Address(Session(c).actualDir, command.arg)
<1>1. /\ Sends(c) /\ commands' \in [Clients -> Nat] /\ PlanInv'
      /\ UNCHANGED <<ctl, gone, crashed, reached>>
  BY Sending DEF OnRemove, Serves
<1>2. CASE Removable(tree, path)
  <2>1. Files(c, Deleted(tree, path), 250) /\ Unlinked(path) /\ Mark({"removed"})
    BY <1>2 DEF OnRemove
  <2> HIDE DEF path
  <2>2. /\ tree' = Deleted(tree, path) /\ Answer(c, 250)
        /\ UNCHANGED <<fds, pending, nodes, nodeOf, pasv, formatted, hit>>
        /\ marks' = marks \union {"removed"}
    BY <2>1 DEF Files, Mark
  <2>3. /\ Grown(tree') /\ DOMAIN tree' = DOMAIN tree \ {path}
        /\ \A p \in DOMAIN tree' : tree'[p] = tree[p]
    BY <1>2, <2>2, DeletedGrown DEF TreeInv
  <2>4. \A t \in Transfers :
          transfer'[t] = IF ~transfer[t].send /\ transfer[t].pc # "begin" /\ transfer[t].file = path
                         THEN [transfer[t] EXCEPT !.file = <<>>] ELSE transfer[t]
    BY <2>1 DEF Unlinked
  <2>5. ASSUME NEW th \in TransferSet
        PROVE  LET new == [th EXCEPT !.file = <<>>]
               IN  /\ new \in TransferSet /\ new.file = <<>>
                   /\ new.pc = th.pc /\ new.client = th.client
                   /\ new.node = th.node /\ new.send = th.send
                   /\ new.passive = th.passive /\ new.conn = th.conn
                   /\ new.peer = th.peer /\ new.got = th.got
                   /\ new.opened = th.opened /\ new.empty = th.empty
                   /\ new.final = th.final /\ new.own = th.own
    <3>1. <<>> \in Path
      BY DEF Path
    <3> QED  BY <2>5, <3>1 DEF TransferSet
  <2>6. \A t \in Transfers :
          /\ transfer'[t] \in TransferSet
          /\ transfer'[t].pc = transfer[t].pc /\ transfer'[t].client = transfer[t].client
          /\ transfer'[t].node = transfer[t].node /\ transfer'[t].send = transfer[t].send
          /\ transfer'[t].passive = transfer[t].passive /\ transfer'[t].conn = transfer[t].conn
          /\ transfer'[t].peer = transfer[t].peer /\ transfer'[t].got = transfer[t].got
          /\ transfer'[t].opened = transfer[t].opened /\ transfer'[t].empty = transfer[t].empty
          /\ transfer'[t].final = transfer[t].final /\ transfer'[t].own = transfer[t].own
          /\ \/ transfer'[t].file = <<>>
             \/ /\ transfer'[t].file = transfer[t].file
                /\ ~transfer[t].send /\ transfer[t].pc # "begin" => transfer[t].file # path
    <3> TAKE t \in Transfers
    <3> DEFINE th == transfer[t]
               new == [th EXCEPT !.file = <<>>]
    <3>1. th \in TransferSet
      BY DEF TypeInv
    <3>2. /\ new \in TransferSet /\ new.file = <<>>
          /\ new.pc = th.pc /\ new.client = th.client /\ new.node = th.node
          /\ new.send = th.send /\ new.passive = th.passive /\ new.conn = th.conn
          /\ new.peer = th.peer /\ new.got = th.got /\ new.opened = th.opened
          /\ new.empty = th.empty /\ new.final = th.final /\ new.own = th.own
      BY <2>5, <3>1
    <3>3. \/ transfer'[t] = new
          \/ transfer'[t] = th /\ (~th.send /\ th.pc # "begin" => th.file # path)
      BY <2>4
    <3> HIDE DEF new
    <3> QED  BY <3>1, <3>2, <3>3
  <2>7. transfer' \in [Transfers -> TransferSet]
    BY <2>1, <2>6 DEF Unlinked
  <2>8. /\ reply' \in [Clients -> Nat]
        /\ \A d \in Clients : reply[d] # None => reply'[d] # None
    BY <2>2 DEF Answer, TypeInv, None
  <2>9. TypeInv'
    BY <1>1, <2>2, <2>7, <2>8 DEF TypeInv, Marks
  <2>10. TreeInv'
    BY <2>3, <2>6 DEF TreeInv
  <2>11. InDirectory'
    BY <2>2 DEF InDirectory
  <2>12. Quiet
    BY <1>1, <2>2, <2>6, <2>8 DEF Quiet
  <2> QED  BY <1>1, <2>9, <2>10, <2>11, <2>12
<1>3. CASE ~Removable(tree, path)
  <2>1. Files(c, tree, 550) /\ UNCHANGED <<transfer, marks>>
    BY <1>3 DEF OnRemove
  <2> QED  BY <1>1, <2>1, Saying DEF Files
<1> QED  BY <1>2, <1>3

\* Faults of threads, and steps of nobody.
LEMMA Failing ==
  ASSUME TypeInv, PlanInv, TreeInv, NodesInv, InDirectory, crashed' \in BOOLEAN,
         UNCHANGED <<offered, fds, ctl, pending, gone, commands, nodes, nodeOf, reply, pasv,
                     formatted, tree, transfer, hit, reached, marks>>
  PROVE  TypeInv' /\ PlanInv' /\ TreeInv' /\ InDirectory' /\ Quiet
<1>1. TypeInv'
  BY DEF TypeInv
<1>2. PlanInv'
  BY DEF PlanInv, Connected
<1>3. TreeInv'
  BY DEF TreeInv
<1>4. InDirectory'
  BY DEF InDirectory, Session
<1>5. Quiet
  BY DEF Quiet
<1> QED  BY <1>1, <1>2, <1>3, <1>4, <1>5

LEMMA QuietKeeps ==
  ASSUME Inv, TypeInv', PlanInv', TreeInv', InDirectory', Quiet
  PROVE  Inv'
BY QuietNodes, QuietRest, QuietEnds DEF Inv

-----------------------------------------------------------------------------
(* The queue thread and the main thread: clients come and leave. *)

\* What a number stands for, told by its kind.
LEMMA Things ==
  /\ Free.kind = "free" /\ Std.kind = "std"
  /\ \A x : /\ Control(x).kind = "control" /\ Control(x).of = x
            /\ Listen(x).kind = "listen" /\ Listen(x).of = x
            /\ Data(x).kind = "data" /\ Data(x).of = x
  /\ \A c \in Clients : Control(c) \in Objects /\ Listen(c) \in Objects /\ c # None
  /\ \A t \in Transfers : Data(t) \in Objects
<1>1. /\ Free.kind = "free" /\ Std.kind = "std"
      /\ \A x : /\ Control(x).kind = "control" /\ Control(x).of = x
                /\ Listen(x).kind = "listen" /\ Listen(x).of = x
                /\ Data(x).kind = "data" /\ Data(x).of = x
  BY DEF Free, Std, Control, Listen, Data
<1>2. /\ \A c \in Clients : Control(c) \in Objects /\ Listen(c) \in Objects
      /\ \A t \in Transfers : Data(t) \in Objects
  BY DEF Objects
<1>3. \A c \in Clients : c # None
  BY FtpBounds DEF Clients, None
<1> QED  BY <1>1, <1>2, <1>3

LEMMA Accepting ==
  ASSUME Inv, UNCHANGED offered, NEW c \in Clients, Accept(c)
  PROVE  Inv'
<1> USE DEF Inv
<1> DEFINE L == Lowest
<1>1. /\ ctl[c] = Bad /\ c \notin Connected /\ c \in DOMAIN offered.plan
      /\ L \in FDs /\ fds[L] = Free /\ L # Bad
      /\ Open(L, Control(c)) /\ ctl' = [ctl EXCEPT ![c] = L]
      /\ UNCHANGED <<pending, gone, commands, nodes, nodeOf, reply, pasv, formatted, tree,
                     transfer, crashed, hit, reached, marks>>
  BY LowestFree DEF Accept, Connected, clientVars, sessionVars, historyVars
<1> HIDE DEF L
<1>2. /\ fds' \in [FDs -> Objects] /\ fds'[L] = Control(c)
      /\ \A m \in FDs : m # L => fds'[m] = fds[m]
  BY <1>1, Opened, Things
<1>3. /\ ctl' \in [Clients -> FDs \union {Bad}] /\ ctl'[c] = L
      /\ \A d \in Clients : d # c => ctl'[d] = ctl[d]
      /\ Connected' = Connected \union {c}
  BY <1>1 DEF TypeInv, Connected
<1>4. TypeInv'
  BY <1>1, <1>2, <1>3 DEF TypeInv
<1>5. PlanInv'
  <2>1. Len(offered.plan[c]) \in Nat /\ commands[c] = 0
    <3>1. offered.plan \in Seq(Seq(SUBSET Commands))
      BY BehavioursAssumption DEF TypeInv
    <3>2. offered.plan[c] \in Seq(SUBSET Commands)
      BY <1>1, <3>1
    <3> QED  BY <1>1, <3>2 DEF PlanInv
  <2> QED  BY <1>1, <1>3, <2>1 DEF PlanInv
<1>6. TreeInv' /\ ThreadInv' /\ PeerInv' /\ MoveInv'
  BY <1>1 DEF TreeInv, ThreadInv, PeerInv, MoveInv, Without
<1>7. AddressInv' /\ InDirectory'
  BY <1>1 DEF AddressInv, Node, InDirectory, Session
<1>8. NodesInv'
  BY <1>1, <1>3 DEF NodesInv, Running
<1>9. DataInv'
  BY <1>1, <1>2, Things DEF DataInv, TypeInv, TransferSet, Numbers
<1>10. PassiveInv'
  <2>1. \A n \in Nodes, d \in Clients : Owns(d, n)' <=> Owns(d, n)
    BY <1>1 DEF Owns, Running
  <2>2. \A n \in Nodes : Listens(n)' <=> Listens(n)
    BY <1>1 DEF Listens
  <2>3. \A n \in Nodes : nodes[n].passiveSock \in FDs \union {Bad}
    BY DEF TypeInv, SessionSet
  <2> QED  BY <1>1, <1>2, <2>1, <2>2, <2>3, Things DEF PassiveInv, Without
<1>11. ControlInv'
  BY <1>1, <1>2, <1>3, LowestFree, Things DEF ControlInv, Without, TypeInv, Connected
<1>12. StayInv'
  BY <1>1, <1>2, <1>3, Things DEF StayInv, Without, Running, TypeInv, Connected
<1>13. ListenInv'
  BY <1>1, <1>2, Things DEF ListenInv, Without, Session
<1> QED  BY <1>4, <1>5, <1>6, <1>7, <1>8, <1>9, <1>10, <1>11, <1>12, <1>13

LEMMA Connecting ==
  ASSUME Inv, UNCHANGED offered, NEW c \in Clients, OnConnect(c)
  PROVE  Inv'
<1> USE DEF Inv
<1>1. PICK n \in Nodes \ Range(nodeOf) :
        /\ nodes' = [nodes EXCEPT ![n] = NewSession] /\ nodeOf' = [nodeOf EXCEPT ![c] = n]
        /\ Mark(Misread(c) \union Reused(n))
  BY DEF OnConnect
<1>2. /\ c \in Connected /\ reply[c] = None /\ pasv = None
      /\ reply' = [reply EXCEPT ![c] = 220] /\ formatted' = c
      /\ UNCHANGED <<fds, ctl, pending, gone, commands, pasv, tree, transfer, crashed, hit,
                     reached>>
  BY DEF OnConnect, Format, serverVars, clientVars
<1>3. /\ NewSession \in SessionSet /\ Rooted(NewSession) /\ n # None
      /\ ~NewSession.address /\ ~NewSession.isPassive /\ NewSession.passiveSock = 0
      /\ NewSession.actualDir.path = <<>>
  BY NewSessionType, FtpBounds DEF NewSession, Root, Nodes, None
<1>4. /\ nodes' \in [Nodes -> SessionSet] /\ nodes'[n] = NewSession
      /\ \A m \in Nodes : m # n => nodes'[m] = nodes[m]
  BY <1>1, <1>3 DEF TypeInv
<1>5. /\ nodeOf' \in [Clients -> Nodes \union {None}] /\ nodeOf'[c] = n /\ nodeOf[c] = None
      /\ \A d \in Clients : d # c => nodeOf'[d] = nodeOf[d]
      /\ \A d \in Clients : nodeOf[d] # n
  BY <1>1, <1>2 DEF TypeInv, NodesInv, Range
<1>6. /\ reply' \in [Clients -> Nat] /\ reply'[c] # None
      /\ \A d \in Clients : d # c => reply'[d] = reply[d]
  BY <1>2 DEF TypeInv, None
<1>7. /\ marks' = marks \union Misread(c) \union Reused(n) /\ marks' \subseteq Marks
      /\ \A m \in marks' : m \in marks \/ m \in {"address", "reused"}
      /\ Misread(c) \subseteq marks' /\ Reused(n) \subseteq marks'
  BY <1>1 DEF Mark, Misread, Reused, Marks, TypeInv
<1>8. "reused" \notin marks' =>
        "reused" \notin marks /\ \A t \in Transfers : Running(t) => transfer[t].node # n
  BY <1>7 DEF Reused
<1>9. "reused" \in marks' =>
         "reused" \in marks \/ \E t \in Transfers : Running(t) /\ transfer[t].node = n
  BY <1>7 DEF Reused, Misread
<1>10. "address" \notin marks' =>
        /\ \A d \in Clients \ {c} : nodeOf[d] # None => ~nodes[nodeOf[d]].address
        /\ \A t \in Transfers : transfer[t].pc \notin {"begin", "connect"}
  BY <1>7 DEF Misread
<1>11. \A t \in Transfers : Running(t) => transfer[t].client # c
  BY <1>2 DEF NodesInv
<1>12. TypeInv'
  BY <1>2, <1>3, <1>4, <1>5, <1>6, <1>7 DEF TypeInv
<1>13. PlanInv' /\ TreeInv'
  BY <1>2 DEF PlanInv, TreeInv, Connected
<1>14. NodesInv'
  BY <1>2, <1>5, <1>6, <1>11 DEF NodesInv, Running, Connected, TypeInv
<1>15. ThreadInv' /\ DataInv'
  BY <1>2, <1>7 DEF ThreadInv, DataInv
<1>16. AddressInv'
  <2> SUFFICES ASSUME "address" \notin marks', NEW d \in Clients, nodeOf'[d] # None,
                      nodes'[nodeOf'[d]].address
               PROVE  FALSE
    BY <1>2, <1>10 DEF AddressInv
  <2>1. d # c
    BY <1>3, <1>4, <1>5
  <2>2. nodeOf[d] \in Nodes /\ nodeOf[d] # n /\ nodeOf'[d] = nodeOf[d] /\ nodeOf[d] # None
    BY <1>5, <2>1 DEF TypeInv
  <2>3. ~nodes[nodeOf[d]].address
    BY <1>10, <2>1, <2>2
  <2> QED  BY <1>4, <2>2, <2>3
<1>17. PassiveInv'
  <2>1. ASSUME NEW m \in Nodes, NEW d \in Clients
        PROVE  Owns(d, m)' => \/ Owns(d, m)
                              \/ m = n /\ d = c
    BY <1>2, <1>5 DEF Owns, Running
  <2>2. ASSUME "reused" \notin marks'
        PROVE  \A d \in Clients : Owns(d, n)' => d = c
    BY <1>2, <1>5, <1>8, <2>2 DEF Owns, Running
  <2>3. ASSUME NEW m \in Nodes
        PROVE  /\ Listens(m)' => Listens(m) \/ m = n
               /\ Listens(n)' => Listens(n)
    BY <1>2, <1>3, <1>4 DEF Listens
  <2>4. "reused" \notin marks' => ~Listens(n)'
    BY <1>2, <1>3, <1>4, <1>8 DEF Listens, Running
  <2>5. \A m \in Nodes : m # n => nodes'[m].passiveSock = nodes[m].passiveSock
    BY <1>4
  <2>6. "reused" \notin marks' =>
          \A m \in Nodes, d, e \in Clients : Owns(d, m)' /\ Owns(e, m)' => d = e
    BY <1>8, <2>1, <2>2 DEF PassiveInv
  <2>7. hit' = {} /\ Without({"passiveDone", "reused"})' =>
          \A m \in Nodes, d \in Clients : Owns(d, m)' /\ Listens(m)' =>
            LET s == nodes'[m].passiveSock
            IN  s # Bad => fds'[s] = Listen(d) \/ (pasv' = d /\ fds'[s].kind # "listen")
    <3> SUFFICES ASSUME hit = {}, Without({"passiveDone", "reused"})', NEW m \in Nodes,
                        NEW d \in Clients, Owns(d, m)', Listens(m)',
                        nodes'[m].passiveSock # Bad
                 PROVE  fds[nodes'[m].passiveSock] = Listen(d)
                          \/ (pasv = d /\ fds[nodes'[m].passiveSock].kind # "listen")
      BY <1>2
    <3>1. "reused" \notin marks' /\ Without({"passiveDone", "reused"})
      BY <1>7 DEF Without
    <3>2. m # n
      BY <2>4, <3>1
    <3>3. Owns(d, m) /\ Listens(m)
      BY <2>1, <2>3, <3>2
    <3> QED  BY <2>5, <3>1, <3>2, <3>3 DEF PassiveInv
  <2>8. "pasv" \in marks' => "pasv" \in marks
    BY <1>7
  <2>9. "pasv" \notin marks' => \A m \in Nodes : ~Listens(m)'
    <3> SUFFICES ASSUME "pasv" \notin marks', NEW m \in Nodes
                 PROVE  ~Listens(m)'
      OBVIOUS
    <3>1. \A k \in Nodes : ~Listens(k)
      BY <1>7 DEF PassiveInv
    <3> QED  BY <2>3, <3>1
  <2> QED  BY <1>2, <2>6, <2>7, <2>9 DEF PassiveInv
<1>18. PeerInv'
  BY <1>2, <1>7 DEF PeerInv, Without
<1>19. ControlInv'
  BY <1>2, <1>3, <1>4, <1>7 DEF ControlInv, Without, Connected
<1>20. StayInv'
  <2> SUFFICES ASSUME Without({"left", "quit"})'
               PROVE  /\ gone = {} /\ pending = {} /\ "reused" \notin marks'
                      /\ \A t \in Transfers : Running(t) =>
                           nodeOf'[transfer[t].client] = transfer[t].node
                      /\ hit = {} => /\ \A d \in Connected : fds[ctl[d]] = Control(d)
                                     /\ \A t \in Transfers : transfer[t].own
    BY <1>2 DEF StayInv, Running, Connected
  <2>1. Without({"left", "quit"})
    BY <1>7 DEF Without
  <2>2. \A t \in Transfers : Running(t) => transfer[t].node # n /\ transfer[t].client \in Clients
    BY <1>5, <2>1 DEF StayInv, NodesInv, Connected
  <2>3. "reused" \notin marks'
    BY <1>9, <2>1, <2>2 DEF StayInv
  <2> QED  BY <1>5, <1>11, <2>1, <2>2, <2>3 DEF StayInv
<1>21. MoveInv'
  BY <1>2, <1>7 DEF MoveInv, Without
<1>22. ListenInv'
  <2> SUFFICES ASSUME Without({"passiveDone", "left", "quit"})', NEW m \in FDs,
                      NEW d \in Clients, fds[m] = Listen(d)
               PROVE  pasv # d /\ nodeOf'[d] # None /\ nodes'[nodeOf'[d]].passiveSock = m
    BY <1>2 DEF ListenInv, Session
  <2>1. Without({"passiveDone", "left", "quit"})
    BY <1>7 DEF Without
  <2>2. pasv # d /\ nodeOf[d] # None /\ nodes[nodeOf[d]].passiveSock = m
    BY <2>1 DEF ListenInv, Session
  <2>3. nodeOf[d] \in Nodes /\ nodeOf[d] # n /\ nodeOf'[d] = nodeOf[d]
    BY <1>5, <2>2 DEF TypeInv
  <2> QED  BY <1>4, <2>2, <2>3
<1>23. InDirectory'
  <2> SUFFICES ASSUME NEW d \in Clients, nodeOf'[d] # None, "removed" \notin marks',
                      "refused" \notin marks'
               PROVE  IsDir(tree, nodes'[nodeOf'[d]].actualDir.path)
    BY <1>2 DEF InDirectory, Session
  <2>1. CASE d = c
    BY <1>3, <1>4, <1>5, <2>1 DEF IsDir
  <2>2. CASE d # c
    <3>1. nodeOf[d] \in Nodes /\ nodeOf[d] # n /\ nodeOf'[d] = nodeOf[d] /\ nodeOf[d] # None
      BY <1>5, <2>2 DEF TypeInv
    <3>2. IsDir(tree, nodes[nodeOf[d]].actualDir.path)
      BY <1>7, <3>1 DEF InDirectory, Session
    <3> QED  BY <1>4, <3>1, <3>2
  <2> QED  BY <2>1, <2>2
<1> QED  BY <1>12, <1>13, <1>14, <1>15, <1>16, <1>17, <1>18, <1>19, <1>20, <1>21, <1>22, <1>23

LEMMA Leaving ==
  ASSUME Inv, UNCHANGED offered, NEW c \in Clients, HangUp(c)
  PROVE  Inv'
<1> USE DEF Inv
<1>1. /\ c \notin gone /\ nodeOf[c] # None
      /\ gone' = gone \union {c} /\ marks' = marks \union {"left"}
      /\ pending' = pending \union {c}
      /\ UNCHANGED <<fds, ctl, commands, nodes, nodeOf, reply, pasv, formatted, tree, transfer,
                     crashed, hit, reached>>
  BY DEF HangUp, Mark, sessionVars
<1>2. c \in Connected /\ Connected' = Connected
  BY <1>1 DEF NodesInv, Connected
<1>3. TypeInv'
  BY <1>1 DEF TypeInv, Marks
<1>4. PlanInv' /\ TreeInv' /\ ThreadInv' /\ DataInv'
  BY <1>1, <1>2 DEF PlanInv, TreeInv, ThreadInv, DataInv
<1>5. AddressInv' /\ InDirectory'
  BY <1>1 DEF AddressInv, Node, InDirectory, Session
<1>6. NodesInv'
  BY <1>1, <1>2 DEF NodesInv, Running
<1>7. PassiveInv'
  <2>1. \A n \in Nodes, d \in Clients : Owns(d, n)' <=> Owns(d, n)
    BY <1>1 DEF Owns, Running
  <2>2. \A n \in Nodes : Listens(n)' <=> Listens(n)
    BY <1>1 DEF Listens
  <2> QED  BY <1>1, <2>1, <2>2 DEF PassiveInv, Without
<1>8. PeerInv'
  BY <1>1 DEF PeerInv, Without
<1>9. ControlInv'
  BY <1>1, <1>2 DEF ControlInv, Without
<1>10. StayInv' /\ MoveInv' /\ ListenInv'
  BY <1>1 DEF StayInv, MoveInv, ListenInv, Without
<1> QED  BY <1>3, <1>4, <1>5, <1>6, <1>7, <1>8, <1>9, <1>10

LEMMA Disconnecting ==
  ASSUME Inv, UNCHANGED offered, NEW c \in Clients, OnDisconnect(c)
  PROVE  Inv'
<1> USE DEF Inv
<1>1. /\ c \in gone /\ pasv = None
      /\ nodeOf' = [nodeOf EXCEPT ![c] = None]
      /\ UNCHANGED <<fds, ctl, pending, gone, commands, nodes, reply, pasv, formatted, tree,
                     transfer, crashed, hit, reached, marks>>
  BY DEF OnDisconnect, serverVars, clientVars, historyVars
<1>2. /\ nodeOf' \in [Clients -> Nodes \union {None}] /\ nodeOf'[c] = None
      /\ \A d \in Clients : d # c => nodeOf'[d] = nodeOf[d]
      /\ Connected' = Connected
  BY <1>1 DEF TypeInv, Connected
<1>3. TypeInv'
  BY <1>1, <1>2 DEF TypeInv
<1>4. PlanInv' /\ TreeInv' /\ ThreadInv' /\ DataInv'
  BY <1>1, <1>2 DEF PlanInv, TreeInv, ThreadInv, DataInv
<1>5. AddressInv' /\ InDirectory'
  BY <1>1, <1>2 DEF AddressInv, Node, InDirectory, Session
<1>6. NodesInv'
  BY <1>1, <1>2 DEF NodesInv, Running, TypeInv, Connected
<1>7. PassiveInv'
  <2>1. \A n \in Nodes, d \in Clients : Owns(d, n)' => Owns(d, n)
    BY <1>1, <1>2, FtpBounds DEF Owns, Running, Nodes, None
  <2>2. \A n \in Nodes : Listens(n)' <=> Listens(n)
    BY <1>1 DEF Listens
  <2> QED  BY <1>1, <2>1, <2>2 DEF PassiveInv, Without
<1>8. PeerInv' /\ MoveInv'
  BY <1>1 DEF PeerInv, MoveInv, Without
<1>9. ControlInv'
  BY <1>1, <1>2 DEF ControlInv, Without
<1>10. StayInv' /\ ListenInv'
  BY <1>1 DEF StayInv, ListenInv, Without
<1> QED  BY <1>3, <1>4, <1>5, <1>6, <1>7, <1>8, <1>9, <1>10

LEMMA Closing ==
  ASSUME Inv, UNCHANGED offered, NEW c \in Clients, ClosePending(c)
  PROVE  Inv'
<1> USE DEF Inv
<1> DEFINE n == ctl[c]
<1>1. /\ c \in pending /\ pending' = pending \ {c} /\ CloseNumber(n, {Control(c)})
      /\ UNCHANGED <<ctl, gone, commands, nodes, nodeOf, reply, pasv, formatted, tree,
                     transfer, crashed, reached, marks>>
  BY DEF ClosePending, clientVars, sessionVars
<1>2. c \in Connected /\ Connected' = Connected /\ n \in FDs
  BY <1>1 DEF NodesInv, Connected, TypeInv
<1>3. /\ fds' \in [FDs -> Objects] /\ hit' \subseteq Objects /\ hit \subseteq hit'
      /\ fds'[n] = Free /\ \A m \in FDs : m # n => fds'[m] = fds[m]
      /\ \A x \in hit' : x \in hit \/ (x = fds[n] /\ x # Control(c))
      /\ hit' = {} => hit = {} /\ fds[n] \in {Free, Std, Control(c)}
  <2> HIDE DEF n, Inv
  <2>1. TypeInv /\ n \in FDs \union {Bad}
    BY <1>2 DEF Inv
  <2> QED  BY <1>1, <1>2, <2>1, ClosedFacts
<1> HIDE DEF n
<1>4. TypeInv'
  BY <1>1, <1>3 DEF TypeInv
<1>5. PlanInv' /\ TreeInv' /\ ThreadInv'
  BY <1>1, <1>2 DEF PlanInv, TreeInv, ThreadInv
<1>6. AddressInv' /\ InDirectory'
  BY <1>1 DEF AddressInv, Node, InDirectory, Session
<1>7. NodesInv'
  BY <1>1, <1>2 DEF NodesInv, Running
<1>8. DataInv'
  BY <1>1, <1>2, <1>3, Things DEF DataInv, TypeInv, TransferSet, Numbers
<1>9. PassiveInv'
  <2>1. \A m \in Nodes, d \in Clients : Owns(d, m)' <=> Owns(d, m)
    BY <1>1 DEF Owns, Running
  <2>2. \A m \in Nodes : Listens(m)' <=> Listens(m)
    BY <1>1 DEF Listens
  <2>3. \A m \in Nodes : nodes[m].passiveSock \in FDs \union {Bad}
    BY DEF TypeInv, SessionSet
  <2> QED  BY <1>1, <1>2, <1>3, <2>1, <2>2, <2>3, Things DEF PassiveInv, Without
<1>10. PeerInv' /\ MoveInv'
  BY <1>1, <1>3 DEF PeerInv, MoveInv, Without
<1>11. ControlInv'
  <2> SUFFICES ASSUME Without({"passiveDone", "pasvAgain", "quit"})
               PROVE  /\ hit' = {} /\ pending' \subseteq gone
                      /\ "pasv" \notin marks =>
                           fds'[0] = Std /\ \A m \in Nodes : nodes[m].passiveSock = 0
                      /\ \A d \in Connected : fds'[ctl[d]] = Control(d) \/ d \in gone \ pending'
    BY <1>1, <1>2 DEF ControlInv, Without
  <2>1. /\ hit = {} /\ pending \subseteq gone
        /\ "pasv" \notin marks => fds[0] = Std /\ \A m \in Nodes : nodes[m].passiveSock = 0
        /\ \A d \in Connected : fds[ctl[d]] = Control(d) \/ d \in gone \ pending
    BY DEF ControlInv
  <2>2. fds[n] = Control(c) /\ c \in gone
    BY <1>1, <1>2, <2>1 DEF n
  <2>3. hit' = {}
    BY <1>3, <2>1, <2>2
  <2>4. \A d \in Connected : d # c => fds'[ctl[d]] = Control(d) \/ d \in gone \ pending'
    BY <1>1, <1>3, <2>1, <2>2, Things DEF Connected, TypeInv
  <2>5. "pasv" \notin marks => fds'[0] = Std
    BY <1>3, <2>1, <2>2, LowestFree, Things
  <2> QED  BY <1>1, <2>1, <2>2, <2>3, <2>4, <2>5
<1>12. StayInv'
  BY <1>1, <1>3 DEF StayInv, Without
<1>13. ListenInv'
  BY <1>1, <1>2, <1>3, Things DEF ListenInv, Without, Session
<1> QED  BY <1>4, <1>5, <1>6, <1>7, <1>8, <1>9, <1>10, <1>11, <1>12, <1>13

-----------------------------------------------------------------------------
(* The queue thread: where the data goes. *)

LEMMA Porting ==
  ASSUME Inv, UNCHANGED offered, NEW c \in Clients, NEW command \in Offered(c),
         OnPort(c, command)
  PROVE  Inv'
<1> DEFINE n == nodeOf[c]
           s == [nodes[n] EXCEPT !.address = TRUE, !.isPassive = FALSE]
<1>1. /\ commands' \in [Clients -> Nat] /\ PlanInv' /\ n \in Nodes /\ n # None
      /\ nodes[n] \in SessionSet /\ Rooted(nodes[n])
      /\ c \notin gone /\ pasv = None /\ UNCHANGED <<ctl, gone, crashed, reached>>
  BY Sending DEF OnPort, Serves, Sends, Session, Inv
<1>2. /\ nodes' = [nodes EXCEPT ![n] = s] /\ formatted' = c
      /\ reply' = [reply EXCEPT ![c] = 200] /\ marks' = marks \union Misread(c)
      /\ UNCHANGED <<fds, pending, nodeOf, pasv, tree, transfer, hit>>
  BY DEF OnPort, Update, Session, Answer, Format, Mark, None
<1>3. /\ s \in SessionSet /\ s.actualDir = nodes[n].actualDir /\ ~s.isPassive
      /\ s.passiveSock = nodes[n].passiveSock
  BY <1>1 DEF SessionSet
<1>4. Rooted(s)
  BY <1>1, <1>3 DEF Rooted
<1> HIDE DEF s
<1> USE DEF Inv
<1>5. /\ nodes' \in [Nodes -> SessionSet] /\ nodes'[n] = s
      /\ \A m \in Nodes : m # n => nodes'[m] = nodes[m]
  BY <1>1, <1>2, <1>3 DEF TypeInv
<1>6. /\ reply' \in [Clients -> Nat]
      /\ \A d \in Clients : reply[d] # None => reply'[d] # None
  BY <1>2 DEF TypeInv, None
<1>7. /\ marks' \subseteq Marks /\ \A m : m \in marks' <=> m \in marks \/ m \in Misread(c)
      /\ Misread(c) \subseteq {"address"}
  BY <1>2 DEF Misread, Marks, TypeInv
<1>8. "address" \notin marks' =>
        /\ \A d \in Clients \ {c} : nodeOf[d] # None => ~nodes[nodeOf[d]].address
        /\ \A t \in Transfers : transfer[t].pc \notin {"begin", "connect"}
  BY <1>7 DEF Misread
<1>9. \A m \in Nodes : nodes'[m].passiveSock = nodes[m].passiveSock
  BY <1>3, <1>5
<1>10. \A d \in Clients : nodeOf[d] = n => d = c
  BY <1>1 DEF NodesInv
<1> HIDE DEF n
<1>11. TypeInv'
  BY <1>1, <1>2, <1>4, <1>5, <1>6, <1>7 DEF TypeInv
<1>12. TreeInv'
  BY <1>2 DEF TreeInv
<1>13. NodesInv'
  BY <1>1, <1>2, <1>6 DEF NodesInv, Running, Connected, TypeInv
<1>14. ThreadInv' /\ DataInv'
  BY <1>1, <1>2, <1>7 DEF ThreadInv, DataInv
<1>15. AddressInv'
  <2> SUFFICES ASSUME "address" \notin marks', NEW d \in Clients, nodeOf[d] # None,
                      nodes'[nodeOf[d]].address
               PROVE  d = c
    BY <1>2, <1>8 DEF AddressInv
  <2>1. nodeOf[d] \in Nodes
    BY DEF TypeInv
  <2>2. d # c => ~nodes[nodeOf[d]].address
    BY <1>8
  <2> QED  BY <1>5, <1>10, <2>1, <2>2
<1>16. PassiveInv'
  <2>1. \A m \in Nodes, d \in Clients : Owns(d, m)' <=> Owns(d, m)
    BY <1>2 DEF Owns, Running
  <2>2. \A m \in Nodes : Listens(m)' => Listens(m)
    BY <1>2, <1>3, <1>5 DEF Listens
  <2>3. \A m : m \in marks => m \in marks'
    BY <1>7
  <2>4. "pasv" \in marks' => "pasv" \in marks
    BY <1>7
  <2> QED  BY <1>1, <1>2, <1>9, <2>1, <2>2, <2>3, <2>4 DEF PassiveInv, Without
<1>17. PeerInv'
  BY <1>1, <1>2, <1>7 DEF PeerInv, Without
<1>18. ControlInv'
  BY <1>1, <1>2, <1>7, <1>9 DEF ControlInv, Without, Connected
<1>19. StayInv'
  BY <1>1, <1>2, <1>7 DEF StayInv, Without, Running, Connected
<1>20. MoveInv'
  BY <1>2, <1>7 DEF MoveInv, Without
<1>21. ListenInv'
  BY <1>2, <1>7, <1>9 DEF ListenInv, Without, Session, TypeInv
<1>22. InDirectory'
  <2> SUFFICES ASSUME NEW d \in Clients, nodeOf[d] # None, "removed" \notin marks,
                      "refused" \notin marks
               PROVE  IsDir(tree, nodes'[nodeOf[d]].actualDir.path)
    BY <1>2, <1>7 DEF InDirectory, Session
  <2>1. nodeOf[d] \in Nodes /\ IsDir(tree, nodes[nodeOf[d]].actualDir.path)
    BY DEF InDirectory, Session, TypeInv
  <2> QED  BY <1>3, <1>5, <2>1
<1> QED  BY <1>1, <1>11, <1>12, <1>13, <1>14, <1>15, <1>16, <1>17, <1>18, <1>19, <1>20, <1>21,
            <1>22

\* PASV closes the session's own socket, or what had that number.
LEMMA Repassing ==
  ASSUME Inv, UNCHANGED offered, NEW c \in Clients, NEW command \in Offered(c),
         OnPasv(c, command)
  PROVE  Inv'
<1> DEFINE n == nodeOf[c]
           s == nodes[n].passiveSock
<1>1. /\ commands' \in [Clients -> Nat] /\ PlanInv' /\ n \in Nodes /\ n # None
      /\ nodes[n] \in SessionSet /\ TypeInv
      /\ c \notin gone /\ pasv = None /\ UNCHANGED <<ctl, gone, crashed, reached>>
  BY Sending DEF OnPasv, Serves, Sends, Session, Inv
<1>2. /\ CloseNumber(s, {Listen(c)}) /\ pasv' = c
      /\ marks' = marks \union (IF "pasv" \in marks THEN {"pasvAgain"} ELSE {"pasv"})
      /\ UNCHANGED <<pending, nodes, nodeOf, reply, formatted, tree, transfer>>
  BY DEF OnPasv, Mark, Session
<1>3. s \in FDs \union {Bad}
  BY <1>1 DEF SessionSet
<1> HIDE DEF s
<1>4. /\ fds' \in [FDs -> Objects] /\ hit' \subseteq Objects /\ hit \subseteq hit'
      /\ s \in FDs => fds'[s] = Free
      /\ \A m \in FDs : m # s => fds'[m] = fds[m]
      /\ \A x \in hit' : x \in hit \/ (s \in FDs /\ x = fds[s] /\ x \notin {Listen(c)})
      /\ hit' = {} => hit = {} /\ (s \in FDs => fds[s] \in {Free, Std} \union {Listen(c)})
  BY <1>1, <1>2, <1>3, ClosedFacts
<1> USE DEF Inv
<1>5. /\ marks' \subseteq Marks /\ "pasv" \in marks'
      /\ \A m : m \in marks => m \in marks'
      /\ \A m \in marks' : m \in marks \/ m \in {"pasv", "pasvAgain"}
      /\ "pasvAgain" \notin marks' => "pasv" \notin marks
  BY <1>2 DEF Marks, TypeInv
<1>6. c # None
  BY Things
<1>7. TypeInv'
  BY <1>1, <1>2, <1>4, <1>5 DEF TypeInv
<1>8. TreeInv' /\ ThreadInv'
  BY <1>1, <1>2, <1>5 DEF TreeInv, ThreadInv
<1>9. NodesInv'
  BY <1>1, <1>2 DEF NodesInv, Running, Connected
<1>10. DataInv'
  BY <1>2, <1>3, <1>4, Things DEF DataInv, TypeInv, TransferSet, Numbers
<1>11. AddressInv' /\ InDirectory'
  BY <1>2, <1>5 DEF AddressInv, Node, InDirectory, Session
<1>12. PassiveInv'
  <2>1. \A m \in Nodes, d \in Clients : Owns(d, m)' <=> Owns(d, m)
    BY <1>2 DEF Owns, Running
  <2>2. \A m \in Nodes : Listens(m)' <=> Listens(m)
    BY <1>2 DEF Listens
  <2>3. hit' = {} /\ Without({"passiveDone", "reused"})' =>
          \A m \in Nodes, d \in Clients : Owns(d, m)' /\ Listens(m)' =>
            LET k == nodes'[m].passiveSock
            IN  k # Bad => fds'[k] = Listen(d) \/ (pasv' = d /\ fds'[k].kind # "listen")
    <3> SUFFICES ASSUME hit' = {}, Without({"passiveDone", "reused"})', NEW m \in Nodes,
                        NEW d \in Clients, Owns(d, m), Listens(m), nodes[m].passiveSock # Bad
                 PROVE  fds'[nodes[m].passiveSock] = Listen(d)
                          \/ (pasv' = d /\ fds'[nodes[m].passiveSock].kind # "listen")
      BY <1>2, <2>1, <2>2
    <3>1. hit = {} /\ Without({"passiveDone", "reused"})
      BY <1>4, <1>5 DEF Without
    <3>2. fds[nodes[m].passiveSock] = Listen(d)
      BY <1>1, <3>1, Things DEF PassiveInv
    <3>3. nodes[m].passiveSock \in FDs
      BY DEF TypeInv, SessionSet
    <3> QED  BY <1>2, <1>4, <3>2, <3>3, Things
  <2>4. pasv' # None /\ "pasvAgain" \notin marks' => \A m \in Nodes : ~Listens(m)'
    BY <1>5, <2>2 DEF PassiveInv
  <2> QED  BY <1>2, <1>5, <2>1, <2>3, <2>4 DEF PassiveInv
<1>13. PeerInv'
  BY <1>1, <1>2, <1>4, <1>5 DEF PeerInv, Without
<1>14. ControlInv'
  <2> SUFFICES ASSUME Without({"passiveDone", "pasvAgain", "quit"})'
               PROVE  /\ hit' = {} /\ pending \subseteq gone
                      /\ \A d \in Connected : fds'[ctl[d]] = Control(d) \/ d \in gone \ pending
    BY <1>1, <1>2, <1>5 DEF ControlInv, Connected
  <2>1. /\ Without({"passiveDone", "pasvAgain", "quit"}) /\ "pasv" \notin marks
    BY <1>5 DEF Without
  <2>2. /\ hit = {} /\ pending \subseteq gone /\ fds[0] = Std /\ s = 0
        /\ \A d \in Connected : fds[ctl[d]] = Control(d) \/ d \in gone \ pending
    BY <1>1, <2>1 DEF ControlInv, s
  <2>3. hit' = {}
    <3>1. Std = fds[s] => hit' = hit
      BY <1>2, <2>2 DEF CloseNumber
    <3> QED  BY <2>2, <3>1
  <2> QED  BY <1>4, <2>2, <2>3, Things DEF Connected, TypeInv
<1>15. StayInv'
  BY <1>1, <1>2, <1>3, <1>4, <1>5, Things DEF StayInv, Without, Running, Connected, TypeInv
<1>16. MoveInv'
  BY <1>2, <1>5 DEF MoveInv, Without
<1>17. ListenInv'
  <2> SUFFICES ASSUME Without({"passiveDone", "left", "quit"})', NEW m \in FDs,
                      NEW d \in Clients, fds'[m] = Listen(d)
               PROVE  c # d /\ nodeOf[d] # None /\ nodes[nodeOf[d]].passiveSock = m
    BY <1>2 DEF ListenInv, Session
  <2>1. fds[m] = Listen(d) /\ m # s
    BY <1>4, Things
  <2>2. nodeOf[d] # None /\ nodes[nodeOf[d]].passiveSock = m
    BY <1>5, <2>1 DEF ListenInv, Session, Without
  <2> QED  BY <2>1, <2>2 DEF s
<1> QED  BY <1>1, <1>7, <1>8, <1>9, <1>10, <1>11, <1>12, <1>13, <1>14, <1>15, <1>16, <1>17

LEMMA Relistening ==
  ASSUME Inv, UNCHANGED offered, PasvListens
  PROVE  Inv'
<1> USE DEF Inv
<1> DEFINE L == Lowest
           n == nodeOf[pasv]
           old == nodes[n]
           opened == [old EXCEPT !.passiveSock = L]
           s == IF L = Bad THEN opened
                ELSE [opened EXCEPT !.isPassive = TRUE, !.address = TRUE]
<1>1. /\ pasv \in Clients /\ pasv # None /\ n \in Nodes /\ n # None
      /\ old \in SessionSet /\ Rooted(old)
      /\ L \in FDs \union {Bad} /\ (L # Bad => L \in FDs /\ fds[L] = Free)
  BY LowestFree DEF PasvListens, NodesInv, TypeInv
<1>2. /\ nodes' = [nodes EXCEPT ![n] = s] /\ Open(L, Listen(pasv))
      /\ formatted' = (IF L = Bad THEN formatted ELSE None)
      /\ marks' = marks \union Misread(pasv)
      /\ reply' = [reply EXCEPT ![pasv] = 227] /\ pasv' = None
      /\ UNCHANGED <<ctl, pending, gone, commands, nodeOf, tree, transfer, crashed, hit, reached>>
  BY DEF PasvListens, Update, Session, Mark, Answer, None, clientVars
<1>3. /\ s \in SessionSet /\ s.actualDir = old.actualDir /\ s.passiveSock = L
      /\ L = Bad => s.address = old.address /\ s.isPassive = old.isPassive
  <2>1. opened \in SessionSet /\ opened.actualDir = old.actualDir /\ opened.passiveSock = L
        /\ opened.address = old.address /\ opened.isPassive = old.isPassive
    BY <1>1 DEF SessionSet
  <2> HIDE DEF opened
  <2>2. [opened EXCEPT !.isPassive = TRUE, !.address = TRUE] \in SessionSet
        /\ [opened EXCEPT !.isPassive = TRUE, !.address = TRUE].actualDir = opened.actualDir
        /\ [opened EXCEPT !.isPassive = TRUE, !.address = TRUE].passiveSock = opened.passiveSock
    BY <2>1 DEF SessionSet
  <2> QED  BY <2>1, <2>2
<1>4. Rooted(s)
  BY <1>1, <1>3 DEF Rooted
<1>5. "pasv" \in marks
  BY <1>1 DEF PassiveInv
<1> HIDE DEF s, L
<1>6. /\ fds' \in [FDs -> Objects] /\ (L = Bad => fds' = fds)
      /\ L # Bad => fds'[L] = Listen(pasv)
      /\ \A m \in FDs : m # L => fds'[m] = fds[m]
  BY <1>1, <1>2, Opened, Things
<1>7. /\ nodes' \in [Nodes -> SessionSet] /\ nodes'[n] = s
      /\ \A m \in Nodes : m # n => nodes'[m] = nodes[m]
  BY <1>1, <1>2, <1>3 DEF TypeInv
<1>8. /\ reply' \in [Clients -> Nat]
      /\ \A d \in Clients : reply[d] # None => reply'[d] # None
  <2>1. reply \in [Clients -> Nat] /\ reply' = [reply EXCEPT ![pasv] = 227]
    BY <1>2 DEF TypeInv
  <2>2. \A d \in Clients : reply'[d] = IF d = pasv THEN 227 ELSE reply[d]
    BY <2>1
  <2>3. /\ \A d \in Clients : reply'[d] \in Nat
        /\ \A d \in Clients : reply[d] # None => reply'[d] # None
    BY <2>1, <2>2 DEF None
  <2>4. DOMAIN reply' = Clients /\ reply' = [d \in Clients |-> reply'[d]]
    BY <2>1
  <2> QED  BY <2>3, <2>4
<1>9. /\ marks' \subseteq Marks /\ \A m : m \in marks' <=> m \in marks \/ m \in Misread(pasv)
      /\ Misread(pasv) \subseteq {"address"}
  BY <1>2 DEF Misread, Marks, TypeInv
<1>10. "address" \notin marks' =>
         /\ \A d \in Clients \ {pasv} : nodeOf[d] # None => ~nodes[nodeOf[d]].address
         /\ \A t \in Transfers : transfer[t].pc \notin {"begin", "connect"}
  BY <1>9 DEF Misread
<1>11. \A d \in Clients : nodeOf[d] = n => d = pasv
  BY <1>1 DEF NodesInv
<1>12. \A d \in Clients : Owns(d, n) => "reused" \in marks \/ d = pasv
  BY <1>1 DEF PassiveInv, Owns
<1>13. \A m \in Nodes : Owns(pasv, m) => m = n
  BY <1>1 DEF Owns, NodesInv
<1> DEFINE p == pasv
<1>14. p = pasv
  OBVIOUS
<1> HIDE DEF n, old, p
<1>15. TypeInv'
  BY <1>1, <1>2, <1>4, <1>6, <1>7, <1>8, <1>9 DEF TypeInv
<1>16. PlanInv' /\ TreeInv'
  BY <1>2 DEF PlanInv, TreeInv, Connected
<1>17. NodesInv'
  BY <1>2, <1>8 DEF NodesInv, Running, Connected, TypeInv
<1>18. ThreadInv'
  BY <1>2, <1>9 DEF ThreadInv
<1>19. DataInv'
  BY <1>1, <1>2, <1>6, Things DEF DataInv, TypeInv, TransferSet, Numbers
<1>20. AddressInv'
  <2> SUFFICES ASSUME "address" \notin marks', NEW d \in Clients, nodeOf[d] # None,
                      nodes'[nodeOf[d]].address
               PROVE  formatted' \in {d, None}
    BY <1>2, <1>10 DEF AddressInv
  <2>1. nodeOf[d] \in Nodes
    BY DEF TypeInv
  <2>2. d = p
    BY <1>7, <1>10, <1>11, <1>14, <2>1
  <2>3. L = Bad => nodes[nodeOf[d]].address
    BY <1>1, <1>3, <1>7, <1>14, <2>1, <2>2 DEF n, old
  <2>4. "address" \notin marks
    BY <1>9
  <2> QED  BY <1>2, <2>3, <2>4 DEF AddressInv
<1>21. PassiveInv'
  <2>1. \A m \in Nodes, d \in Clients : Owns(d, m)' <=> Owns(d, m)
    BY <1>2 DEF Owns, Running
  <2>2. \A m \in Nodes : m # n => (Listens(m)' <=> Listens(m))
    BY <1>2, <1>7 DEF Listens
  <2>3. hit' = {} /\ Without({"passiveDone", "reused"})' =>
          \A m \in Nodes, d \in Clients : Owns(d, m)' /\ Listens(m)' =>
            LET k == nodes'[m].passiveSock
            IN  k # Bad => fds'[k] = Listen(d) \/ (pasv' = d /\ fds'[k].kind # "listen")
    <3> SUFFICES ASSUME hit = {}, Without({"passiveDone", "reused"})', NEW m \in Nodes,
                        NEW d \in Clients, Owns(d, m), Listens(m)', nodes'[m].passiveSock # Bad
                 PROVE  fds'[nodes'[m].passiveSock] = Listen(d)
      BY <1>2, <2>1
    <3>1. Without({"passiveDone", "reused"}) /\ "reused" \notin marks
      BY <1>9 DEF Without
    <3>2. CASE m = n
      BY <1>3, <1>6, <1>7, <1>12, <3>1, <3>2
    <3>3. CASE m # n
      <4>1. Listens(m) /\ d # pasv /\ nodes'[m].passiveSock = nodes[m].passiveSock
        BY <1>7, <1>13, <2>2, <3>3
      <4>2. fds[nodes[m].passiveSock] = Listen(d)
        BY <3>1, <4>1 DEF PassiveInv
      <4>3. nodes[m].passiveSock \in FDs
        BY <4>1 DEF TypeInv, SessionSet
      <4> QED  BY <1>1, <1>6, <4>1, <4>2, <4>3, Things
    <3> QED  BY <3>2, <3>3
  <2> QED  BY <1>2, <1>5, <1>9, <2>1, <2>3 DEF PassiveInv
<1>22. PeerInv'
  BY <1>2, <1>9 DEF PeerInv, Without
<1>23. ControlInv'
  BY <1>1, <1>2, <1>5, <1>6, <1>9, Things DEF ControlInv, Without, Connected, TypeInv
<1>24. StayInv'
  BY <1>1, <1>2, <1>6, <1>9, Things DEF StayInv, Without, Running, Connected, TypeInv
<1>25. MoveInv'
  BY <1>2, <1>9 DEF MoveInv, Without
<1>26. ListenInv'
  <2> SUFFICES ASSUME Without({"passiveDone", "left", "quit"})', NEW m \in FDs,
                      NEW d \in Clients, fds'[m] = Listen(d)
               PROVE  None # d /\ nodeOf[d] # None /\ nodes'[nodeOf[d]].passiveSock = m
    BY <1>2 DEF ListenInv, Session
  <2>1. Without({"passiveDone", "left", "quit"}) /\ None # d
    BY <1>9, Things DEF Without
  <2>2. CASE m = L
    <3>1. d = pasv
      BY <1>1, <1>6, <2>2, Things, LowestFree
    <3> QED  BY <1>1, <1>3, <1>7, <2>1, <2>2, <3>1 DEF n
  <2>3. CASE m # L
    <3>1. fds[m] = Listen(d)
      BY <1>6, <2>3
    <3>2. pasv # d /\ nodeOf[d] # None /\ nodes[nodeOf[d]].passiveSock = m
      BY <2>1, <3>1 DEF ListenInv, Session
    <3>3. nodeOf[d] \in Nodes /\ nodeOf[d] # n
      BY <1>11, <3>2 DEF TypeInv
    <3> QED  BY <1>7, <2>1, <3>2, <3>3
  <2> QED  BY <2>2, <2>3
<1>27. InDirectory'
  <2> SUFFICES ASSUME NEW d \in Clients, nodeOf[d] # None, "removed" \notin marks,
                      "refused" \notin marks
               PROVE  IsDir(tree, nodes'[nodeOf[d]].actualDir.path)
    BY <1>2, <1>9 DEF InDirectory, Session
  <2>1. nodeOf[d] \in Nodes /\ IsDir(tree, nodes[nodeOf[d]].actualDir.path)
    BY DEF InDirectory, Session, TypeInv
  <2> QED  BY <1>3, <1>7, <2>1 DEF old
<1> QED  BY <1>15, <1>16, <1>17, <1>18, <1>19, <1>20, <1>21, <1>22, <1>23, <1>24, <1>25, <1>26,
            <1>27

LEMMA Quitting ==
  ASSUME Inv, UNCHANGED offered, NEW c \in Clients, NEW command \in Offered(c),
         OnQuit(c, command)
  PROVE  Inv'
<1> DEFINE n == ctl[c]
<1>1. /\ commands' \in [Clients -> Nat] /\ PlanInv' /\ c \in Connected
      /\ c \notin gone /\ pasv = None /\ UNCHANGED <<ctl, gone, crashed, reached>>
      /\ n \in FDs /\ TypeInv /\ n \in FDs \union {Bad}
  BY Sending DEF OnQuit, Connected, Inv, TypeInv
<1>2. /\ CloseNumber(n, {Control(c)}) /\ reply' = [reply EXCEPT ![c] = 221]
      /\ nodeOf' = [nodeOf EXCEPT ![c] = None] /\ pending' = pending \union {c}
      /\ marks' = marks \union {"quit"}
      /\ UNCHANGED <<nodes, pasv, formatted, tree, transfer>>
  BY DEF OnQuit, Mark, Answer, None
<1>3. /\ fds' \in [FDs -> Objects] /\ hit' \subseteq Objects /\ hit \subseteq hit'
      /\ fds'[n] = Free /\ \A m \in FDs : m # n => fds'[m] = fds[m]
      /\ hit' = {} => hit = {} /\ fds[n] \in {Free, Std} \union {Control(c)}
  <2> HIDE DEF n
  <2> QED  BY <1>1, <1>2, ClosedFacts
<1> HIDE DEF n
<1> USE DEF Inv
<1>4. /\ marks' \subseteq Marks /\ "quit" \in marks'
      /\ \A m : m \in marks' <=> m \in marks \/ m = "quit"
  BY <1>2 DEF Marks, TypeInv
<1>5. /\ nodeOf' \in [Clients -> Nodes \union {None}] /\ nodeOf'[c] = None
      /\ \A d \in Clients : d # c => nodeOf'[d] = nodeOf[d]
      /\ reply' \in [Clients -> Nat] /\ \A d \in Clients : reply[d] # None => reply'[d] # None
      /\ Connected' = Connected
  BY <1>1, <1>2 DEF TypeInv, Connected, None
<1>6. TypeInv'
  BY <1>1, <1>2, <1>3, <1>4, <1>5 DEF TypeInv
<1>7. TreeInv' /\ ThreadInv'
  BY <1>1, <1>2, <1>4 DEF TreeInv, ThreadInv
<1>8. NodesInv'
  BY <1>1, <1>2, <1>5 DEF NodesInv, Running, TypeInv, Connected
<1>9. DataInv'
  BY <1>1, <1>2, <1>3, Things DEF DataInv, TypeInv, TransferSet, Numbers
<1>10. AddressInv' /\ InDirectory'
  BY <1>2, <1>4, <1>5 DEF AddressInv, Node, InDirectory, Session
<1>11. PassiveInv'
  <2>1. \A m \in Nodes, d \in Clients : Owns(d, m)' => Owns(d, m)
    BY <1>2, <1>5, FtpBounds DEF Owns, Running, Nodes, None
  <2>2. \A m \in Nodes : Listens(m)' <=> Listens(m)
    BY <1>2 DEF Listens
  <2>3. \A m \in Nodes : nodes[m].passiveSock \in FDs \union {Bad}
    BY DEF TypeInv, SessionSet
  <2> QED  BY <1>1, <1>2, <1>3, <1>4, <2>1, <2>2, <2>3, Things DEF PassiveInv, Without
<1>12. PeerInv'
  BY <1>1, <1>2, <1>3, <1>4 DEF PeerInv, Without
<1>13. ControlInv' /\ StayInv' /\ MoveInv' /\ ListenInv'
  BY <1>4 DEF ControlInv, StayInv, MoveInv, ListenInv, Without
<1> QED  BY <1>1, <1>6, <1>7, <1>8, <1>9, <1>10, <1>11, <1>12, <1>13

\* A thread with the client's session.
LEMMA Starting ==
  ASSUME Inv, UNCHANGED offered, NEW c \in Clients, NEW command \in Offered(c), Sends(c),
         Unused # {}, NEW send \in BOOLEAN, NEW file \in Path, NEW empty \in BOOLEAN,
         Start(c, send, file, empty),
         UNCHANGED <<fds, pending, nodes, nodeOf, pasv, formatted, tree, hit, marks>>
  PROVE  Inv'
<1> DEFINE t == Min(Unused)
           new == [NoTransfer EXCEPT !.pc = "begin", !.client = c, !.node = nodeOf[c],
                                     !.send = send, !.file = file, !.empty = empty]
<1>1. /\ commands' \in [Clients -> Nat] /\ PlanInv' /\ nodeOf[c] \in Nodes /\ nodeOf[c] # None
      /\ c \in Connected /\ pasv = None /\ UNCHANGED <<ctl, gone, crashed, reached>>
  BY Sending DEF Inv, Sends
<1>2. t \in Transfers /\ transfer[t] = NoTransfer
  BY UnusedTransfer
<1>3. transfer' = [transfer EXCEPT ![t] = new] /\ UNCHANGED reply
  BY DEF Start
<1>4. /\ NoTransfer.pc = "none" /\ NoTransfer.conn = Bad /\ NoTransfer.peer = None
      /\ NoTransfer.got = "unknown" /\ NoTransfer.final = None /\ NoTransfer.opened
      /\ NoTransfer.own
  BY DEF NoTransfer
<1>5. /\ new.pc = "begin" /\ new.client = c /\ new.node = nodeOf[c] /\ new.send = send
      /\ new.file = file /\ new.conn = Bad /\ new.peer = None /\ new.got = "unknown"
      /\ new.final = None /\ new.own
  BY DEF NoTransfer
<1>6. new \in TransferSet
  BY <1>1 DEF NoTransfer, TransferSet, Places, Somebody, Somewhere, Numbers, Results, Outcomes,
              Codes
<1> HIDE DEF t, new
<1> USE DEF Inv
<1>7. /\ transfer' \in [Transfers -> TransferSet] /\ transfer'[t] = new
      /\ \A u \in Transfers : u # t => transfer'[u] = transfer[u]
  BY <1>2, <1>3, <1>6 DEF TypeInv
<1>8. Connected' = Connected
  BY <1>1 DEF Connected
<1>9. reply[c] # None
  BY <1>1 DEF NodesInv
<1>10. \A u \in Transfers : u # t => (Running(u)' <=> Running(u))
  BY <1>7 DEF Running
<1>11. ~Running(t)
  BY <1>2, <1>4 DEF Running
<1>12. reached[t] = {}
  BY <1>2, <1>4 DEF ThreadInv
<1>13. TypeInv'
  BY <1>1, <1>3, <1>7 DEF TypeInv
<1>14. TreeInv'
  BY <1>5, <1>7 DEF TreeInv
<1>15. NodesInv'
  BY <1>1, <1>3, <1>5, <1>7, <1>8, <1>9, <1>10 DEF NodesInv
<1>16. ThreadInv'
  BY <1>1, <1>5, <1>7, <1>12 DEF ThreadInv, None
<1>17. DataInv'
  BY <1>2, <1>4, <1>5, <1>7, FtpBounds DEF DataInv, None
<1>18. AddressInv'
  BY <1>1, <1>5, <1>7 DEF AddressInv, Node
<1>19. PassiveInv'
  <2>1. \A m \in Nodes, d \in Clients : Owns(d, m)' => Owns(d, m)
    BY <1>2, <1>5, <1>7, <1>10 DEF Owns
  <2>2. \A m \in Nodes : Listens(m)' => Listens(m)
    BY <1>5, <1>7 DEF Listens
  <2> QED  BY <2>1, <2>2 DEF PassiveInv, Without
<1>20. PeerInv'
  BY <1>1, <1>5, <1>7, <1>12 DEF PeerInv, Without
<1>21. ControlInv'
  BY <1>1, <1>8 DEF ControlInv, Without
<1>22. StayInv'
  BY <1>1, <1>5, <1>7, <1>8, <1>10 DEF StayInv, Without
<1>23. MoveInv'
  BY <1>5, <1>7 DEF MoveInv, Without
<1>24. ListenInv' /\ InDirectory'
  BY DEF ListenInv, InDirectory, Without, Session
<1> QED  BY <1>1, <1>13, <1>14, <1>15, <1>16, <1>17, <1>18, <1>19, <1>20, <1>21, <1>22, <1>23,
            <1>24

-----------------------------------------------------------------------------
(* The threads of the transfers. *)

\* What a step of a thread leaves alone.
LEMMA Threading ==
  ASSUME Inv, UNCHANGED offered, NEW t \in Transfers, Running(t), Goes(t), Keep
  PROVE  /\ PlanInv' /\ NodesInv' /\ Connected' = Connected
         /\ \A u \in Transfers : u # t => (Running(u)' <=> Running(u))
         /\ \A m \in Nodes, d \in Clients : Owns(d, m)' => Owns(d, m)
         /\ transfer[t] \in TransferSet /\ transfer[t].node \in Nodes
         /\ transfer[t].client \in Connected /\ Owns(transfer[t].client, transfer[t].node)
         /\ UNCHANGED <<ctl, pending, gone, commands, nodeOf, reply, pasv, formatted>>
<1> USE DEF Inv
<1>1. UNCHANGED <<ctl, pending, gone, commands, nodeOf, reply, pasv, formatted>>
  BY DEF Keep, clientVars
<1>2. Connected' = Connected
  BY <1>1 DEF Connected
<1>3. /\ \A u \in Transfers : u # t => transfer'[u] = transfer[u]
      /\ transfer'[t].client = transfer[t].client /\ transfer'[t].node = transfer[t].node
  BY DEF Goes
<1>4. \A u \in Transfers : u # t => (Running(u)' <=> Running(u))
  BY <1>3 DEF Running
<1>5. /\ transfer[t] \in TransferSet /\ transfer[t].node \in Nodes
      /\ transfer[t].client \in Connected
  BY DEF TypeInv, NodesInv
<1>6. Owns(transfer[t].client, transfer[t].node)
  BY DEF Owns
<1>7. \A m \in Nodes, d \in Clients : Owns(d, m)' => Owns(d, m)
  BY <1>1, <1>3, <1>4 DEF Owns
<1>8. PlanInv'
  BY <1>1, <1>2 DEF PlanInv
<1>9. NodesInv'
  BY <1>1, <1>2, <1>3, <1>4 DEF NodesInv
<1> QED  BY <1>1, <1>2, <1>4, <1>5, <1>6, <1>7, <1>8, <1>9

\* The directories of the sessions stay when files come.
LEMMA StayingIn ==
  ASSUME Inv, UNCHANGED <<nodes, nodeOf, marks>>, \A p : IsDir(tree, p) => IsDir(tree, p)'
  PROVE  InDirectory'
BY DEF InDirectory, Session, Inv

LEMMA Beginning ==
  ASSUME Inv, UNCHANGED offered, NEW t \in Transfers, Begin(t)
  PROVE  Inv'
<1> DEFINE th == transfer[t]
           passive == Node(t).isPassive
           next == IF passive THEN "accept" ELSE "connect"
           creates == HasParent(tree, th.file) /\ ~IsDir(tree, th.file)
           empty == \/ th.empty
                    \/ /\ th.file # <<>>
                       /\ ~(th.file \in DOMAIN tree /\ tree[th.file] = "full")
           sender == [th EXCEPT !.pc = next, !.passive = passive, !.empty = empty]
           reader == [th EXCEPT !.pc = IF creates THEN next ELSE "final", !.passive = passive,
                                !.opened = creates]
<1>1. th.pc = "begin" /\ Running(t) /\ th \in TransferSet /\ passive \in BOOLEAN /\ TypeInv
  <2>1. th.pc = "begin" /\ Running(t) /\ th \in TransferSet
    BY DEF Begin, At, Running, Inv, TypeInv
  <2>2. transfer[t].node \in Nodes
    BY <2>1 DEF Inv, NodesInv
  <2>3. nodes[transfer[t].node].isPassive \in BOOLEAN
    BY <2>2 DEF Inv, TypeInv, SessionSet
  <2> QED  BY <2>1, <2>3 DEF Node, Inv
<1>2. Keep /\ UNCHANGED <<fds, nodes, crashed, hit, reached, marks>>
  BY DEF Begin, historyVars
<1>3. \/ /\ th.send /\ Become(t, sender) /\ UNCHANGED tree
      \/ /\ ~th.send /\ Become(t, reader)
         /\ tree' = IF creates THEN Put(tree, th.file, "empty") ELSE tree
  BY DEF Begin
<1>4. /\ creates \in BOOLEAN /\ empty \in BOOLEAN /\ next \in {"accept", "connect"}
      /\ next = "accept" => passive
      /\ next = "connect" => ~passive
  BY <1>1 DEF TransferSet
<1> HIDE DEF passive, creates, empty, next
<1>5. {"accept", "connect", "final"} \subseteq Places
  BY DEF Places
<1>6. sender \in TransferSet
  BY <1>1, <1>4, <1>5, AssignedTogether
<1>7. reader \in TransferSet
  <2>1. (IF creates THEN next ELSE "final") \in Places
    BY <1>4, <1>5
  <2> QED  BY <1>1, <1>4, <2>1, AssignedTogether
<1>8. /\ sender \in TransferSet /\ sender.client = th.client /\ sender.node = th.node
      /\ sender.send = th.send /\ sender.file = th.file /\ sender.conn = th.conn
      /\ sender.peer = th.peer /\ sender.got = th.got /\ sender.final = th.final
      /\ sender.own = th.own /\ sender.pc = next /\ sender.passive = passive
      /\ sender.opened = th.opened
  BY <1>1, <1>6 DEF TransferSet
<1>9. /\ reader \in TransferSet /\ reader.client = th.client /\ reader.node = th.node
      /\ reader.send = th.send /\ reader.file = th.file /\ reader.conn = th.conn
      /\ reader.peer = th.peer /\ reader.got = th.got /\ reader.final = th.final
      /\ reader.own = th.own /\ reader.pc = (IF creates THEN next ELSE "final")
      /\ reader.passive = passive /\ reader.opened = creates
  BY <1>1, <1>7 DEF TransferSet
<1> HIDE DEF sender, reader
<1>10. /\ Goes(t) /\ transfer'[t].pc \in {"accept", "connect", "final"}
       /\ transfer'[t].pc = "accept" => passive
       /\ transfer'[t].pc = "connect" => ~passive
       /\ transfer'[t].pc = "final" => ~transfer'[t].opened
       /\ transfer'[t].passive = passive /\ transfer'[t].conn = th.conn
       /\ transfer'[t].peer = th.peer /\ transfer'[t].got = th.got
       /\ transfer'[t].final = th.final /\ transfer'[t].own = th.own
       /\ ~th.send => creates \/ transfer'[t].pc = "final"
  <2>1. CASE th.send
    <3>1. Become(t, sender)
      BY <1>3, <2>1
    <3>2. Goes(t) /\ transfer'[t] = sender
      BY <1>1, <1>8, <3>1, Becomes
    <3> QED  BY <1>4, <1>8, <2>1, <3>2
  <2>2. CASE ~th.send
    <3>1. Become(t, reader)
      BY <1>3, <2>2
    <3>2. Goes(t) /\ transfer'[t] = reader
      BY <1>1, <1>9, <3>1, Becomes
    <3> QED  BY <1>4, <1>9, <3>2
  <2> QED  BY <2>1, <2>2
<1>11. /\ PlanInv' /\ NodesInv' /\ Connected' = Connected
       /\ \A u \in Transfers : u # t => (Running(u)' <=> Running(u))
       /\ \A m \in Nodes, d \in Clients : Owns(d, m)' => Owns(d, m)
       /\ transfer[t].node \in Nodes
       /\ UNCHANGED <<ctl, pending, gone, commands, nodeOf, reply, pasv, formatted>>
  BY <1>1, <1>2, <1>10, Threading
<1>12. /\ Grown(tree') /\ \A p : IsDir(tree, p) => IsDir(tree, p)'
       /\ \A p \in DOMAIN tree : tree[p] # "dir" => p \in DOMAIN tree' /\ tree'[p] # "dir"
       /\ ~th.send /\ creates => th.file \in DOMAIN tree' /\ tree'[th.file] # "dir"
  <2>1. CASE ~th.send /\ creates
    <3> DEFINE file == th.file
               g == Put(tree, file, "empty")
    <3>1. tree' = g
      BY <1>3, <2>1
    <3>2. /\ Grown(tree) /\ file \in Path /\ HasParent(tree, file) /\ "empty" \in Kinds
          /\ file \in DOMAIN tree => tree[file] # "dir"
      BY <1>1, <2>1 DEF Inv, TreeInv, TransferSet, Kinds, creates, IsDir
    <3>3. /\ Grown(g) /\ \A p : IsDir(tree, p) => IsDir(g, p)
          /\ DOMAIN g = DOMAIN tree \union {file} /\ g[file] = "empty"
          /\ \A p \in DOMAIN tree : p # file => g[p] = tree[p]
      <4> HIDE DEF file
      <4> QED  BY <3>2, PutGrown
    <3> HIDE DEF g
    <3>4. \A p : IsDir(tree, p)' <=> IsDir(g, p)
      BY <3>1 DEF IsDir
    <3> QED  BY <3>1, <3>3, <3>4
  <2>2. CASE ~(~th.send /\ creates)
    <3>1. tree' = tree
      BY <1>3, <2>2
    <3> QED  BY <2>2, <3>1 DEF Inv, TreeInv, IsDir
  <2> QED  BY <2>1, <2>2
<1> USE DEF Inv
<1>13. TypeInv'
  BY <1>2, <1>10, <1>11 DEF TypeInv, Goes
<1>14. TreeInv'
  BY <1>10, <1>12 DEF TreeInv, Goes
<1>15. ThreadInv'
  BY <1>1, <1>2, <1>10 DEF ThreadInv, Goes, None
<1>16. DataInv'
  BY <1>1, <1>2, <1>10 DEF DataInv, Goes
<1>17. AddressInv'
  BY <1>1, <1>2, <1>10, <1>11 DEF AddressInv, Node, Goes
<1>18. PassiveInv'
  <2>1. \A m \in Nodes : Listens(m)' => Listens(m)
    BY <1>1, <1>2, <1>10 DEF Listens, Goes, Node, passive
  <2> QED  BY <1>2, <1>11, <2>1 DEF PassiveInv, Without
<1>19. PeerInv'
  BY <1>1, <1>2, <1>10 DEF PeerInv, ThreadInv, Without, Goes
<1>20. ControlInv'
  BY <1>2, <1>11 DEF ControlInv, Without
<1>21. StayInv'
  BY <1>1, <1>2, <1>10, <1>11 DEF StayInv, Without, Goes
<1>22. MoveInv'
  BY <1>2, <1>10 DEF MoveInv, Without, Goes
<1>23. ListenInv'
  BY <1>2, <1>11 DEF ListenInv, Without, Session
<1>24. InDirectory'
  BY <1>2, <1>11, <1>12, StayingIn
<1> QED  BY <1>11, <1>13, <1>14, <1>15, <1>16, <1>17, <1>18, <1>19, <1>20, <1>21, <1>22, <1>23,
            <1>24

\* A connection of thread t, if there is a number for it.
Opens(t) ==
  /\ Open(Lowest, Data(t)) /\ transfer'[t].conn = Lowest
  /\ transfer[t].pc \notin {"move", "close"} /\ transfer[t].final = None
  /\ transfer'[t].pc = "move" \/ transfer'[t].final = 425
  /\ nodes' = nodes /\ hit' = hit
  /\ \A m : m \in marks' <=> m \in marks \/ (m \in marks' /\ m = "full")
  /\ \A n \in Nodes : Listens(n)' => Listens(n)

LEMMA Opening ==
  ASSUME Inv, UNCHANGED offered, NEW t \in Transfers, Running(t), Goes(t), Keep, Opens(t)
  PROVE  /\ fds' \in [FDs -> Objects] /\ DataInv' /\ PassiveInv' /\ ControlInv' /\ ListenInv'
         /\ \A d \in Connected : fds[ctl[d]] = Control(d) => fds'[ctl[d]] = Control(d)
<1> USE DEF Inv
<1> DEFINE L == Lowest
<1>1. /\ L \in FDs \union {Bad} /\ (L # Bad => L \in FDs /\ fds[L] = Free)
      /\ Bad \notin FDs /\ 0 \in FDs
  BY LowestFree
<1>2. /\ Open(L, Data(t)) /\ transfer'[t].conn = L /\ nodes' = nodes /\ hit' = hit
      /\ transfer[t].pc \notin {"move", "close"} /\ transfer[t].final = None
      /\ transfer'[t].pc = "move" \/ transfer'[t].final = 425
      /\ \A m : m \in marks' <=> m \in marks \/ (m \in marks' /\ m = "full")
      /\ \A n \in Nodes : Listens(n)' => Listens(n)
  BY DEF Opens
<1> HIDE DEF L
<1>3. /\ fds' \in [FDs -> Objects] /\ (L # Bad => fds'[L] = Data(t))
      /\ \A m \in FDs : m # L => fds'[m] = fds[m]
  BY <1>1, <1>2, Opened, Things
<1>4. /\ Connected' = Connected
      /\ \A m \in Nodes, d \in Clients : Owns(d, m)' => Owns(d, m)
      /\ UNCHANGED <<ctl, pending, gone, nodeOf, pasv>>
  BY Threading
<1>5. \A u \in Transfers : u # t => transfer'[u] = transfer[u]
  BY DEF Goes
<1>6. DataInv'
  <2>1. ASSUME NEW n \in FDs, NEW u \in Transfers, fds'[n] = Data(u)
        PROVE  /\ transfer'[u].conn = n
               /\ transfer'[u].pc \in {"move", "close"} \/ transfer'[u].final = 425
    <3>1. CASE n = L
      <4>1. Data(u) = Data(t)
        BY <1>1, <1>3, <2>1, <3>1
      <4>2. Data(u).of = u /\ Data(t).of = t
        BY Things
      <4>3. u = t
        BY <4>1, <4>2
      <4> QED  BY <1>2, <3>1, <4>3
    <3>2. CASE n # L
      <4>1. fds[n] = Data(u)
        BY <1>3, <2>1, <3>2
      <4>2. /\ transfer[u].conn = n
            /\ transfer[u].pc \in {"move", "close"} \/ transfer[u].final = 425
        BY <2>1, <4>1 DEF DataInv
      <4>3. u # t
        BY <1>2, <4>2 DEF None
      <4> QED  BY <1>5, <4>2, <4>3
    <3> QED  BY <3>1, <3>2
  <2>2. ASSUME hit = {}, NEW u \in Transfers, u # t, transfer[u].pc \in {"move", "close"},
               transfer[u].conn # Bad
        PROVE  fds'[transfer[u].conn] = Data(u)
    <3>1. fds[transfer[u].conn] = Data(u)
      BY <2>2 DEF DataInv
    <3>2. transfer[u].conn \in FDs
      BY <2>2 DEF TypeInv, TransferSet, Numbers
    <3> QED  BY <1>1, <1>3, <3>1, <3>2, Things
  <2>3. transfer'[t].conn # Bad => fds'[transfer'[t].conn] = Data(t)
    BY <1>2, <1>3
  <2> QED  BY <1>2, <1>5, <2>1, <2>2, <2>3 DEF DataInv
<1>7. PassiveInv'
  <2>1. \A m \in Nodes : nodes[m].passiveSock \in FDs \union {Bad}
    BY DEF TypeInv, SessionSet
  <2> QED  BY <1>1, <1>2, <1>3, <1>4, <2>1, Things DEF PassiveInv, Without
<1>8. ControlInv'
  BY <1>1, <1>2, <1>3, <1>4, Things DEF ControlInv, Without, TypeInv, Connected
<1>9. ListenInv'
  BY <1>1, <1>2, <1>3, <1>4, Things DEF ListenInv, Without, Session
<1>10. \A d \in Connected : fds[ctl[d]] = Control(d) => fds'[ctl[d]] = Control(d)
  BY <1>1, <1>3, Things DEF TypeInv, Connected
<1> QED  BY <1>3, <1>6, <1>7, <1>8, <1>9, <1>10

\* The connection is made.
Connects(t) ==
  /\ At(t, "connect") /\ Node(t).address /\ formatted \notin gone \union {None}
  /\ Lowest # Bad /\ Open(Lowest, Data(t))
  /\ Become(t, [transfer[t] EXCEPT !.pc = "move", !.conn = Lowest, !.peer = formatted])
  /\ Keep /\ UNCHANGED <<nodes, tree, crashed, hit, reached, marks>>

LEMMA Made ==
  ASSUME Inv, UNCHANGED offered, NEW t \in Transfers, Connects(t)
  PROVE  Inv'
<1> DEFINE th == transfer[t]
           L == Lowest
           new == [th EXCEPT !.pc = "move", !.conn = L, !.peer = formatted]
<1>1. /\ th.pc = "connect" /\ Running(t) /\ th \in TransferSet /\ TypeInv
      /\ L \in FDs /\ L # Bad /\ formatted \in Clients
      /\ Node(t).address /\ formatted \notin gone \union {None}
      /\ Become(t, new) /\ Open(L, Data(t))
      /\ Keep /\ UNCHANGED <<nodes, tree, crashed, hit, reached, marks>>
  BY LowestFree DEF Connects, At, Running, Inv, TypeInv
<1>2. new \in TransferSet
  <2>1. "move" \in Places /\ L \in Numbers /\ formatted \in Somebody
    BY <1>1 DEF Places, Numbers, Somebody
  <2> HIDE DEF th, L
  <2> QED  BY <1>1, <2>1, AssignedTogether
<1>3. /\ new.client = th.client /\ new.node = th.node /\ new.send = th.send
      /\ new.file = th.file /\ new.pc = "move" /\ new.passive = th.passive /\ new.conn = L
      /\ new.peer = formatted /\ new.got = th.got /\ new.final = th.final /\ new.own = th.own
      /\ new.opened = th.opened
  BY <1>1 DEF TransferSet
<1> HIDE DEF new, L
<1>4. Goes(t) /\ transfer'[t] = new
  BY <1>1, <1>2, <1>3, Becomes
<1>5. /\ PlanInv' /\ NodesInv' /\ Connected' = Connected
      /\ \A u \in Transfers : u # t => (Running(u)' <=> Running(u))
      /\ \A m \in Nodes, d \in Clients : Owns(d, m)' => Owns(d, m)
      /\ transfer[t].node \in Nodes /\ transfer[t].client \in Connected
      /\ UNCHANGED <<ctl, pending, gone, commands, nodeOf, reply, pasv, formatted>>
  BY <1>1, <1>4, Threading
<1> USE DEF Inv
<1>6. th.peer = None /\ th.conn = Bad /\ ~th.passive /\ reached[t] = {} /\ th.final = None
  BY <1>1 DEF ThreadInv
<1>7. /\ fds' \in [FDs -> Objects] /\ DataInv' /\ PassiveInv' /\ ControlInv' /\ ListenInv'
      /\ \A d \in Connected : fds[ctl[d]] = Control(d) => fds'[ctl[d]] = Control(d)
  <2>1. \A m \in Nodes : Listens(m)' => Listens(m)
    BY <1>1, <1>3, <1>4 DEF Listens, Goes
  <2>2. Opens(t)
    BY <1>1, <1>3, <1>4, <1>6, <2>1 DEF Opens, L
  <2> QED  BY <1>1, <1>4, <2>2, Opening
<1>8. TypeInv'
  BY <1>1, <1>4, <1>5, <1>7 DEF TypeInv, Goes
<1>9. TreeInv'
  BY <1>1, <1>3, <1>4 DEF TreeInv, Goes
<1>10. ThreadInv'
  BY <1>1, <1>3, <1>4, <1>6 DEF ThreadInv, Goes, None
<1>11. AddressInv'
  BY <1>1, <1>3, <1>4, <1>5 DEF AddressInv, Node, Goes
<1>12. PeerInv'
  <2>1. "address" \notin marks => formatted \in {th.client, None}
    BY <1>1 DEF AddressInv
  <2> QED  BY <1>1, <1>3, <1>4, <1>6, <2>1 DEF PeerInv, Without, Goes
<1>13. StayInv'
  BY <1>1, <1>3, <1>4, <1>5, <1>7 DEF StayInv, Without, Goes
<1>14. MoveInv'
  BY <1>1, <1>3, <1>4 DEF MoveInv, Without, Goes
<1>15. InDirectory'
  BY <1>1, <1>5, StayingIn DEF IsDir
<1> QED  BY <1>5, <1>7, <1>8, <1>9, <1>10, <1>11, <1>12, <1>13, <1>14, <1>15

\* The end of a thread.
LEMMA Ending ==
  ASSUME NEW th \in TransferSet, NEW code \in Codes, NEW own \in BOOLEAN
  PROVE  LET new == Ended(th, code, own)
         IN  /\ new \in TransferSet /\ new.client = th.client /\ new.node = th.node
             /\ new.send = th.send /\ new.file = th.file /\ new.pc = "done"
             /\ new.passive = th.passive /\ new.conn = th.conn /\ new.peer = th.peer
             /\ new.got = th.got /\ new.opened = th.opened /\ new.empty = th.empty
             /\ new.final = code /\ new.own = own
<1> DEFINE new == [th EXCEPT !.pc = "done", !.final = code, !.own = own]
<1>1. new \in TransferSet
  <2>1. "done" \in Places
    BY DEF Places
  <2> QED  BY <2>1, AssignedTogether
<1>2. /\ new.client = th.client /\ new.node = th.node /\ new.send = th.send
      /\ new.file = th.file /\ new.pc = "done" /\ new.passive = th.passive
      /\ new.conn = th.conn /\ new.peer = th.peer /\ new.got = th.got
      /\ new.opened = th.opened /\ new.empty = th.empty /\ new.final = code /\ new.own = own
  BY DEF TransferSet
<1>3. Ended(th, code, own) = new
  BY DEF Ended
<1> HIDE DEF new
<1> QED  BY <1>1, <1>2, <1>3

\* The connection is refused, and not closed.
Refuses(t) ==
  /\ At(t, "connect") /\ Open(Lowest, Data(t))
  /\ Become(t, Ended([transfer[t] EXCEPT !.conn = Lowest], 425, OwnControl(t)))
  /\ Keep /\ UNCHANGED <<nodes, tree, crashed, hit, reached, marks>>

LEMMA Refused ==
  ASSUME Inv, UNCHANGED offered, NEW t \in Transfers, Refuses(t)
  PROVE  Inv'
<1> DEFINE th == transfer[t]
           L == Lowest
           own == OwnControl(t)
           connected == [th EXCEPT !.conn = L]
           new == Ended(connected, 425, own)
<1>1. /\ th.pc = "connect" /\ Running(t) /\ th \in TransferSet /\ TypeInv
      /\ L \in FDs \union {Bad}
      /\ Become(t, new) /\ Open(L, Data(t))
      /\ Keep /\ UNCHANGED <<nodes, tree, crashed, hit, reached, marks>>
  BY LowestFree DEF Refuses, At, Running, Inv, TypeInv
<1>2. own \in BOOLEAN /\ (fds[ctl[th.client]] = Control(th.client) => own)
  BY DEF OwnControl
<1> HIDE DEF own
<1>3. connected \in TransferSet
  <2>1. L \in Numbers
    BY <1>1 DEF Numbers
  <2> HIDE DEF th, L
  <2> QED  BY <1>1, <2>1, Assigned
<1>4. /\ new \in TransferSet
      /\ new.client = th.client /\ new.node = th.node /\ new.send = th.send
      /\ new.file = th.file /\ new.pc = "done" /\ new.passive = th.passive /\ new.conn = L
      /\ new.peer = th.peer /\ new.got = th.got /\ new.final = 425 /\ new.own = own
      /\ new.opened = th.opened
  <2>1. /\ connected.client = th.client /\ connected.node = th.node
        /\ connected.send = th.send /\ connected.file = th.file /\ connected.pc = th.pc
        /\ connected.passive = th.passive /\ connected.conn = L
        /\ connected.peer = th.peer /\ connected.got = th.got
        /\ connected.opened = th.opened
    BY <1>1 DEF TransferSet
  <2>2. 425 \in Codes
    BY DEF Codes
  <2> HIDE DEF connected
  <2> QED  BY <1>2, <1>3, <2>1, <2>2, Ending
<1> HIDE DEF new, L
<1>5. Goes(t) /\ transfer'[t] = new
  BY <1>1, <1>4, Becomes
<1>6. /\ PlanInv' /\ NodesInv' /\ Connected' = Connected
      /\ \A u \in Transfers : u # t => (Running(u)' <=> Running(u))
      /\ \A m \in Nodes, d \in Clients : Owns(d, m)' => Owns(d, m)
      /\ transfer[t].node \in Nodes /\ transfer[t].client \in Connected
      /\ UNCHANGED <<ctl, pending, gone, commands, nodeOf, reply, pasv, formatted>>
  BY <1>1, <1>5, Threading
<1> USE DEF Inv
<1>7. th.peer = None /\ th.conn = Bad /\ ~th.passive /\ reached[t] = {} /\ th.final = None
  BY <1>1 DEF ThreadInv
<1>8. /\ fds' \in [FDs -> Objects] /\ DataInv' /\ PassiveInv' /\ ControlInv' /\ ListenInv'
      /\ \A d \in Connected : fds[ctl[d]] = Control(d) => fds'[ctl[d]] = Control(d)
  <2>1. \A m \in Nodes : Listens(m)' => Listens(m)
    BY <1>1, <1>4, <1>5 DEF Listens, Goes
  <2>2. Opens(t)
    BY <1>1, <1>4, <1>5, <1>7, <2>1 DEF Opens, L
  <2> QED  BY <1>1, <1>5, <2>2, Opening
<1>9. TypeInv'
  BY <1>1, <1>5, <1>6, <1>8 DEF TypeInv, Goes
<1>10. TreeInv'
  BY <1>1, <1>4, <1>5 DEF TreeInv, Goes
<1>11. ThreadInv'
  BY <1>1, <1>4, <1>5, <1>7 DEF ThreadInv, Goes, None
<1>12. AddressInv'
  BY <1>1, <1>4, <1>5, <1>6 DEF AddressInv, Node, Goes
<1>13. PeerInv'
  BY <1>1, <1>4, <1>5, <1>7 DEF PeerInv, Without, Goes
<1>14. StayInv'
  <2>1. Without({"left", "quit"}) /\ hit = {} => own
    BY <1>2, <1>6 DEF StayInv
  <2> QED  BY <1>1, <1>4, <1>5, <1>6, <1>8, <2>1 DEF StayInv, Without, Goes, Running
<1>15. MoveInv'
  BY <1>1, <1>4, <1>5 DEF MoveInv, Without, Goes
<1>16. InDirectory'
  BY <1>1, <1>6, StayingIn DEF IsDir
<1> QED  BY <1>6, <1>8, <1>9, <1>10, <1>11, <1>12, <1>13, <1>14, <1>15, <1>16

LEMMA Accepted ==
  ASSUME Inv, UNCHANGED offered, NEW t \in Transfers, AcceptReturns(t)
  PROVE  Inv'
<1> DEFINE th == transfer[t]
           L == Lowest
           new == [th EXCEPT !.pc = "move", !.conn = L]
<1>1. /\ th.pc = "accepting" /\ Running(t) /\ th \in TransferSet /\ TypeInv
      /\ L \in FDs \union {Bad}
      /\ Become(t, new) /\ Open(L, Data(t)) /\ Mark(IF L = Bad THEN {"full"} ELSE {})
      /\ Keep /\ UNCHANGED <<nodes, tree, crashed, hit, reached>>
  BY LowestFree DEF AcceptReturns, At, Running, Inv, TypeInv
<1>2. new \in TransferSet
  <2>1. "move" \in Places /\ L \in Numbers
    BY <1>1 DEF Places, Numbers
  <2> HIDE DEF th, L
  <2> QED  BY <1>1, <2>1, AssignedTogether
<1>3. /\ new.client = th.client /\ new.node = th.node /\ new.send = th.send
      /\ new.file = th.file /\ new.pc = "move" /\ new.passive = th.passive /\ new.conn = L
      /\ new.peer = th.peer /\ new.got = th.got /\ new.final = th.final /\ new.own = th.own
      /\ new.opened = th.opened
  BY <1>1 DEF TransferSet
<1> HIDE DEF new, L
<1>4. Goes(t) /\ transfer'[t] = new
  BY <1>1, <1>2, <1>3, Becomes
<1>5. /\ PlanInv' /\ NodesInv' /\ Connected' = Connected
      /\ \A u \in Transfers : u # t => (Running(u)' <=> Running(u))
      /\ \A m \in Nodes, d \in Clients : Owns(d, m)' => Owns(d, m)
      /\ transfer[t].node \in Nodes /\ transfer[t].client \in Connected
      /\ UNCHANGED <<ctl, pending, gone, commands, nodeOf, reply, pasv, formatted>>
  BY <1>1, <1>4, Threading
<1>6. /\ marks' \subseteq Marks /\ (L = Bad => "full" \in marks')
      /\ \A m : m \in marks' <=> m \in marks \/ (m \in marks' /\ m = "full")
  BY <1>1 DEF Mark, Marks, TypeInv, Inv
<1> USE DEF Inv
<1>7. th.conn = Bad /\ th.passive /\ reached[t] = {} /\ th.final = None
  BY <1>1 DEF ThreadInv
<1>8. /\ fds' \in [FDs -> Objects] /\ DataInv' /\ PassiveInv' /\ ControlInv' /\ ListenInv'
      /\ \A d \in Connected : fds[ctl[d]] = Control(d) => fds'[ctl[d]] = Control(d)
  <2>1. \A m \in Nodes : Listens(m)' => Listens(m)
    BY <1>1, <1>3, <1>4 DEF Listens, Goes
  <2>2. Opens(t)
    BY <1>1, <1>3, <1>4, <1>6, <1>7, <2>1 DEF Opens, L
  <2> QED  BY <1>1, <1>4, <2>2, Opening
<1>9. TypeInv'
  BY <1>1, <1>4, <1>5, <1>6, <1>8 DEF TypeInv, Goes
<1>10. TreeInv'
  BY <1>1, <1>3, <1>4 DEF TreeInv, Goes
<1>11. ThreadInv'
  BY <1>1, <1>3, <1>4, <1>6, <1>7 DEF ThreadInv, Goes, None
<1>12. AddressInv'
  BY <1>1, <1>3, <1>4, <1>5, <1>6 DEF AddressInv, Node, Goes
<1>13. PeerInv'
  BY <1>1, <1>3, <1>4, <1>6, <1>7 DEF PeerInv, Without, Goes
<1>14. StayInv'
  BY <1>1, <1>3, <1>4, <1>5, <1>6, <1>8 DEF StayInv, Without, Goes
<1>15. MoveInv'
  BY <1>1, <1>3, <1>4, <1>6 DEF MoveInv, Without, Goes
<1>16. InDirectory'
  BY <1>1, <1>5, <1>6 DEF InDirectory, Session
<1> QED  BY <1>5, <1>8, <1>9, <1>10, <1>11, <1>12, <1>13, <1>14, <1>15, <1>16

\* Thread t goes on without a change to descriptors and sessions.
Stands(t) ==
  /\ UNCHANGED <<fds, nodes, hit, marks>> /\ transfer'[t].conn = transfer[t].conn
  /\ transfer[t].pc # "close" /\ transfer[t].final = None
  /\ (transfer[t].pc = "move" <=> transfer'[t].pc = "close")
  /\ transfer'[t].pc = "move" => transfer[t].conn = Bad
  /\ transfer'[t].pc \notin {"begin", "connect", "accept"}

LEMMA Standing ==
  ASSUME Inv, UNCHANGED offered, NEW t \in Transfers, Running(t), Goes(t), Keep, Stands(t)
  PROVE  DataInv' /\ AddressInv' /\ PassiveInv' /\ ControlInv' /\ ListenInv'
<1> USE DEF Inv
<1>1. /\ UNCHANGED <<fds, nodes, hit, marks>> /\ transfer'[t].conn = transfer[t].conn
      /\ transfer[t].pc # "close" /\ transfer[t].final = None
      /\ (transfer[t].pc = "move" <=> transfer'[t].pc = "close")
      /\ transfer'[t].pc = "move" => transfer[t].conn = Bad
      /\ transfer'[t].pc \notin {"begin", "connect", "accept"}
  BY DEF Stands
<1>2. /\ Connected' = Connected
      /\ \A m \in Nodes, d \in Clients : Owns(d, m)' => Owns(d, m)
      /\ UNCHANGED <<ctl, pending, gone, nodeOf, pasv, formatted>>
  BY Threading
<1>3. \A u \in Transfers : u # t => transfer'[u] = transfer[u]
  BY DEF Goes
<1>4. DataInv'
  <2>1. ASSUME NEW n \in FDs, fds[n] = Data(t)
        PROVE  transfer[t].conn = n /\ n # Bad /\ transfer[t].pc = "move"
    <3>1. n # Bad
      BY <2>1, LowestFree
    <3> QED  BY <1>1, <2>1, <3>1 DEF DataInv, None
  <2>2. ASSUME NEW n \in FDs, NEW u \in Transfers, fds'[n] = Data(u)
        PROVE  /\ transfer'[u].conn = n
               /\ transfer'[u].pc \in {"move", "close"} \/ transfer'[u].final = 425
    <3>1. fds[n] = Data(u)
      BY <1>1, <2>2
    <3>2. CASE u = t
      BY <1>1, <2>1, <3>1, <3>2
    <3>3. CASE u # t
      BY <1>3, <3>1, <3>3 DEF DataInv
    <3> QED  BY <3>2, <3>3
  <2>3. ASSUME hit' = {}, NEW u \in Transfers, transfer'[u].pc \in {"move", "close"},
               transfer'[u].conn # Bad
        PROVE  fds'[transfer'[u].conn] = Data(u)
    <3>1. CASE u = t
      BY <1>1, <2>3, <3>1 DEF DataInv
    <3>2. CASE u # t
      BY <1>1, <1>3, <2>3, <3>2 DEF DataInv
    <3> QED  BY <3>1, <3>2
  <2> QED  BY <2>2, <2>3 DEF DataInv
<1>5. AddressInv'
  BY <1>1, <1>2, <1>3 DEF AddressInv, Node
<1>6. PassiveInv'
  <2>1. \A m \in Nodes : Listens(m)' => Listens(m)
    BY <1>1, <1>3 DEF Listens
  <2> QED  BY <1>1, <1>2, <2>1 DEF PassiveInv, Without
<1>7. ControlInv'
  BY <1>1, <1>2 DEF ControlInv, Without
<1>8. ListenInv'
  BY <1>1, <1>2 DEF ListenInv, Without, Session
<1> QED  BY <1>4, <1>5, <1>6, <1>7, <1>8

\* What is listened on was announced to a client.
LEMMA Announced ==
  ASSUME NEW x \in Objects, x.kind = "listen"
  PROVE  x.of \in Clients
BY Things DEF Objects

LEMMA Entering ==
  ASSUME Inv, UNCHANGED offered, NEW t \in Transfers, EnterAccept(t)
  PROVE  Inv'
<1> USE DEF Inv
<1> DEFINE th == transfer[t]
           s == Node(t).passiveSock
           own == OwnControl(t)
           listener == fds[s]
           refused == Ended(th, 425, own)
           waiting == [th EXCEPT !.pc = "accepting", !.peer = listener.of]
           without == [th EXCEPT !.pc = "move"]
<1>1. /\ th.pc = "accept" /\ Running(t) /\ th \in TransferSet
      /\ Keep /\ UNCHANGED <<fds, nodes, tree, crashed, hit, reached, marks>>
  BY DEF EnterAccept, At, Running, TypeInv, historyVars
<1>2. /\ th.peer = None /\ th.conn = Bad /\ th.passive /\ reached[t] = {} /\ th.final = None
      /\ th.node \in Nodes /\ th.client \in Clients /\ th.client # None
      /\ Owns(th.client, th.node) /\ Listens(th.node)
  BY <1>1, Things DEF ThreadInv, NodesInv, Owns, Listens, Connected
<1>3. s = nodes[th.node].passiveSock /\ s \in FDs \union {Bad}
  BY <1>2 DEF Node, TypeInv, SessionSet
<1>4. s # Bad => listener \in Objects
  BY <1>3 DEF TypeInv
<1>5. own \in BOOLEAN /\ (fds[ctl[th.client]] = Control(th.client) => own)
  BY DEF OwnControl
<1>6. /\ s = Bad => Become(t, refused)
      /\ s # Bad /\ listener.kind = "listen" => Become(t, waiting)
      /\ s # Bad /\ listener.kind # "listen" => Become(t, without)
  BY DEF EnterAccept
<1> HIDE DEF s, own, listener
<1>7. /\ refused \in TransferSet
      /\ refused.client = th.client /\ refused.node = th.node /\ refused.send = th.send
      /\ refused.file = th.file /\ refused.pc = "done" /\ refused.passive = th.passive
      /\ refused.conn = th.conn /\ refused.peer = th.peer /\ refused.got = th.got
      /\ refused.final = 425 /\ refused.own = own /\ refused.opened = th.opened
  <2>1. 425 \in Codes
    BY DEF Codes
  <2> QED  BY <1>1, <1>5, <2>1, Ending
<1>8. s # Bad /\ listener.kind = "listen" =>
        /\ waiting \in TransferSet
        /\ waiting.client = th.client /\ waiting.node = th.node /\ waiting.send = th.send
        /\ waiting.file = th.file /\ waiting.pc = "accepting" /\ waiting.passive = th.passive
        /\ waiting.conn = th.conn /\ waiting.peer = listener.of /\ waiting.got = th.got
        /\ waiting.final = th.final /\ waiting.own = th.own /\ waiting.opened = th.opened
        /\ listener.of \in Clients /\ listener.of # None
  <2> SUFFICES ASSUME s # Bad, listener.kind = "listen"
               PROVE  /\ waiting \in TransferSet
                      /\ waiting.client = th.client /\ waiting.node = th.node
                      /\ waiting.send = th.send /\ waiting.file = th.file
                      /\ waiting.pc = "accepting" /\ waiting.passive = th.passive
                      /\ waiting.conn = th.conn /\ waiting.peer = listener.of
                      /\ waiting.got = th.got /\ waiting.final = th.final
                      /\ waiting.own = th.own /\ waiting.opened = th.opened
                      /\ listener.of \in Clients /\ listener.of # None
    OBVIOUS
  <2> DEFINE peer == listener.of
  <2>1. peer \in Clients /\ peer # None
    BY <1>4, Announced, Things
  <2> HIDE DEF peer
  <2>2. [th EXCEPT !.pc = "accepting", !.peer = peer] \in TransferSet
    <3>1. "accepting" \in Places /\ peer \in Somebody
      BY <2>1 DEF Places, Somebody
    <3> QED  BY <1>1, <3>1, AssignedTogether
  <2>3. waiting = [th EXCEPT !.pc = "accepting", !.peer = peer]
    BY DEF peer
  <2>4. /\ waiting.client = th.client /\ waiting.node = th.node
        /\ waiting.send = th.send /\ waiting.file = th.file
        /\ waiting.pc = "accepting" /\ waiting.passive = th.passive
        /\ waiting.conn = th.conn /\ waiting.peer = peer
        /\ waiting.got = th.got /\ waiting.final = th.final
        /\ waiting.own = th.own /\ waiting.opened = th.opened
    BY <1>1, <2>3 DEF TransferSet
  <2> HIDE DEF waiting
  <2> QED  BY <2>1, <2>2, <2>3, <2>4 DEF peer
<1>9. /\ without \in TransferSet
      /\ without.client = th.client /\ without.node = th.node /\ without.send = th.send
      /\ without.file = th.file /\ without.pc = "move" /\ without.passive = th.passive
      /\ without.conn = th.conn /\ without.peer = th.peer /\ without.got = th.got
      /\ without.final = th.final /\ without.own = th.own /\ without.opened = th.opened
  <2>1. "move" \in Places
    BY DEF Places
  <2>2. without \in TransferSet
    BY <1>1, <2>1, Assigned
  <2> QED  BY <1>1, <2>2 DEF TransferSet
<1> HIDE DEF refused, waiting, without
<1>10. /\ Goes(t) /\ transfer'[t].pc \in {"accepting", "move", "done"}
       /\ transfer'[t].passive /\ transfer'[t].conn = Bad
       /\ transfer'[t].got = th.got /\ transfer'[t].opened = th.opened
       /\ transfer'[t].pc = "done" => transfer'[t].final = 425 /\ transfer'[t].own = own
       /\ transfer'[t].pc # "done" => transfer'[t].final = None /\ transfer'[t].own = th.own
       /\ transfer'[t].pc = "accepting" => s # Bad /\ listener.kind = "listen"
       /\ transfer'[t].pc = "move" => s # Bad /\ listener.kind # "listen"
       /\ transfer'[t].peer = IF transfer'[t].pc = "accepting" THEN listener.of ELSE None
       /\ transfer'[t].pc = "accepting" => listener.of \in Clients /\ listener.of # None
  <2>1. CASE s = Bad
    <3>1. Goes(t) /\ transfer'[t] = refused
      BY <1>6, <1>7, <2>1, Becomes
    <3> QED  BY <1>2, <1>7, <3>1
  <2>2. CASE s # Bad /\ listener.kind = "listen"
    <3>1. Goes(t) /\ transfer'[t] = waiting
      BY <1>6, <1>8, <2>2, Becomes
    <3> QED  BY <1>2, <1>8, <2>2, <3>1
  <2>3. CASE s # Bad /\ listener.kind # "listen"
    <3>1. Goes(t) /\ transfer'[t] = without
      BY <1>6, <1>9, <2>3, Becomes
    <3> QED  BY <1>2, <1>9, <2>3, <3>1
  <2> QED  BY <2>1, <2>2, <2>3
<1>11. /\ PlanInv' /\ NodesInv' /\ Connected' = Connected
       /\ \A u \in Transfers : u # t => (Running(u)' <=> Running(u))
       /\ transfer[t].client \in Connected
       /\ UNCHANGED <<ctl, pending, gone, commands, nodeOf, reply, pasv, formatted>>
  BY <1>1, <1>10, Threading
<1>12. DataInv' /\ AddressInv' /\ PassiveInv' /\ ControlInv' /\ ListenInv'
  <2>1. Stands(t)
    BY <1>1, <1>2, <1>10 DEF Stands
  <2> QED  BY <1>1, <1>10, <2>1, Standing
<1>13. TypeInv'
  BY <1>1, <1>10, <1>11 DEF TypeInv, Goes
<1>14. TreeInv'
  BY <1>1, <1>10 DEF TreeInv, Goes
<1>15. ThreadInv'
  BY <1>1, <1>2, <1>10 DEF ThreadInv, Goes, None
<1>16. hit = {} /\ Without({"passiveDone", "reused"}) /\ s # Bad =>
         listener = Listen(th.client) \/ (pasv = th.client /\ listener.kind # "listen")
  BY <1>2, <1>3 DEF PassiveInv, listener
<1>17. PeerInv'
  <2>1. hit = {} /\ Without({"passiveDone", "reused"}) /\ transfer'[t].pc = "accepting" =>
          listener.of = th.client
    BY <1>10, <1>16, Things
  <2> QED  BY <1>1, <1>2, <1>10, <2>1 DEF PeerInv, Without, Goes
<1>18. StayInv'
  <2>1. Without({"left", "quit"}) /\ hit = {} => own
    BY <1>5, <1>11 DEF StayInv
  <2> QED  BY <1>1, <1>10, <1>11, <2>1 DEF StayInv, Without, Goes, Running
<1>19. MoveInv'
  <2>1. Without({"passiveDone", "pasvAgain", "left", "quit", "full"}) => transfer'[t].pc # "move"
    <3> SUFFICES ASSUME Without({"passiveDone", "pasvAgain", "left", "quit", "full"}),
                        transfer'[t].pc = "move"
                 PROVE  FALSE
      OBVIOUS
    <3>1. hit = {}
      BY DEF ControlInv, Without
    <3>2. "reused" \notin marks
      BY DEF StayInv, Without
    <3>3. pasv = th.client
      BY <1>10, <1>16, <3>1, <3>2, Things DEF Without
    <3>4. ~Listens(th.node)
      BY <1>2, <3>3 DEF PassiveInv, Without
    <3> QED  BY <1>2, <3>4
  <2> QED  BY <1>1, <1>10, <2>1 DEF MoveInv, Without, Goes
<1>20. InDirectory'
  BY <1>1, <1>11, StayingIn DEF IsDir
<1> QED  BY <1>11, <1>12, <1>13, <1>14, <1>15, <1>17, <1>18, <1>19, <1>20

\* Who is at the other end, if anybody is.
LEMMA OtherEnd ==
  ASSUME Inv, NEW t \in Transfers
  PROVE  /\ Peer(t) \in Clients \union {None}
         /\ transfer[t].conn = Bad => Peer(t) = None
         /\ hit = {} /\ transfer[t].pc = "move" /\ transfer[t].conn # Bad =>
              Peer(t) = transfer[t].peer
<1> USE DEF Inv
<1>1. CASE transfer[t].conn = Bad
  BY <1>1, Things DEF Peer, Connection
<1>2. CASE transfer[t].conn # Bad
  <2> DEFINE x == fds[transfer[t].conn]
  <2>1. x \in Objects /\ Connection(t) = x
    BY <1>2 DEF Connection, TypeInv, TransferSet, Numbers
  <2>2. hit = {} /\ transfer[t].pc = "move" => x = Data(t)
    BY <1>2 DEF DataInv
  <2>3. Peer(t) = CASE x.kind = "data" -> transfer[x.of].peer
                    [] x.kind = "control" -> x.of
                    [] OTHER -> None
    BY <2>1 DEF Peer
  <2> HIDE DEF x
  <2>4. /\ x.kind = "data" => x.of \in Transfers
        /\ x.kind = "control" => x.of \in Clients
    BY <2>1, Things DEF Objects
  <2>5. \A u \in Transfers : transfer[u].peer \in Clients \union {None}
    BY DEF TypeInv, TransferSet, Somebody
  <2>6. Peer(t) \in Clients \union {None}
    BY <2>3, <2>4, <2>5
  <2>7. x = Data(t) => Peer(t) = transfer[t].peer
    BY <2>3, Things
  <2> QED  BY <1>2, <2>2, <2>6, <2>7
<1> QED  BY <1>1, <1>2

LEMMA Moving ==
  ASSUME Inv, UNCHANGED offered, NEW t \in Transfers, Move(t)
  PROVE  Inv'
<1> DEFINE th == transfer[t]
           peer == Peer(t)
           writes == ~th.send /\ peer # None /\ th.file # <<>>
<1>1. /\ th.pc = "move" /\ Running(t) /\ th \in TransferSet /\ TypeInv
      /\ Keep /\ UNCHANGED <<fds, nodes, crashed, hit, marks>>
      /\ reached' = [reached EXCEPT ![t] = IF peer = None THEN @ ELSE @ \union {peer}]
      /\ tree' = IF writes THEN Put(tree, th.file, "full") ELSE tree
  BY DEF Move, At, Running, Inv, TypeInv
<1>2. PICK g \in (IF peer = None THEN {"nothing"} ELSE {"all", "some"}) :
        Become(t, [th EXCEPT !.pc = "close", !.got = g])
  BY DEF Move
<1>3. /\ peer \in Clients \union {None} /\ (th.conn = Bad => peer = None)
      /\ hit = {} /\ th.conn # Bad => peer = th.peer
  BY <1>1, OtherEnd
<1> HIDE DEF peer
<1> DEFINE new == [th EXCEPT !.pc = "close", !.got = g]
<1>4. /\ g \in Outcomes /\ g # "unknown" /\ (peer # None => g # "nothing")
  BY <1>2 DEF Outcomes
<1>5. new \in TransferSet
  <2>1. "close" \in Places
    BY DEF Places
  <2> QED  BY <1>1, <1>4, <2>1, AssignedTogether
<1>6. /\ new.client = th.client /\ new.node = th.node /\ new.send = th.send
      /\ new.file = th.file /\ new.pc = "close" /\ new.passive = th.passive
      /\ new.conn = th.conn /\ new.peer = th.peer /\ new.got = g /\ new.final = th.final
      /\ new.own = th.own /\ new.opened = th.opened
  BY <1>1, <1>5 DEF TransferSet
<1> HIDE DEF new
<1>7. Goes(t) /\ transfer'[t] = new
  BY <1>1, <1>2, <1>5, <1>6, Becomes DEF new
<1>8. /\ PlanInv' /\ NodesInv' /\ Connected' = Connected
      /\ \A u \in Transfers : u # t => (Running(u)' <=> Running(u))
      /\ transfer[t].client \in Connected
      /\ UNCHANGED <<ctl, pending, gone, commands, nodeOf, reply, pasv, formatted>>
  BY <1>1, <1>7, Threading
<1>9. /\ reached' \in [Transfers -> SUBSET Clients]
      /\ \A u \in Transfers : u # t => reached'[u] = reached[u]
      /\ reached'[t] = IF peer = None THEN reached[t] ELSE reached[t] \union {peer}
  BY <1>1, <1>3 DEF TypeInv
<1>10. /\ Grown(tree') /\ \A p : IsDir(tree, p) => IsDir(tree, p)'
       /\ \A p \in DOMAIN tree : tree[p] # "dir" => p \in DOMAIN tree' /\ tree'[p] # "dir"
  <2>1. CASE writes
    <3> DEFINE file == th.file
               f == Put(tree, file, "full")
    <3>1. tree' = f
      BY <1>1, <2>1
    <3>2. file \in DOMAIN tree /\ tree[file] # "dir" /\ Grown(tree) /\ "full" \in Kinds
      BY <1>1, <2>1 DEF Inv, TreeInv, Kinds
    <3>3. file \in Path /\ HasParent(tree, file)
      BY <3>2 DEF Grown
    <3>4. /\ Grown(f) /\ \A p : IsDir(tree, p) => IsDir(f, p)
          /\ DOMAIN f = DOMAIN tree \union {file} /\ f[file] = "full"
          /\ \A p \in DOMAIN tree : p # file => f[p] = tree[p]
      <4> HIDE DEF file
      <4> QED  BY <3>2, <3>3, PutGrown
    <3> HIDE DEF f
    <3>5. \A p : IsDir(tree, p)' <=> IsDir(f, p)
      BY <3>1 DEF IsDir
    <3> QED  BY <3>1, <3>4, <3>5
  <2>2. CASE ~writes
    <3>1. tree' = tree
      BY <1>1, <2>2
    <3> QED  BY <3>1 DEF Inv, TreeInv, IsDir
  <2> QED  BY <2>1, <2>2
<1> USE DEF Inv
<1>11. DataInv' /\ AddressInv' /\ PassiveInv' /\ ControlInv' /\ ListenInv'
  <2>1. Stands(t)
    BY <1>1, <1>6, <1>7 DEF Stands, ThreadInv
  <2> QED  BY <1>1, <1>7, <2>1, Standing
<1>12. TypeInv'
  BY <1>1, <1>7, <1>8, <1>9 DEF TypeInv, Goes
<1>13. TreeInv'
  BY <1>6, <1>7, <1>10 DEF TreeInv, Goes
<1>14. ThreadInv'
  BY <1>1, <1>4, <1>6, <1>7, <1>9 DEF ThreadInv, Goes, None
<1>15. PeerInv'
  <2>1. hit = {} /\ peer # None => peer = th.peer
    BY <1>3
  <2> QED  BY <1>1, <1>6, <1>7, <1>9, <2>1 DEF PeerInv, Without, Goes
<1>16. StayInv'
  BY <1>1, <1>6, <1>7, <1>8 DEF StayInv, Without, Goes, Running
<1>17. MoveInv'
  <2>1. Without({"passiveDone", "pasvAgain", "left", "quit", "full"}) => g # "nothing"
    <3> SUFFICES ASSUME Without({"passiveDone", "pasvAgain", "left", "quit", "full"})
                 PROVE  peer # None
      BY <1>4
    <3>1. hit = {}
      BY DEF ControlInv, Without
    <3>2. th.conn # Bad /\ th.peer # None
      BY <1>1 DEF MoveInv
    <3> QED  BY <1>3, <3>1, <3>2
  <2> QED  BY <1>1, <1>6, <1>7, <2>1 DEF MoveInv, Without, Goes
<1>18. InDirectory'
  BY <1>1, <1>8, <1>10, StayingIn
<1> QED  BY <1>8, <1>11, <1>12, <1>13, <1>14, <1>15, <1>16, <1>17, <1>18

\* Thread t closes number n: its connection, or what it takes for its listening socket.
Closes(t, n, own) ==
  /\ CloseNumber(n, own) /\ own \subseteq {Data(t), Listen(transfer[t].client)}
  /\ transfer[t].pc \in {"close", "closeListener", "delete"}
  /\ transfer[t].pc = "close" => n = transfer[t].conn
  /\ transfer'[t].pc \in {"closeListener", "storeListener", "final"}
  /\ transfer'[t].conn = transfer[t].conn /\ transfer'[t].final = transfer[t].final
  /\ nodes' = nodes /\ marks \subseteq marks'

LEMMA ClosingNumber ==
  ASSUME Inv, UNCHANGED offered, NEW t \in Transfers, Running(t), Goes(t), Keep,
         NEW n \in FDs \union {Bad}, NEW own, Closes(t, n, own)
  PROVE  /\ fds' \in [FDs -> Objects] /\ hit' \subseteq Objects /\ DataInv' /\ AddressInv'
         /\ hit' = {} => hit = {}
         /\ \A d \in Connected :
              hit' = {} /\ fds[ctl[d]] = Control(d) => fds'[ctl[d]] = Control(d)
<1> USE DEF Inv
<1>1. /\ CloseNumber(n, own) /\ own \subseteq {Data(t), Listen(transfer[t].client)}
      /\ transfer[t].pc \in {"close", "closeListener", "delete"}
      /\ transfer[t].pc = "close" => n = transfer[t].conn
      /\ transfer'[t].pc \in {"closeListener", "storeListener", "final"}
      /\ transfer'[t].conn = transfer[t].conn /\ transfer'[t].final = transfer[t].final
      /\ nodes' = nodes /\ marks \subseteq marks'
  BY DEF Closes
<1>2. /\ fds' \in [FDs -> Objects] /\ hit' \subseteq Objects
      /\ n \in FDs => fds'[n] = Free
      /\ \A m \in FDs : m # n => fds'[m] = fds[m]
      /\ hit' = {} => hit = {} /\ (n \in FDs => fds[n] \in {Free, Std} \union own)
  BY <1>1, ClosedFacts
<1>3. /\ UNCHANGED <<ctl, nodeOf, formatted>> /\ transfer[t].final = None
      /\ \A u \in Transfers : u # t => transfer'[u] = transfer[u]
  BY <1>1, Threading DEF Goes, ThreadInv
<1>4. AddressInv'
  BY <1>1, <1>3 DEF AddressInv, Node
<1>5. DataInv'
  <2>1. ASSUME NEW m \in FDs, NEW u \in Transfers, fds'[m] = Data(u)
        PROVE  /\ transfer'[u].conn = m
               /\ transfer'[u].pc \in {"move", "close"} \/ transfer'[u].final = 425
    <3>1. m # n /\ fds[m] = Data(u)
      BY <1>2, <2>1, Things
    <3>2. /\ transfer[u].conn = m
          /\ transfer[u].pc \in {"move", "close"} \/ transfer[u].final = 425
      BY <2>1, <3>1 DEF DataInv
    <3>3. u # t
      BY <1>1, <1>3, <3>1, <3>2 DEF None
    <3> QED  BY <1>3, <3>2, <3>3
  <2>2. ASSUME hit' = {}, NEW u \in Transfers, transfer'[u].pc \in {"move", "close"},
               transfer'[u].conn # Bad
        PROVE  fds'[transfer'[u].conn] = Data(u)
    <3>1. u # t /\ transfer'[u] = transfer[u] /\ hit = {}
      BY <1>1, <1>2, <1>3, <2>2
    <3>2. fds[transfer[u].conn] = Data(u) /\ transfer[u].conn \in FDs
      BY <2>2, <3>1 DEF DataInv, TypeInv, TransferSet, Numbers
    <3>3. Data(u) \notin {Free, Std, Data(t), Listen(transfer[t].client)}
      <4>1. /\ Data(u).of = u /\ Data(t).of = t /\ Data(u).kind = "data"
            /\ Listen(transfer[t].client).kind = "listen"
            /\ Free.kind = "free" /\ Std.kind = "std"
        BY Things
      <4> QED  BY <3>1, <4>1
    <3>4. transfer[u].conn # n
      BY <1>1, <1>2, <2>2, <3>2, <3>3
    <3> QED  BY <1>2, <3>1, <3>2, <3>4
  <2> QED  BY <2>1, <2>2 DEF DataInv
<1>6. ASSUME NEW d \in Connected, hit' = {}, fds[ctl[d]] = Control(d)
      PROVE  fds'[ctl[d]] = Control(d)
  <2>1. ctl[d] \in FDs
    BY DEF TypeInv, Connected
  <2>2. Control(d) \notin {Free, Std, Data(t), Listen(transfer[t].client)}
    <3>1. /\ Control(d).kind = "control" /\ Data(t).kind = "data"
          /\ Listen(transfer[t].client).kind = "listen"
          /\ Free.kind = "free" /\ Std.kind = "std"
      BY Things
    <3> QED  BY <3>1
  <2>3. ctl[d] # n
    BY <1>1, <1>2, <1>6, <2>1, <2>2
  <2> QED  BY <1>2, <1>3, <1>6, <2>1, <2>3
<1> QED  BY <1>2, <1>4, <1>5, <1>6

LEMMA ClosingData ==
  ASSUME Inv, UNCHANGED offered, NEW t \in Transfers, CloseData(t)
  PROVE  Inv'
<1> DEFINE th == transfer[t]
           n == th.conn
           next == IF th.passive THEN "closeListener" ELSE "final"
           new == [th EXCEPT !.pc = next]
<1>1. /\ th.pc = "close" /\ Running(t) /\ th \in TransferSet /\ TypeInv
      /\ CloseNumber(n, {Data(t)}) /\ Become(t, new)
      /\ Keep /\ UNCHANGED <<nodes, tree, crashed, reached, marks>>
  BY DEF CloseData, At, Running, Inv, TypeInv
<1>2. new \in TransferSet
  <2>1. next \in Places
    BY DEF Places
  <2> HIDE DEF next
  <2> QED  BY <1>1, <2>1, Assigned
<1>3. /\ new.client = th.client /\ new.node = th.node /\ new.send = th.send
      /\ new.file = th.file /\ new.pc = next /\ new.passive = th.passive
      /\ new.conn = th.conn /\ new.peer = th.peer /\ new.got = th.got /\ new.final = th.final
      /\ new.own = th.own /\ new.opened = th.opened
  BY <1>1 DEF TransferSet
<1>4. next \in {"closeListener", "final"}
  OBVIOUS
<1> HIDE DEF new, next
<1>5. Goes(t) /\ transfer'[t] = new
  BY <1>1, <1>2, <1>3, Becomes
<1>6. /\ PlanInv' /\ NodesInv' /\ Connected' = Connected
      /\ \A u \in Transfers : u # t => (Running(u)' <=> Running(u))
      /\ \A m \in Nodes, d \in Clients : Owns(d, m)' => Owns(d, m)
      /\ UNCHANGED <<ctl, pending, gone, commands, nodeOf, reply, pasv, formatted>>
  BY <1>1, <1>5, Threading
<1> USE DEF Inv
<1>7. n \in FDs \union {Bad} /\ Bad \notin FDs /\ 0 \in FDs
  BY <1>1, LowestFree DEF TransferSet, Numbers
<1>8. /\ fds' \in [FDs -> Objects] /\ hit' \subseteq Objects /\ DataInv' /\ AddressInv'
      /\ hit' = {} => hit = {}
      /\ \A d \in Connected :
           hit' = {} /\ fds[ctl[d]] = Control(d) => fds'[ctl[d]] = Control(d)
  <2>1. Closes(t, n, {Data(t)})
    BY <1>1, <1>3, <1>4, <1>5 DEF Closes
  <2> QED  BY <1>1, <1>5, <1>7, <2>1, ClosingNumber
<1>9. /\ n \in FDs => fds'[n] = Free
      /\ \A m \in FDs : m # n => fds'[m] = fds[m]
      /\ \A x \in hit' : x \in hit \/ (n \in FDs /\ x = fds[n] /\ x \notin {Data(t)})
  BY <1>1, <1>7, ClosedFacts
<1>10. hit = {} => hit' = {} /\ (n \in FDs => fds[n] = Data(t))
  <2>1. hit = {} /\ n \in FDs => fds[n] = Data(t)
    BY <1>1, <1>7 DEF DataInv
  <2> QED  BY <1>9, <2>1
<1>11. TypeInv'
  BY <1>1, <1>5, <1>6, <1>8 DEF TypeInv, Goes
<1>12. TreeInv'
  BY <1>1, <1>3, <1>4, <1>5 DEF TreeInv, Goes
<1>13. ThreadInv'
  BY <1>1, <1>3, <1>4, <1>5 DEF ThreadInv, Goes, None
<1>14. PassiveInv'
  <2>1. \A m \in Nodes : Listens(m)' => Listens(m)
    BY <1>1, <1>3, <1>4, <1>5 DEF Listens, Goes
  <2>2. \A m \in Nodes : nodes[m].passiveSock \in FDs \union {Bad}
    BY DEF TypeInv, SessionSet
  <2> QED  BY <1>1, <1>6, <1>7, <1>8, <1>9, <1>10, <2>1, <2>2, Things DEF PassiveInv, Without
<1>15. PeerInv'
  BY <1>1, <1>3, <1>5, <1>8 DEF PeerInv, Without, Goes
<1>16. ControlInv'
  <2>1. \A d \in Connected : hit = {} /\ fds[ctl[d]] = Control(d) => fds'[ctl[d]] = Control(d)
    BY <1>8, <1>10
  <2>2. hit = {} /\ fds[0] = Std => fds'[0] = Std
    BY <1>7, <1>9, <1>10, Things
  <2> QED  BY <1>1, <1>6, <1>10, <2>1, <2>2 DEF ControlInv, Without
<1>17. StayInv'
  BY <1>1, <1>3, <1>4, <1>5, <1>6, <1>8 DEF StayInv, Without, Goes, Running
<1>18. MoveInv'
  BY <1>1, <1>3, <1>4, <1>5 DEF MoveInv, Without, Goes
<1>19. ListenInv'
  BY <1>1, <1>6, <1>7, <1>9, Things DEF ListenInv, Without, Session
<1>20. InDirectory'
  BY <1>1, <1>6, StayingIn DEF IsDir
<1> QED  BY <1>6, <1>8, <1>11, <1>12, <1>13, <1>14, <1>15, <1>16, <1>17, <1>18, <1>19, <1>20

LEMMA ClosingListener ==
  ASSUME Inv, UNCHANGED offered, NEW t \in Transfers, CloseListener(t)
  PROVE  Inv'
<1> DEFINE th == transfer[t]
           n == Node(t).passiveSock
           result == CloseResult(n)
           new == [th EXCEPT !.pc = "storeListener", !.closed = result]
<1>1. /\ th.pc = "closeListener" /\ Running(t) /\ th \in TransferSet /\ TypeInv
      /\ CloseNumber(n, {Listen(th.client)}) /\ Become(t, new) /\ Mark({"passiveDone"})
      /\ Keep /\ UNCHANGED <<nodes, tree, crashed, reached>>
  BY DEF CloseListener, At, Running, Inv, TypeInv
<1>2. new \in TransferSet
  <2>1. "storeListener" \in Places /\ result \in Results
    BY DEF Places, Results, CloseResult
  <2> HIDE DEF result
  <2> QED  BY <1>1, <2>1, AssignedTogether
<1>3. /\ new.client = th.client /\ new.node = th.node /\ new.send = th.send
      /\ new.file = th.file /\ new.pc = "storeListener" /\ new.passive = th.passive
      /\ new.conn = th.conn /\ new.peer = th.peer /\ new.got = th.got /\ new.final = th.final
      /\ new.own = th.own /\ new.opened = th.opened
  BY <1>1 DEF TransferSet
<1>4. n \in FDs \union {Bad}
  <2>1. th.node \in Nodes
    BY <1>1 DEF Inv, NodesInv
  <2> QED  BY <1>1, <2>1 DEF Node, TypeInv, SessionSet
<1> HIDE DEF new, n
<1>5. Goes(t) /\ transfer'[t] = new
  BY <1>1, <1>2, <1>3, Becomes
<1>6. /\ PlanInv' /\ NodesInv' /\ Connected' = Connected
      /\ \A u \in Transfers : u # t => (Running(u)' <=> Running(u))
      /\ \A m \in Nodes, d \in Clients : Owns(d, m)' => Owns(d, m)
      /\ UNCHANGED <<ctl, pending, gone, commands, nodeOf, reply, pasv, formatted>>
  BY <1>1, <1>5, Threading
<1> USE DEF Inv
<1>7. /\ marks' \subseteq Marks /\ "passiveDone" \in marks'
      /\ \A m : m \in marks' <=> m \in marks \/ m = "passiveDone"
  BY <1>1 DEF Mark, Marks, TypeInv
<1>8. /\ fds' \in [FDs -> Objects] /\ hit' \subseteq Objects /\ DataInv' /\ AddressInv'
      /\ hit' = {} => hit = {}
      /\ \A d \in Connected :
           hit' = {} /\ fds[ctl[d]] = Control(d) => fds'[ctl[d]] = Control(d)
  <2>1. Closes(t, n, {Listen(th.client)})
    BY <1>1, <1>3, <1>5, <1>7 DEF Closes
  <2> QED  BY <1>1, <1>4, <1>5, <2>1, ClosingNumber
<1>9. TypeInv'
  BY <1>1, <1>5, <1>6, <1>7, <1>8 DEF TypeInv, Goes
<1>10. TreeInv'
  BY <1>1, <1>3, <1>5 DEF TreeInv, Goes
<1>11. ThreadInv'
  BY <1>1, <1>3, <1>5, <1>7 DEF ThreadInv, Goes, None
<1>12. PassiveInv'
  <2>1. \A m \in Nodes : Listens(m)' => Listens(m)
    BY <1>1, <1>3, <1>5 DEF Listens, Goes
  <2> QED  BY <1>6, <1>7, <2>1 DEF PassiveInv, Without
<1>13. PeerInv'
  BY <1>1, <1>3, <1>5, <1>7, <1>8 DEF PeerInv, Without, Goes
<1>14. ControlInv' /\ MoveInv' /\ ListenInv'
  BY <1>7 DEF ControlInv, MoveInv, ListenInv, Without
<1>15. StayInv'
  BY <1>1, <1>3, <1>5, <1>6, <1>7, <1>8 DEF StayInv, Without, Goes, Running
<1>16. InDirectory'
  BY <1>1, <1>6, <1>7 DEF InDirectory, Session
<1> QED  BY <1>6, <1>8, <1>9, <1>10, <1>11, <1>12, <1>13, <1>14, <1>15, <1>16

LEMMA StoringListener ==
  ASSUME Inv, UNCHANGED offered, NEW t \in Transfers, StoreListener(t)
  PROVE  Inv'
<1> DEFINE th == transfer[t]
           n == th.node
           s == [nodes[n] EXCEPT !.passiveSock = th.closed]
           new == [th EXCEPT !.pc = "delete"]
<1>1. /\ th.pc = "storeListener" /\ Running(t) /\ th \in TransferSet /\ TypeInv
      /\ nodes' = [nodes EXCEPT ![n].passiveSock = th.closed] /\ Become(t, new)
      /\ Keep /\ UNCHANGED <<fds, tree, crashed, hit, reached, marks>>
  BY DEF StoreListener, At, Running, Inv, TypeInv, historyVars
<1>2. new \in TransferSet
  <2>1. "delete" \in Places
    BY DEF Places
  <2> QED  BY <1>1, <2>1, Assigned
<1>3. /\ new.client = th.client /\ new.node = th.node /\ new.send = th.send
      /\ new.file = th.file /\ new.pc = "delete" /\ new.passive = th.passive
      /\ new.conn = th.conn /\ new.peer = th.peer /\ new.got = th.got /\ new.final = th.final
      /\ new.own = th.own /\ new.opened = th.opened
  BY <1>1 DEF TransferSet
<1> HIDE DEF new
<1>4. Goes(t) /\ transfer'[t] = new
  BY <1>1, <1>2, <1>3, Becomes
<1>5. /\ PlanInv' /\ NodesInv' /\ Connected' = Connected /\ n \in Nodes
      /\ \A u \in Transfers : u # t => (Running(u)' <=> Running(u))
      /\ \A m \in Nodes, d \in Clients : Owns(d, m)' => Owns(d, m)
      /\ UNCHANGED <<ctl, pending, gone, commands, nodeOf, reply, pasv, formatted>>
  BY <1>1, <1>4, Threading
<1>6. th.closed \in FDs \union {Bad} /\ nodes[n] \in SessionSet /\ Rooted(nodes[n])
  BY <1>1, <1>5, LowestFree DEF TransferSet, Results, TypeInv
<1>7. /\ s \in SessionSet /\ s.actualDir = nodes[n].actualDir /\ s.address = nodes[n].address
      /\ s.isPassive = nodes[n].isPassive
  BY <1>6 DEF SessionSet
<1> HIDE DEF s
<1>8. /\ nodes' \in [Nodes -> SessionSet] /\ nodes'[n] = s
      /\ \A m \in Nodes : m # n => nodes'[m] = nodes[m]
  <2>1. nodes' = [nodes EXCEPT ![n] = s]
    BY <1>1 DEF s
  <2> QED  BY <1>1, <1>5, <1>7, <2>1 DEF TypeInv
<1>9. \A m \in Nodes : /\ nodes'[m].actualDir = nodes[m].actualDir
                       /\ nodes'[m].address = nodes[m].address
                       /\ nodes'[m].isPassive = nodes[m].isPassive
  BY <1>5, <1>7, <1>8
<1> HIDE DEF n
<1> USE DEF Inv
<1>10. "passiveDone" \in marks' /\ "passiveDone" \in marks
  BY <1>1 DEF ThreadInv
<1>11. TypeInv'
  <2>1. \A m \in Nodes : Rooted(nodes'[m])
    BY <1>9 DEF Rooted, TypeInv
  <2> QED  BY <1>1, <1>4, <1>5, <1>8, <2>1 DEF TypeInv, Goes
<1>12. TreeInv'
  BY <1>1, <1>3, <1>4 DEF TreeInv, Goes
<1>13. ThreadInv'
  BY <1>1, <1>3, <1>4 DEF ThreadInv, Goes, None
<1>14. DataInv'
  BY <1>1, <1>3, <1>4, LowestFree DEF DataInv, ThreadInv, Goes, None
<1>15. AddressInv'
  <2>1. \A u \in Transfers : transfer[u].pc \in {"begin", "connect"} => transfer[u].node \in Nodes
    BY DEF NodesInv, Running
  <2>2. \A c \in Clients : nodeOf[c] # None => nodeOf[c] \in Nodes
    BY DEF TypeInv
  <2> QED  BY <1>1, <1>3, <1>4, <1>5, <1>9, <2>1, <2>2 DEF AddressInv, Node, Goes
<1>16. PassiveInv'
  <2>1. \A m \in Nodes : Listens(m)' => Listens(m)
    BY <1>1, <1>3, <1>4, <1>9 DEF Listens, Goes
  <2> QED  BY <1>1, <1>5, <1>10, <2>1 DEF PassiveInv, Without
<1>17. PeerInv'
  BY <1>1, <1>3, <1>4 DEF PeerInv, Without, Goes
<1>18. ControlInv' /\ MoveInv' /\ ListenInv'
  BY <1>10 DEF ControlInv, MoveInv, ListenInv, Without
<1>19. StayInv'
  BY <1>1, <1>3, <1>4, <1>5 DEF StayInv, Without, Goes, Running
<1>20. InDirectory'
  <2>1. \A c \in Clients : nodeOf[c] # None => nodeOf[c] \in Nodes
    BY DEF TypeInv
  <2> QED  BY <1>1, <1>5, <1>9, <2>1 DEF InDirectory, Session
<1> QED  BY <1>5, <1>11, <1>12, <1>13, <1>14, <1>15, <1>16, <1>17, <1>18, <1>19, <1>20

LEMMA DeletingSocket ==
  ASSUME Inv, UNCHANGED offered, NEW t \in Transfers, DeleteSocket(t)
  PROVE  Inv'
<1> DEFINE th == transfer[t]
           n == th.conn
           new == [th EXCEPT !.pc = "final"]
<1>1. /\ th.pc = "delete" /\ Running(t) /\ th \in TransferSet /\ TypeInv
      /\ CloseNumber(n, {}) /\ Become(t, new)
      /\ Keep /\ UNCHANGED <<nodes, tree, crashed, reached, marks>>
  BY DEF DeleteSocket, At, Running, Inv, TypeInv
<1>2. new \in TransferSet
  <2>1. "final" \in Places
    BY DEF Places
  <2> QED  BY <1>1, <2>1, Assigned
<1>3. /\ new.client = th.client /\ new.node = th.node /\ new.send = th.send
      /\ new.file = th.file /\ new.pc = "final" /\ new.passive = th.passive
      /\ new.conn = th.conn /\ new.peer = th.peer /\ new.got = th.got /\ new.final = th.final
      /\ new.own = th.own /\ new.opened = th.opened
  BY <1>1 DEF TransferSet
<1>4. n \in FDs \union {Bad}
  BY <1>1 DEF TransferSet, Numbers
<1> HIDE DEF new
<1>5. Goes(t) /\ transfer'[t] = new
  BY <1>1, <1>2, <1>3, Becomes
<1>6. /\ PlanInv' /\ NodesInv' /\ Connected' = Connected
      /\ \A u \in Transfers : u # t => (Running(u)' <=> Running(u))
      /\ \A m \in Nodes, d \in Clients : Owns(d, m)' => Owns(d, m)
      /\ UNCHANGED <<ctl, pending, gone, commands, nodeOf, reply, pasv, formatted>>
  BY <1>1, <1>5, Threading
<1> USE DEF Inv
<1>7. "passiveDone" \in marks /\ "passiveDone" \in marks'
  BY <1>1 DEF ThreadInv
<1>8. /\ fds' \in [FDs -> Objects] /\ hit' \subseteq Objects /\ DataInv' /\ AddressInv'
      /\ hit' = {} => hit = {}
      /\ \A d \in Connected :
           hit' = {} /\ fds[ctl[d]] = Control(d) => fds'[ctl[d]] = Control(d)
  <2>1. Closes(t, n, {})
    BY <1>1, <1>3, <1>5 DEF Closes
  <2> HIDE DEF n
  <2> QED  BY <1>1, <1>4, <1>5, <2>1, ClosingNumber
<1>9. TypeInv'
  BY <1>1, <1>5, <1>6, <1>8 DEF TypeInv, Goes
<1>10. TreeInv'
  BY <1>1, <1>3, <1>5 DEF TreeInv, Goes
<1>11. ThreadInv'
  BY <1>1, <1>3, <1>5 DEF ThreadInv, Goes, None
<1>12. PassiveInv'
  <2>1. \A m \in Nodes : Listens(m)' => Listens(m)
    BY <1>1, <1>3, <1>5 DEF Listens, Goes
  <2> QED  BY <1>1, <1>6, <1>7, <2>1 DEF PassiveInv, Without
<1>13. PeerInv'
  BY <1>1, <1>3, <1>5, <1>8 DEF PeerInv, Without, Goes
<1>14. ControlInv' /\ MoveInv' /\ ListenInv'
  BY <1>7 DEF ControlInv, MoveInv, ListenInv, Without
<1>15. StayInv'
  BY <1>1, <1>3, <1>5, <1>6, <1>8 DEF StayInv, Without, Goes, Running
<1>16. InDirectory'
  BY <1>1, <1>6 DEF InDirectory, Session
<1> QED  BY <1>6, <1>8, <1>9, <1>10, <1>11, <1>12, <1>13, <1>14, <1>15, <1>16

LEMMA Finishing ==
  ASSUME Inv, UNCHANGED offered, NEW t \in Transfers, Finish(t)
  PROVE  Inv'
<1> DEFINE th == transfer[t]
           own == OwnControl(t)
           code == IF th.send /\ th.empty THEN None ELSE 226
           new == Ended(th, code, own)
<1>1. /\ th.pc = "final" /\ Running(t) /\ th \in TransferSet /\ TypeInv
      /\ Become(t, new)
      /\ Keep /\ UNCHANGED <<fds, nodes, tree, crashed, hit, reached, marks>>
  BY DEF Finish, At, Running, Inv, TypeInv, historyVars
<1>2. /\ own \in BOOLEAN /\ (fds[ctl[th.client]] = Control(th.client) => own)
      /\ code \in Codes /\ code \in {None, 226} /\ (code = None => th.send /\ th.empty)
  BY DEF OwnControl, Codes, None
<1> HIDE DEF own, code
<1>3. /\ new \in TransferSet
      /\ new.client = th.client /\ new.node = th.node /\ new.send = th.send
      /\ new.file = th.file /\ new.pc = "done" /\ new.passive = th.passive
      /\ new.conn = th.conn /\ new.peer = th.peer /\ new.got = th.got /\ new.final = code
      /\ new.own = own /\ new.opened = th.opened /\ new.empty = th.empty
  BY <1>1, <1>2, Ending
<1> HIDE DEF new
<1>4. Goes(t) /\ transfer'[t] = new
  BY <1>1, <1>3, Becomes
<1>5. /\ PlanInv' /\ NodesInv' /\ Connected' = Connected /\ transfer[t].client \in Connected
      /\ \A u \in Transfers : u # t => (Running(u)' <=> Running(u))
      /\ UNCHANGED <<ctl, pending, gone, commands, nodeOf, reply, pasv, formatted>>
  BY <1>1, <1>4, Threading
<1> USE DEF Inv
<1>6. th.final = None /\ (th.got # "unknown" \/ ~th.opened)
  BY <1>1 DEF ThreadInv
<1>7. DataInv' /\ AddressInv' /\ PassiveInv' /\ ControlInv' /\ ListenInv'
  <2>1. Stands(t)
    BY <1>1, <1>3, <1>4, <1>6 DEF Stands
  <2> QED  BY <1>1, <1>4, <2>1, Standing
<1>8. TypeInv'
  BY <1>1, <1>4, <1>5 DEF TypeInv, Goes
<1>9. TreeInv'
  BY <1>1, <1>3, <1>4 DEF TreeInv, Goes
<1>10. ThreadInv'
  BY <1>1, <1>2, <1>3, <1>4, <1>6 DEF ThreadInv, Goes, None
<1>11. PeerInv'
  BY <1>1, <1>3, <1>4 DEF PeerInv, Without, Goes
<1>12. StayInv'
  <2>1. Without({"left", "quit"}) /\ hit = {} => own
    BY <1>2, <1>5 DEF StayInv
  <2> QED  BY <1>1, <1>3, <1>4, <1>5, <2>1 DEF StayInv, Without, Goes, Running
<1>13. MoveInv'
  BY <1>1, <1>3, <1>4 DEF MoveInv, Without, Goes
<1>14. InDirectory'
  BY <1>1, <1>5, StayingIn DEF IsDir
<1> QED  BY <1>5, <1>7, <1>8, <1>9, <1>10, <1>11, <1>12, <1>13, <1>14

-----------------------------------------------------------------------------
(* The start, and every step. *)

LEMMA Starts == Init => Inv
<1> SUFFICES ASSUME Init PROVE Inv
  OBVIOUS
<1>1. /\ offered \in Behaviours /\ pending = {} /\ gone = {} /\ pasv = None /\ formatted = None
      /\ fds = [n \in FDs |-> IF n \in offered.held THEN Std ELSE Free]
      /\ ctl = [c \in Clients |-> Bad] /\ crashed = FALSE
      /\ commands = [c \in Clients |-> 0] /\ reply = [c \in Clients |-> None]
      /\ nodes = [n \in Nodes |-> NewSession] /\ nodeOf = [c \in Clients |-> None]
      /\ tree = offered.files /\ transfer = [t \in Transfers |-> NoTransfer]
      /\ hit = {} /\ reached = [t \in Transfers |-> {}] /\ marks = {}
  BY DEF Init
<1>2. 0 \in offered.held /\ Grown(tree)
  BY <1>1, BehavioursAssumption
<1>3. 0 \in FDs /\ fds[0] = Std
  BY <1>1, <1>2, LowestFree
<1>4. NewSession \in SessionSet /\ Rooted(NewSession) /\ NewSession.passiveSock = 0
  BY NewSessionType DEF NewSession
<1>5. /\ NoTransfer.pc = "none" /\ NoTransfer.conn = Bad /\ NoTransfer.peer = None
      /\ NoTransfer.got = "unknown" /\ NoTransfer.final = None /\ NoTransfer.opened
      /\ NoTransfer.own
  BY DEF NoTransfer
<1>6. NoTransfer \in TransferSet
  <2>1. <<>> \in Path
    BY DEF Path
  <2> QED  BY <2>1 DEF NoTransfer, TransferSet, Places, Somebody, Somewhere, Numbers, Results,
              Outcomes, Codes
<1>7. Connected = {} /\ \A t \in Transfers : transfer[t] = NoTransfer /\ ~Running(t)
  BY <1>1, <1>5 DEF Connected, Running
<1>8. \A n \in Nodes : n # None
  BY FtpBounds DEF Nodes, None
<1>9. \A n \in Nodes, c \in Clients : ~Owns(c, n)
  BY <1>1, <1>7, <1>8 DEF Owns
<1>10. \A n \in FDs : fds[n] \in {Std, Free}
  BY <1>1
<1>11. TypeInv
  BY <1>1, <1>4, <1>6, <1>10 DEF TypeInv, None, Objects
<1>12. PlanInv /\ TreeInv /\ NodesInv
  BY <1>1, <1>2, <1>5, <1>7 DEF PlanInv, TreeInv, NodesInv
<1>13. ThreadInv
  BY <1>1, <1>5, <1>7 DEF ThreadInv, None
<1>14. DataInv
  BY <1>1, <1>5, <1>7, <1>10, Things DEF DataInv
<1>15. AddressInv /\ InDirectory
  BY <1>1, <1>5, <1>7 DEF AddressInv, InDirectory
<1>16. PassiveInv
  <2>1. \A n \in Nodes : ~Listens(n)
    BY <1>1, <1>5, <1>7 DEF Listens, NewSession
  <2> QED  BY <1>1, <1>9, <2>1 DEF PassiveInv
<1>17. PeerInv /\ MoveInv
  BY <1>1, <1>5, <1>7 DEF PeerInv, MoveInv
<1>18. ControlInv /\ StayInv
  BY <1>1, <1>3, <1>4, <1>5, <1>7 DEF ControlInv, StayInv
<1>19. ListenInv
  BY <1>10, Things DEF ListenInv
<1> QED  BY <1>11, <1>12, <1>13, <1>14, <1>15, <1>16, <1>17, <1>18, <1>19 DEF Inv

\* Commands.
LEMMA Commanding ==
  ASSUME Inv, UNCHANGED offered, NEW c \in Clients, NEW command \in Offered(c),
         Command(c, command)
  PROVE  Inv'
<1>1. TypeInv /\ PlanInv /\ TreeInv /\ NodesInv /\ InDirectory
  BY DEF Inv
<1>2. CASE \/ OnUser(c, command) \/ OnPass(c, command) \/ Refuse(c, command)
           \/ OnOther(c, command) \/ OnCwd(c, command) \/ OnCdup(c, command)
  BY <1>1, <1>2, Talking, QuietKeeps
<1>3. CASE OnMkd(c, command)
  BY <1>1, <1>3, Making, QuietKeeps
<1>4. CASE OnRemove(c, command)
  BY <1>1, <1>4, Removing, QuietKeeps
<1>5. CASE OnPort(c, command)
  BY <1>5, Porting
<1>6. CASE OnPasv(c, command)
  BY <1>6, Repassing
<1>7. CASE OnQuit(c, command)
  BY <1>7, Quitting
<1>8. ASSUME Sends(c), NEW code \in Nat, Answer(c, code),
             UNCHANGED <<fds, pending, nodes, nodeOf, pasv, formatted, tree, transfer, hit, marks>>
      PROVE  Inv'
  BY <1>1, <1>8, Saying, QuietKeeps
<1>9. CASE OnList(c, command)
  <2>1. /\ Sends(c) /\ Unused # {}
        /\ UNCHANGED <<fds, pending, nodes, nodeOf, pasv, formatted, tree, hit, marks>>
    BY <1>9 DEF OnList, Serves
  <2>2. CASE IsDir(tree, Session(c).actualDir.path)
    <3>1. Start(c, TRUE, <<>>, FALSE)
      BY <1>9, <2>2 DEF OnList, SendOverDTP
    <3>2. <<>> \in Path
      BY DEF Path
    <3> QED  BY <2>1, <3>1, <3>2, Starting
  <2>3. CASE ~IsDir(tree, Session(c).actualDir.path)
    <3>1. Answer(c, 550) /\ UNCHANGED transfer
      BY <1>9, <2>3 DEF OnList
    <3> QED  BY <1>8, <2>1, <3>1
  <2> QED  BY <2>2, <2>3
<1>10. CASE OnRetr(c, command)
  <2> DEFINE path == Address(Session(c).actualDir, command.arg)
             empty == tree[path] = "empty"
  <2>1. /\ Sends(c) /\ Unused # {} /\ command.is = "retr"
        /\ UNCHANGED <<fds, pending, nodes, nodeOf, pasv, formatted, tree, hit, marks>>
    BY <1>10 DEF OnRetr, Serves
  <2>2. \/ Answer(c, 550) /\ UNCHANGED transfer
        \/ Answer(c, 450) /\ UNCHANGED transfer
        \/ Start(c, TRUE, path, empty)
    BY <1>10 DEF OnRetr, SendOverDTP
  <2>3. path \in Path
    <3>1. command \in Commands /\ Session(c) \in SessionSet /\ Rooted(Session(c))
      BY <1>1, <2>1, Sending
    <3>2. command.arg \in Arguments /\ command.arg.to \in {"abs", "name"}
      BY <2>1, <3>1, CommandFields
    <3> QED  BY <3>1, <3>2, AddressPath DEF SessionSet, Rooted
  <2>4. empty \in BOOLEAN
    OBVIOUS
  <2> HIDE DEF path, empty
  <2>5. CASE Start(c, TRUE, path, empty)
    BY <2>1, <2>3, <2>4, <2>5, Starting
  <2>6. CASE \/ Answer(c, 550) /\ UNCHANGED transfer
             \/ Answer(c, 450) /\ UNCHANGED transfer
    BY <1>8, <2>1, <2>6
  <2> QED  BY <2>2, <2>5, <2>6
<1>11. CASE OnStor(c, command)
  <2> DEFINE path == Address(Session(c).actualDir, command.arg)
  <2>1. /\ Sends(c) /\ Unused # {} /\ command.is = "stor" /\ Start(c, FALSE, path, FALSE)
        /\ UNCHANGED <<fds, pending, nodes, nodeOf, pasv, formatted, tree, hit, marks>>
    BY <1>11 DEF OnStor, Serves, RecieveOverDTP
  <2>2. path \in Path
    <3>1. command \in Commands /\ Session(c) \in SessionSet /\ Rooted(Session(c))
      BY <1>1, <2>1, Sending
    <3>2. command.arg \in Arguments /\ command.arg.to \in {"abs", "name"}
      BY <2>1, <3>1, CommandFields
    <3> QED  BY <3>1, <3>2, AddressPath DEF SessionSet, Rooted
  <2> HIDE DEF path
  <2> QED  BY <2>1, <2>2, Starting
<1> QED  BY <1>2, <1>3, <1>4, <1>5, <1>6, <1>7, <1>9, <1>10, <1>11 DEF Command

\* A crash changes nothing else.
LEMMA Crashing ==
  ASSUME Inv, UNCHANGED <<offered, serverVars, clientVars, sessionVars, transfer, historyVars>>,
         crashed' \in BOOLEAN
  PROVE  Inv'
<1>1. UNCHANGED <<offered, fds, ctl, pending, gone, commands, nodes, nodeOf, reply, pasv,
                  formatted, tree, transfer, hit, reached, marks>>
  BY DEF serverVars, clientVars, sessionVars, historyVars
<1> QED  BY <1>1, Failing, QuietKeeps DEF Inv

\* Threads.
LEMMA Going ==
  ASSUME Inv, UNCHANGED offered, NEW t \in Transfers, Thread(t)
  PROVE  Inv'
<1>1. CASE Begin(t)
  BY <1>1, Beginning
<1>2. CASE ConnectActive(t)
  <2>1. CASE ~Node(t).address /\ crashed' = TRUE /\ UNCHANGED <<fds, transfer>>
    <3>1. UNCHANGED <<serverVars, clientVars, sessionVars, transfer, historyVars>>
      BY <1>2, <2>1 DEF ConnectActive, Keep, serverVars, clientVars, sessionVars, historyVars
    <3> QED  BY <2>1, <3>1, Crashing
  <2>2. CASE Connects(t)
    BY <2>2, Made
  <2>3. CASE Refuses(t)
    BY <2>3, Refused
  <2> QED  BY <1>2, <2>1, <2>2, <2>3 DEF ConnectActive, Connects, Refuses, historyVars
<1>3. CASE EnterAccept(t)
  BY <1>3, Entering
<1>4. CASE AcceptReturns(t)
  BY <1>4, Accepted
<1>5. CASE Move(t)
  BY <1>5, Moving
<1>6. CASE CloseData(t)
  BY <1>6, ClosingData
<1>7. CASE CloseListener(t)
  BY <1>7, ClosingListener
<1>8. CASE StoreListener(t)
  BY <1>8, StoringListener
<1>9. CASE DeleteSocket(t)
  BY <1>9, DeletingSocket
<1>10. CASE Finish(t)
  BY <1>10, Finishing
<1>11. CASE ThreadFaults(t) \/ BrokenPipe(t)
  BY <1>11, Crashing DEF ThreadFaults, BrokenPipe
<1> QED  BY <1>1, <1>2, <1>3, <1>4, <1>5, <1>6, <1>7, <1>8, <1>9, <1>10, <1>11 DEF Thread

LEMMA Steps == Inv /\ [Next]_vars => Inv'
<1>1. ASSUME Inv, Next
      PROVE  Inv'
  <2>1. UNCHANGED offered
    BY <1>1 DEF Next
  <2>2. ASSUME NEW c \in Clients, Accept(c)
        PROVE  Inv'
    BY <1>1, <2>1, <2>2, Accepting
  <2>3. ASSUME NEW c \in Clients, OnConnect(c)
        PROVE  Inv'
    BY <1>1, <2>1, <2>3, Connecting
  <2>4. ASSUME NEW c \in Clients, HangUp(c)
        PROVE  Inv'
    BY <1>1, <2>1, <2>4, Leaving
  <2>5. ASSUME NEW c \in Clients, OnDisconnect(c)
        PROVE  Inv'
    BY <1>1, <2>1, <2>5, Disconnecting
  <2>6. ASSUME NEW c \in Clients, ClosePending(c)
        PROVE  Inv'
    BY <1>1, <2>1, <2>6, Closing
  <2>7. ASSUME NEW c \in Clients, NEW command \in Offered(c), Command(c, command)
        PROVE  Inv'
    BY <1>1, <2>1, <2>7, Commanding
  <2>8. CASE PasvListens
    BY <1>1, <2>1, <2>8, Relistening
  <2>9. ASSUME NEW t \in Transfers, Thread(t)
        PROVE  Inv'
    BY <1>1, <2>1, <2>9, Going
  <2> QED  BY <1>1, <2>2, <2>3, <2>4, <2>5, <2>6, <2>7, <2>8, <2>9 DEF Next
<1>2. ASSUME Inv, UNCHANGED vars
      PROVE  Inv'
  <2>1. crashed' \in BOOLEAN
    BY <1>2 DEF vars, Inv, TypeInv
  <2> QED  BY <1>2, <2>1, Crashing DEF vars
<1> QED  BY <1>1, <1>2

LEMMA Invariance == Spec => []Inv
BY Starts, Steps, PTL DEF Spec

-----------------------------------------------------------------------------
(* The properties. *)

\* Whatever clients do, however many threads run: every variable has its type.
THEOREM TypesOK == Spec => []TypeOK
<1>1. Inv => TypeOK
  <2> SUFFICES ASSUME Inv PROVE TypeOK
    OBVIOUS
  <2> USE DEF Inv
  <2>1. \A n \in Nodes : /\ DOMAIN nodes[n] = DOMAIN NewSession
                         /\ nodes[n].passiveSock \in FDs \union {Bad}
                         /\ nodes[n].actualDir.path = <<>> => nodes[n].actualDir.slash
    <3> TAKE n \in Nodes
    <3>1. nodes[n] \in SessionSet /\ Rooted(nodes[n]) /\ NewSession \in SessionSet
      BY NewSessionType DEF TypeInv
    <3> QED  BY <3>1 DEF SessionSet, Rooted
  <2>2. \A t \in Transfers : DOMAIN transfer[t] = DOMAIN NoTransfer
    <3> TAKE t \in Transfers
    <3>1. transfer[t] \in TransferSet
      BY DEF TypeInv
    <3> QED  BY <3>1 DEF TransferSet, NoTransfer
  <2>3. \A c \in Connected : commands[c] \in 0 .. Len(offered.plan[c])
    BY DEF PlanInv
  <2> QED  BY <2>1, <2>2, <2>3 DEF TypeOK, TypeInv, TreeInv
<1> QED  BY <1>1, Invariance, PTL

\* The control connections of clients that stay are not closed by the transfers of
\* others, until a number is closed that is closed elsewhere too.
THEOREM KeepsControls == Spec => []ControlsKept
<1>1. Inv => ControlsKept
  BY DEF Inv, ControlInv, ControlsKept
<1> QED  BY <1>1, Invariance, PTL

\* SendData and RecvData move data with the client that asked, and no other.
THEOREM MovesOwnData == Spec => []DataOwnClient
<1>1. Inv => DataOwnClient
  BY DEF Inv, PeerInv, DataOwnClient
<1> QED  BY <1>1, Invariance, PTL

\* The last reply of SendData and RecvData goes to their client.
THEOREM AllAnswered == Spec => []Answered
<1>1. Inv => Answered
  BY DEF Inv, StayInv, ThreadInv, Answered
<1> QED  BY <1>1, Invariance, PTL

\* 226 is the end of a transfer that had a connection.
THEOREM RealSuccess == Spec => []SuccessIsReal
<1>1. Inv => SuccessIsReal
  <2> SUFFICES ASSUME Inv, Without({"passiveDone", "pasvAgain", "left", "quit", "full"}),
                      NEW t \in Transfers
               PROVE  /\ transfer[t].got # "nothing"
                      /\ transfer[t].final = 226 /\ transfer[t].got = "unknown" =>
                           ~transfer[t].opened
    BY DEF SuccessIsReal
  <2> QED  BY DEF Inv, MoveInv, ThreadInv
<1> QED  BY <1>1, Invariance, PTL

\* Every data connection and every listening socket has somebody who knows its number.
THEOREM KnowsDescriptors == Spec => []DescriptorsKnown
<1>1. Inv => DescriptorsKnown
  <2> SUFFICES ASSUME Inv, NEW n \in FDs
               PROVE  /\ fds[n].kind = "data" =>
                           \/ Running(fds[n].of) \/ transfer[fds[n].of].final = 425
                      /\ fds[n].kind = "listen" =>
                           \/ nodeOf[fds[n].of] # None /\ Session(fds[n].of).passiveSock = n
                           \/ ~Without({"passiveDone", "left", "quit"})
    BY DEF DescriptorsKnown
  <2> USE DEF Inv
  <2>1. fds[n] \in Objects
    BY DEF TypeInv
  <2>2. ASSUME fds[n].kind = "data"
        PROVE  Running(fds[n].of) \/ transfer[fds[n].of].final = 425
    <3>1. PICK t \in Transfers : fds[n] = Data(t)
      BY <2>1, <2>2, Things DEF Objects
    <3>2. transfer[t].pc \in {"move", "close"} \/ transfer[t].final = 425
      BY <3>1 DEF DataInv
    <3>3. fds[n].of = t
      BY <3>1, Things
    <3> QED  BY <3>2, <3>3 DEF Running
  <2>3. ASSUME fds[n].kind = "listen", Without({"passiveDone", "left", "quit"})
        PROVE  nodeOf[fds[n].of] # None /\ Session(fds[n].of).passiveSock = n
    <3>1. PICK c \in Clients : fds[n] = Listen(c)
      BY <2>1, <2>3, Things DEF Objects
    <3>2. nodeOf[c] # None /\ Session(c).passiveSock = n
      BY <2>3, <3>1 DEF ListenInv
    <3>3. fds[n].of = c
      BY <3>1, Things
    <3> QED  BY <3>2, <3>3
  <2> QED  BY <2>2, <2>3
<1> QED  BY <1>1, Invariance, PTL

\* The directory of every session exists.
THEOREM StaysInDirectory == Spec => []InDirectory
<1>1. Inv => InDirectory
  BY DEF Inv
<1> QED  BY <1>1, Invariance, PTL
=============================================================================
