----------------------------- MODULE SmtpProofs -----------------------------
(***************************************************************************)
(* Proofs about Smtp for any number of clients, connections and requests,  *)
(* any command lines, pieces of mail and mailboxes: type correctness, that *)
(* a mail reaches its first recipient and nobody else, and that it is the  *)
(* whole of what its client has sent.                                      *)
(***************************************************************************)
EXTENDS Smtp, SequenceTheorems, TLAPS

-----------------------------------------------------------------------------
(* The inductive invariants. *)

Session == [Host : Names, mailFrom : Names, mailTo : Seq(Names \ {Nobody}),
            first : Names, data : Seq(Symbols)]

TypeInv ==
  /\ closing \subseteq open /\ open \subseteq FDs /\ inherited \subseteq FDs
  /\ crashed \in BOOLEAN
  /\ status \in [FDs -> States] /\ session \in [FDs -> Session]
  /\ named \in [FDs -> Seq(Names)] /\ typed \in [FDs -> Seq(Symbols)]
  /\ mailbox \in [Files -> Seq(STRING)] /\ reply \in [FDs -> {0, 220, 250, 354}]

\* What waits for its end has not got one; who starts anew has no recipients.
Pending(fd) ==
  /\ ~Ended(session[fd].data)
  /\ fd \in open => status[fd] # "GREETINGS" \/ session[fd].mailTo = <<>>

\* The session of a number that nobody has is new.  That of a client knows whom the
\* client has named, the first of them by its memory, and what it has typed.
Dialogue(fd) ==
  IF fd \in open
  THEN /\ session[fd].mailTo = <<>> <=> named[fd] = <<>>
       /\ named[fd] # <<>> => session[fd].first = Head(named[fd])
       /\ status[fd] = "MAIL_RCPT" => named[fd] # <<>>
       /\ session[fd].data = IF status[fd] = "MAIL_DATA" THEN typed[fd] ELSE <<>>
  ELSE session[fd] = NewSession

IInv == /\ TypeInv
        /\ \A fd \in FDs : Pending(fd)
        /\ ~crashed => \A fd \in FDs \ inherited : Dialogue(fd)

-----------------------------------------------------------------------------
(* Texts. *)

\* Mails are made of the symbols of their pieces.
LEMMA PieceSymbols == Symbols \subseteq STRING /\ Pieces \subseteq Seq(Symbols)
<1>1. ASSUME NEW piece \in Pieces
      PROVE  piece \in Seq(STRING) /\ Range(piece) \subseteq Symbols
  BY <1>1, TextsAssumption DEF Symbols
<1>2. ASSUME NEW piece \in Pieces
      PROVE  piece \in Seq(Symbols) /\ Range(piece) \subseteq STRING
  <2>1. /\ piece \in Seq(STRING) /\ Len(piece) \in Nat
        /\ DOMAIN piece = 1 .. Len(piece)
        /\ \A i \in 1 .. Len(piece) : piece[i] \in STRING
    BY <1>1, LenProperties, ElementOfSeq
  <2>2. \A i \in 1 .. Len(piece) : piece[i] \in Symbols
    BY <1>1, <2>1 DEF Range
  <2>3. piece \in Seq(Symbols)
    BY <2>1, <2>2, SeqDef
  <2> QED  BY <2>1, <2>3 DEF Range
<1> QED  BY <1>2 DEF Symbols

LEMMA SeqSubset ==
  ASSUME NEW S, NEW T, S \subseteq T, NEW s \in Seq(S)
  PROVE  s \in Seq(T)
<1>1. PICK n \in Nat : s \in [1 .. n -> S]
  BY SeqDef
<1>2. s \in [1 .. n -> T]
  BY <1>1
<1> QED  BY <1>2, SeqDef

\* A word that is saved or named is a name, and not the one that stands for nobody.
LEMMA ArgumentNames ==
  ASSUME NEW line \in Lines
  PROVE  Argument[line] \in Names \ {Nobody}
BY NobodyAssumption DEF Names, Argument, Range

\* An empty text has no end.
LEMMA EmptyNotEnded == ~Ended(<<>>)
<1>1. Len(<<>>) - Len(End) = -5
  BY DEF End
<1>2. 0 .. -5 = {}
  OBVIOUS
<1> QED  BY <1>1, <1>2 DEF Ended

\* A text is a prefix of what is saved with it.
LEMMA SavedPrefix ==
  ASSUME NEW S, NEW s \in Seq(S), NEW t \in Seq(S)
  PROVE  IsPrefix(s, s \o SubSeq(t, Len(s) + 1, Len(t)))
         /\ s \o SubSeq(t, Len(s) + 1, Len(t)) \in Seq(S)
<1> DEFINE r == SubSeq(t, Len(s) + 1, Len(t))
<1>1. Len(s) \in Nat /\ Len(t) \in Nat
  BY LenProperties
<1>2. r \in Seq(S) /\ Len(r) \in Nat
  BY <1>1, SubSeqProperties, LenProperties
<1> HIDE DEF r
<1>3. /\ s \o r \in Seq(S) /\ Len(s \o r) = Len(s) + Len(r)
      /\ \A i \in 1 .. (Len(s) + Len(r)) :
           (s \o r)[i] = IF i <= Len(s) THEN s[i] ELSE r[i - Len(s)]
  BY <1>2, ConcatProperties
<1>4. Len(s) <= Len(s \o r)
  BY <1>1, <1>2, <1>3
<1>5. SubSeq(s, 1, Len(s)) = SubSeq(s \o r, 1, Len(s))
  <2> DEFINE u == SubSeq(s, 1, Len(s))
             v == SubSeq(s \o r, 1, Len(s))
  <2>1. /\ u \in Seq(S) /\ Len(u) = Len(s)
        /\ \A i \in 1 .. Len(s) : u[i] = s[i]
    BY <1>1, SubSeqProperties
  <2>2. /\ v \in Seq(S) /\ Len(v) = Len(s)
        /\ \A i \in 1 .. Len(s) : v[i] = (s \o r)[i]
    BY <1>1, <1>3, <1>4, SubSeqProperties
  <2>3. \A i \in 1 .. Len(s) : (s \o r)[i] = s[i]
    BY <1>1, <1>2, <1>3
  <2> HIDE DEF u, v
  <2>4. u = v
    BY <2>1, <2>2, <2>3, SeqEqual
  <2> QED  BY <2>4 DEF u, v
<1> QED  BY <1>3, <1>4, <1>5 DEF IsPrefix, r

-----------------------------------------------------------------------------
(* Type correctness. *)

LEMMA InitIInv == Init => IInv
<1> SUFFICES ASSUME Init  PROVE IInv
  OBVIOUS
<1>1. NewSession \in Session /\ <<>> \in Seq(Names) /\ <<>> \in Seq(Symbols)
  BY DEF NewSession, Session, Names
<1>2. mailbox \in [Files -> Seq(STRING)]
  BY TextsAssumption DEF Init, Files
<1>3. TypeInv
  BY <1>1, <1>2 DEF Init, TypeInv, States
<1>4. ASSUME NEW fd \in FDs  PROVE Pending(fd) /\ Dialogue(fd)
  BY EmptyNotEnded DEF Init, Pending, Dialogue, NewSession
<1> QED  BY <1>3, <1>4 DEF IInv

\* The session of a mail that has been saved.
LEMMA EndedType ==
  ASSUME NEW s \in Session
  PROVE  [s EXCEPT !.data = <<>>, !.mailTo = <<>>] \in Session
<1>1. \A x \in Seq(Symbols) : \A y \in Seq(Names \ {Nobody}) :
        [s EXCEPT !.data = x, !.mailTo = y] \in Session
  BY DEF Session
<1>2. <<>> \in Seq(Names \ {Nobody}) /\ <<>> \in Seq(Symbols)
  OBVIOUS
<1> QED  BY <1>1, <1>2

LEMMA TypeStep == TypeInv /\ [Next]_vars => TypeInv'
<1> SUFFICES ASSUME TypeInv, [Next]_vars  PROVE TypeInv'
  OBVIOUS
<1> USE DEF TypeInv, Serves, Answer
<1>0. NewSession \in Session /\ <<>> \in Seq(Names) /\ <<>> \in Seq(Symbols)
  BY DEF NewSession, Session, Names
<1>1. CASE UNCHANGED vars
  BY <1>1 DEF vars
<1>2. ASSUME NEW fd \in FDs, Connect(fd)  PROVE TypeInv'
  BY <1>0, <1>2 DEF Connect, States
<1>3. ASSUME NEW fd \in FDs, Disconnect(fd)  PROVE TypeInv'
  BY <1>0, <1>3 DEF Disconnect, States
<1>4. ASSUME NEW fd \in FDs, Close(fd)  PROVE TypeInv'
  BY <1>4 DEF Close
<1>5. ASSUME NEW fd \in FDs, NEW line \in Lines, OnCommand(fd, line)  PROVE TypeInv'
  <2> DEFINE state == StateAfter(fd, Command[line])
             arg == Argument[line]
             old == session[fd]
             new == CASE state = "HELLO" -> [old EXCEPT !.Host = arg]
                      [] state = "MAIL_FROM" -> [old EXCEPT !.mailFrom = arg]
                      [] state = "MAIL_RCPT" ->
                           [old EXCEPT !.mailTo = Append(@, arg),
                                       !.first = IF old.mailTo = <<>> THEN arg ELSE @]
                      [] OTHER -> old
  <2>1. arg \in Names \ {Nobody} /\ old \in Session /\ status[fd] \in States
    BY <1>5, ArgumentNames
  <2>2. state \in States
    BY <2>1 DEF StateAfter, States
  <2>3. new \in Session
    <3> HIDE DEF state, arg, old
    <3>1. Append(old.mailTo, arg) \in Seq(Names \ {Nobody})
      BY <2>1, AppendProperties DEF Session
    <3> QED  BY <2>1, <3>1 DEF Session
  <2>4. session' = [session EXCEPT ![fd] = new]
    BY <1>5 DEF OnCommand
  <2>5. session' \in [FDs -> Session]
    BY <2>3, <2>4
  <2>6. named' \in [FDs -> Seq(Names)]
    <3>1. Append(named[fd], arg) \in Seq(Names)
      BY <2>1, AppendProperties
    <3> QED  BY <1>5, <3>1 DEF OnCommand
  <2>7. status' \in [FDs -> States] /\ closing' \subseteq open
    BY <1>5, <2>2 DEF OnCommand
  <2>8. reply' \in [FDs -> {0, 220, 250, 354}]
    <3>1. \/ reply' = [reply EXCEPT ![fd] = 250] \/ reply' = [reply EXCEPT ![fd] = 354]
          \/ reply' = reply
      BY <1>5, <2>2 DEF OnCommand, States
    <3>2. reply \in [FDs -> {0, 220, 250, 354}]
      OBVIOUS
    <3> HIDE DEF TypeInv
    <3> QED  BY <3>1, <3>2
  <2> HIDE DEF state, arg, old, new
  <2>9. /\ typed' = [typed EXCEPT ![fd] = <<>>]
        /\ UNCHANGED <<open, inherited, crashed, mailbox>>
    BY <1>5 DEF OnCommand
  <2> QED  BY <1>0, <2>5, <2>6, <2>7, <2>8, <2>9
<1>6. ASSUME NEW fd \in FDs, NEW piece \in Pieces, OnPiece(fd, piece)  PROVE TypeInv'
  <2>1. session[fd] \in Session /\ typed[fd] \in Seq(Symbols) /\ piece \in Seq(Symbols)
    BY PieceSymbols
  <2>2. session[fd].data \o piece \in Seq(Symbols) /\ typed[fd] \o piece \in Seq(Symbols)
    BY <2>1, ConcatProperties DEF Session
  <2>3. session' \in [FDs -> Session]
    BY <1>6, <2>1, <2>2 DEF OnPiece, Session
  <2>4. typed' \in [FDs -> Seq(Symbols)]
    BY <1>6, <2>2 DEF OnPiece
  <2> QED  BY <1>6, <2>3, <2>4 DEF OnPiece
<1>7. ASSUME NEW fd \in FDs, NEW piece \in Pieces, OnLastPiece(fd, piece)  PROVE TypeInv'
  <2> DEFINE data == session[fd].data \o piece
             to == session[fd].first
  <2>1. session[fd] \in Session /\ piece \in Seq(Symbols)
    BY PieceSymbols
  <2>2. data \in Seq(STRING)
    <3>1. data \in Seq(Symbols)
      BY <2>1, ConcatProperties DEF Session
    <3> HIDE DEF data
    <3> QED  BY <3>1, PieceSymbols, SeqSubset
  <2>3. session' \in [FDs -> Session]
    <3>1. \/ session' = session
          \/ session' = [session EXCEPT ![fd].data = <<>>, ![fd].mailTo = <<>>]
      BY <1>7 DEF OnLastPiece
    <3>2. [session[fd] EXCEPT !.data = <<>>, !.mailTo = <<>>] \in Session
      BY <2>1, EndedType
    <3>3. session \in [FDs -> Session]
      OBVIOUS
    <3> HIDE DEF TypeInv
    <3> QED  BY <3>1, <3>2, <3>3
  <2>4. mailbox' \in [Files -> Seq(STRING)] /\ crashed' \in BOOLEAN
    <3>1. /\ mailbox' = mailbox \/ mailbox' = Saved(to, data)
          /\ crashed' \in BOOLEAN
      BY <1>7 DEF OnLastPiece
    <3> HIDE DEF data, to
    <3>2. CASE to \in Files
      <4>1. data \o SubSeq(mailbox[to], Len(data) + 1, Len(mailbox[to])) \in Seq(STRING)
        BY <2>2, <3>2, SavedPrefix
      <4>2. mailbox \in [Files -> Seq(STRING)]
        OBVIOUS
      <4> HIDE DEF TypeInv
      <4>3. Saved(to, data) = [mailbox EXCEPT ![to] =
              data \o SubSeq(mailbox[to], Len(data) + 1, Len(mailbox[to]))]
        BY <3>2, <4>2 DEF Saved
      <4> QED  BY <3>1, <4>1, <4>2, <4>3
    <3>3. CASE to \notin Files
      BY <3>1, <3>3 DEF Saved
    <3> QED  BY <3>2, <3>3
  <2> HIDE DEF data, to
  <2>5. /\ status' = [status EXCEPT ![fd] = "GREETINGS"]
        /\ reply' = [reply EXCEPT ![fd] = 250]
        /\ typed' = [typed EXCEPT ![fd] = <<>>] /\ named' = [named EXCEPT ![fd] = <<>>]
        /\ UNCHANGED <<open, inherited, closing>>
    BY <1>7 DEF OnLastPiece
  <2> QED  BY <1>0, <2>3, <2>4, <2>5 DEF States
<1> QED  BY <1>1, <1>2, <1>3, <1>4, <1>5, <1>6, <1>7 DEF Next

-----------------------------------------------------------------------------
(* The dialogue. *)

\* A number of which nothing changes keeps what is said of it.
Same(fd) ==
  /\ status'[fd] = status[fd] /\ session'[fd] = session[fd]
  /\ named'[fd] = named[fd] /\ typed'[fd] = typed[fd]
  /\ fd \in open' <=> fd \in open
  /\ fd \in inherited' <=> fd \in inherited

LEMMA SameKeeps ==
  ASSUME NEW fd \in FDs, Same(fd)
  PROVE  (Pending(fd) => Pending(fd)') /\ (Dialogue(fd) => Dialogue(fd)')
BY DEF Same, Pending, Dialogue

\* What an action does to the number it is about.
DialogueStep(fd) ==
  /\ Pending(fd)'
  /\ ~crashed' /\ fd \notin inherited' => Dialogue(fd)'

LEMMA ConnectStep ==
  ASSUME IInv, ~crashed, NEW fd \in FDs, Connect(fd)
  PROVE  DialogueStep(fd) /\ \A g \in FDs \ {fd} : Same(g)
<1>1. /\ status'[fd] = "HELLO" /\ session' = session /\ named'[fd] = <<>>
      /\ typed'[fd] = <<>> /\ fd \notin open /\ fd \in open'
      /\ inherited' = inherited
  BY DEF Connect, IInv, TypeInv
<1>2. Pending(fd)'
  BY <1>1 DEF IInv, Pending
<1>3. fd \notin inherited' => Dialogue(fd)'
  BY <1>1 DEF IInv, Dialogue, NewSession
<1>4. \A g \in FDs \ {fd} : Same(g)
  BY DEF Connect, IInv, TypeInv, Same
<1> QED  BY <1>2, <1>3, <1>4 DEF DialogueStep

LEMMA DisconnectStep ==
  ASSUME IInv, NEW fd \in FDs, Disconnect(fd)
  PROVE  DialogueStep(fd) /\ \A g \in FDs \ {fd} : Same(g)
<1>1. session'[fd] = NewSession /\ fd \notin open'
  BY DEF Disconnect, IInv, TypeInv
<1>2. Pending(fd)' /\ Dialogue(fd)'
  <2>1. session'[fd].data = <<>>
    BY <1>1 DEF NewSession
  <2> QED  BY <1>1, <2>1, EmptyNotEnded DEF Pending, Dialogue
<1>3. \A g \in FDs \ {fd} : Same(g)
  BY DEF Disconnect, IInv, TypeInv, Same
<1> QED  BY <1>2, <1>3 DEF DialogueStep

LEMMA CloseStep ==
  ASSUME IInv, NEW fd \in FDs, Close(fd)
  PROVE  DialogueStep(fd) /\ \A g \in FDs \ {fd} : Same(g)
BY DEF Close, IInv, TypeInv, Same, DialogueStep, Pending

LEMMA CommandStep ==
  ASSUME IInv, ~crashed, NEW fd \in FDs, NEW line \in Lines, OnCommand(fd, line)
  PROVE  DialogueStep(fd) /\ \A g \in FDs \ {fd} : Same(g)
<1> DEFINE state == StateAfter(fd, Command[line])
           arg == Argument[line]
           old == session[fd]
           new == CASE state = "HELLO" -> [old EXCEPT !.Host = arg]
                    [] state = "MAIL_FROM" -> [old EXCEPT !.mailFrom = arg]
                    [] state = "MAIL_RCPT" ->
                         [old EXCEPT !.mailTo = Append(@, arg),
                                     !.first = IF old.mailTo = <<>> THEN arg ELSE @]
                    [] OTHER -> old
<1>1. /\ fd \in open /\ open' = open /\ inherited' = inherited /\ status[fd] # "MAIL_DATA"
      /\ status'[fd] = state /\ session'[fd] = new /\ typed'[fd] = <<>>
      /\ named'[fd] = IF Command[line] = "rcpt" THEN Append(named[fd], arg) ELSE named[fd]
  <2>1. /\ status \in [FDs -> States] /\ session \in [FDs -> Session]
        /\ named \in [FDs -> Seq(Names)] /\ typed \in [FDs -> Seq(Symbols)]
    BY DEF IInv, TypeInv
  <2>2. /\ fd \in open /\ open' = open /\ inherited' = inherited /\ status[fd] # "MAIL_DATA"
        /\ status' = [status EXCEPT ![fd] = state]
        /\ session' = [session EXCEPT ![fd] = new]
        /\ typed' = [typed EXCEPT ![fd] = <<>>]
        /\ named' = [named EXCEPT ![fd] =
                       IF Command[line] = "rcpt" THEN Append(@, arg) ELSE @]
    BY DEF OnCommand, Serves
  <2> HIDE DEF state, arg, new
  <2> QED  BY <2>1, <2>2
<1>2. /\ Command[line] = "rcpt" => state = "MAIL_RCPT"
      /\ state = "MAIL_RCPT" => Command[line] = "rcpt" \/ status[fd] = "MAIL_RCPT"
      /\ state = "GREETINGS" => status[fd] = "GREETINGS"
  BY DEF StateAfter
<1>3. arg \in Names \ {Nobody} /\ old \in Session /\ named[fd] \in Seq(Names)
  BY ArgumentNames DEF IInv, TypeInv
<1> HIDE DEF state, arg
<1>4. /\ new.data = old.data
      /\ state # "MAIL_RCPT" => new.mailTo = old.mailTo /\ new.first = old.first
      /\ state = "MAIL_RCPT" =>
           /\ new.mailTo = Append(old.mailTo, arg) /\ new.mailTo # <<>>
           /\ new.first = IF old.mailTo = <<>> THEN arg ELSE old.first
  <2>1. Append(old.mailTo, arg) # <<>>
    BY <1>3, AppendProperties DEF Session
  <2>2. CASE state = "MAIL_RCPT"
    BY <1>3, <2>1, <2>2 DEF Session
  <2>3. CASE state # "MAIL_RCPT"
    BY <1>3, <2>3 DEF Session
  <2> QED  BY <2>2, <2>3
<1> HIDE DEF old, new
<1>5. Pending(fd)'
  <2>1. ~Ended(old.data) /\ (status[fd] # "GREETINGS" \/ old.mailTo = <<>>)
    BY <1>1 DEF IInv, Pending, old
  <2> QED  BY <1>1, <1>2, <1>4, <2>1 DEF Pending
<1>6. ASSUME fd \notin inherited  PROVE Dialogue(fd)'
  <2>1. /\ old.mailTo = <<>> <=> named[fd] = <<>>
        /\ named[fd] # <<>> => old.first = Head(named[fd])
        /\ status[fd] = "MAIL_RCPT" => named[fd] # <<>>
        /\ old.data = <<>>
    BY <1>1, <1>6 DEF IInv, Dialogue, old
  <2>2. new.data = IF state = "MAIL_DATA" THEN typed'[fd] ELSE <<>>
    BY <1>1, <1>4, <2>1
  <2>3. CASE Command[line] = "rcpt"
    <3>1. named'[fd] = Append(named[fd], arg) /\ named'[fd] # <<>>
      BY <1>1, <1>3, <2>3, AppendProperties
    <3>2. Head(named'[fd]) = IF named[fd] = <<>> THEN arg ELSE Head(named[fd])
      BY <1>3, <3>1, HeadTailAppend
    <3>3. new.mailTo # <<>> /\ new.first = Head(named'[fd])
      BY <1>2, <1>4, <2>1, <2>3, <3>2
    <3> QED  BY <1>1, <2>2, <3>1, <3>3 DEF Dialogue
  <2>4. CASE Command[line] # "rcpt"
    <3>1. named'[fd] = named[fd]
      BY <1>1, <2>4
    <3>2. CASE state = "MAIL_RCPT"
      <4>1. named[fd] # <<>> /\ old.mailTo # <<>> /\ new.mailTo # <<>> /\ new.first = old.first
        BY <1>2, <1>4, <2>1, <2>4, <3>2
      <4> QED  BY <1>1, <2>1, <2>2, <3>1, <4>1 DEF Dialogue
    <3>3. CASE state # "MAIL_RCPT"
      BY <1>1, <1>4, <2>1, <2>2, <3>1, <3>3 DEF Dialogue
    <3> QED  BY <3>2, <3>3
  <2> QED  BY <2>3, <2>4
<1>7. \A g \in FDs \ {fd} : Same(g)
  <2>1. \E n : session' = [session EXCEPT ![fd] = n]
    BY DEF OnCommand
  <2>2. \E n : named' = [named EXCEPT ![fd] = n]
    BY DEF OnCommand
  <2>3. \E n : status' = [status EXCEPT ![fd] = n]
    BY DEF OnCommand
  <2>4. typed' = [typed EXCEPT ![fd] = <<>>]
    BY DEF OnCommand
  <2> QED  BY <1>1, <2>1, <2>2, <2>3, <2>4 DEF IInv, TypeInv, Same
<1> QED  BY <1>1, <1>5, <1>6, <1>7 DEF DialogueStep

LEMMA PieceStep ==
  ASSUME IInv, ~crashed, NEW fd \in FDs, NEW piece \in Pieces, OnPiece(fd, piece)
  PROVE  DialogueStep(fd) /\ \A g \in FDs \ {fd} : Same(g)
<1>1. /\ fd \in open /\ open' = open /\ inherited' = inherited /\ status' = status
      /\ status[fd] = "MAIL_DATA" /\ named' = named
      /\ typed'[fd] = typed[fd] \o piece
      /\ ~Ended(session[fd].data \o piece)
  BY DEF OnPiece, Serves, IInv, TypeInv
<1>2. /\ session'[fd].data = session[fd].data \o piece
      /\ session'[fd].mailTo = session[fd].mailTo
      /\ session'[fd].first = session[fd].first
  <2>1. session[fd] \in Session /\ session \in [FDs -> Session]
    BY DEF IInv, TypeInv
  <2>2. session' = [session EXCEPT ![fd].data = @ \o piece]
    BY DEF OnPiece
  <2> QED  BY <2>1, <2>2 DEF Session
<1>3. Pending(fd)'
  BY <1>1, <1>2 DEF Pending
<1>4. ASSUME fd \notin inherited  PROVE Dialogue(fd)'
  <2>1. Dialogue(fd)
    BY <1>4 DEF IInv
  <2> QED  BY <1>1, <1>2, <2>1 DEF Dialogue
<1>5. \A g \in FDs \ {fd} : Same(g)
  BY <1>1 DEF OnPiece, IInv, TypeInv, Same
<1> QED  BY <1>1, <1>3, <1>4, <1>5 DEF DialogueStep

LEMMA LastPieceStep ==
  ASSUME IInv, ~crashed, NEW fd \in FDs, NEW piece \in Pieces, OnLastPiece(fd, piece)
  PROVE  DialogueStep(fd) /\ \A g \in FDs \ {fd} : Same(g)
<1>1. /\ fd \in open /\ open' = open /\ inherited' = inherited
      /\ status'[fd] = "GREETINGS" /\ named'[fd] = <<>> /\ typed'[fd] = <<>>
  BY DEF OnLastPiece, Serves, IInv, TypeInv
<1>2. session \in [FDs -> Session] /\ session[fd] \in Session
  BY DEF IInv, TypeInv
<1>3. CASE crashed' /\ session' = session /\ session[fd].mailTo = <<>>
  <2>1. Pending(fd)'
    BY <1>1, <1>3 DEF Pending, IInv
  <2> QED  BY <1>1, <1>3, <2>1 DEF DialogueStep, Same, OnLastPiece, IInv, TypeInv
<1>4. CASE session' = [session EXCEPT ![fd].data = <<>>, ![fd].mailTo = <<>>]
  <2>1. session'[fd].data = <<>> /\ session'[fd].mailTo = <<>>
    BY <1>2, <1>4 DEF Session
  <2>2. Pending(fd)' /\ Dialogue(fd)'
    BY <1>1, <2>1, EmptyNotEnded DEF Pending, Dialogue
  <2>3. \A g \in FDs \ {fd} : session'[g] = session[g]
    BY <1>2, <1>4
  <2>4. \A g \in FDs \ {fd} : Same(g)
    BY <1>1, <2>3 DEF Same, OnLastPiece, IInv, TypeInv
  <2> QED  BY <2>2, <2>4 DEF DialogueStep
<1> QED  BY <1>3, <1>4 DEF OnLastPiece

LEMMA IInvStep == IInv /\ [Next]_vars => IInv'
<1> SUFFICES ASSUME IInv, [Next]_vars  PROVE IInv'
  OBVIOUS
<1>1. TypeInv'
  BY TypeStep DEF IInv
<1>2. CASE UNCHANGED vars
  <2>1. (\A fd \in FDs : Same(fd)) /\ crashed' = crashed /\ inherited' = inherited
    BY <1>2 DEF vars, Same
  <2> QED  BY <1>1, <2>1, SameKeeps DEF IInv
<1>3. CASE Next
  <2>1. ~crashed
    BY <1>3 DEF Next
  <2>2. PICK fd \in FDs : DialogueStep(fd) /\ \A g \in FDs \ {fd} : Same(g)
    BY <1>3, <2>1, ConnectStep, DisconnectStep, CloseStep, CommandStep, PieceStep,
       LastPieceStep DEF Next
  <2>3. ASSUME NEW g \in FDs
        PROVE  Pending(g)' /\ (~crashed' /\ g \notin inherited' => Dialogue(g)')
    <3>1. CASE g = fd
      BY <2>2, <3>1 DEF DialogueStep
    <3>2. CASE g # fd
      <4>1. Same(g)
        BY <2>2, <3>2
      <4>2. g \notin inherited' => g \notin inherited
        BY <4>1 DEF Same
      <4> QED  BY <2>1, <4>1, <4>2, SameKeeps DEF IInv
    <3> QED  BY <3>1, <3>2
  <2> QED  BY <1>1, <2>3 DEF IInv
<1> QED  BY <1>2, <1>3

LEMMA Invariance == Spec => []IInv
BY InitIInv, IInvStep, PTL DEF Spec

\* Every variable keeps its type; what waits for its end has not got one, and who
\* starts anew has no recipients.
THEOREM TypeCorrect == Spec => []TypeOK
<1>1. IInv => TypeOK
  <2> SUFFICES ASSUME IInv  PROVE TypeOK
    OBVIOUS
  <2>1. ASSUME NEW fd \in FDs
        PROVE  /\ {session[fd].Host, session[fd].mailFrom, session[fd].first} \subseteq Names
               /\ Range(session[fd].mailTo) \subseteq Names \ {Nobody}
               /\ Range(session[fd].data) \subseteq Symbols
    <3>1. session[fd] \in Session
      BY DEF IInv, TypeInv
    <3>2. ASSUME NEW S, NEW s \in Seq(S)  PROVE Range(s) \subseteq S
      BY ElementOfSeq, LenProperties DEF Range
    <3> QED  BY <3>1, <3>2 DEF Session
  <2>2. DOMAIN mailbox = Files
    BY DEF IInv, TypeInv
  <2> QED  BY <2>1, <2>2 DEF IInv, TypeInv, TypeOK, Pending
<1> QED  BY <1>1, Invariance, PTL

-----------------------------------------------------------------------------
(* The ends of mails. *)

\* Only the last piece of a mail ends one, and changes the mailboxes.
LEMMA EndOfMail ==
  ASSUME IInv, [Next]_vars
  PROVE  /\ \A fd \in FDs : MailEnds(fd) =>
              ~crashed /\ \E piece \in Pieces : OnLastPiece(fd, piece)
         /\ \A to \in Files : mailbox'[to] # mailbox[to] =>
              \E fd \in FDs : \E piece \in Pieces : OnLastPiece(fd, piece)
<1>1. status \in [FDs -> States]
  BY DEF IInv, TypeInv
<1>2. CASE UNCHANGED vars
  BY <1>2 DEF vars, MailEnds
<1>3. CASE Next
  <2>1. PICK fd \in FDs :
          \/ Connect(fd) \/ Disconnect(fd) \/ Close(fd)
          \/ \E line \in Lines : OnCommand(fd, line)
          \/ \E piece \in Pieces : OnPiece(fd, piece) \/ OnLastPiece(fd, piece)
    BY <1>3 DEF Next
  <2>2. ~crashed
    BY <1>3 DEF Next
  <2>3. CASE \E piece \in Pieces : OnLastPiece(fd, piece)
    <3>1. \A g \in FDs \ {fd} : status'[g] = status[g]
      BY <1>1, <2>3 DEF OnLastPiece
    <3>2. \A g \in FDs : MailEnds(g) => g = fd
      BY <3>1 DEF MailEnds
    <3> QED  BY <2>2, <2>3, <3>2
  <2>4. CASE ~\E piece \in Pieces : OnLastPiece(fd, piece)
    <3>1. mailbox' = mailbox
      BY <2>1, <2>4 DEF Connect, Disconnect, Close, OnCommand, OnPiece
    <3>2. \A g \in FDs : ~MailEnds(g)
      BY <1>1, <2>1, <2>4 DEF Connect, Disconnect, Close, OnCommand, OnPiece, MailEnds
    <3> QED  BY <3>1, <3>2
  <2> QED  BY <2>3, <2>4
<1> QED  BY <1>2, <1>3

\* What the end of a mail does to a mailbox.
LEMMA SavedMail ==
  ASSUME IInv, ~crashed, NEW fd \in FDs, NEW piece \in Pieces, OnLastPiece(fd, piece),
         mailbox' # mailbox, fd \notin inherited, NEW to \in Files
  PROVE  mailbox'[to] =
           IF to = session[fd].first
           THEN mail' \o SubSeq(mailbox[to], Len(mail') + 1, Len(mailbox[to]))
           ELSE mailbox[to]
<1>1. session[fd].data = typed[fd]
  BY DEF OnLastPiece, Serves, IInv, Dialogue
<1>2. mailbox' = Saved(session[fd].first, mail')
  BY <1>1 DEF OnLastPiece
<1>3. mailbox \in [Files -> Seq(STRING)]
  BY DEF IInv, TypeInv
<1> QED  BY <1>2, <1>3 DEF Saved

\* A mail's end puts the mail into the mailbox of the first recipient its client has
\* named, into no other, and does not end the process.
THEOREM MailReachesFirst == Spec => RightMailbox
<1>1. ASSUME IInv, [Next]_vars, NEW fd \in FDs \ inherited, MailEnds(fd), named[fd] # <<>>
      PROVE  /\ ~crashed'
             /\ \A to \in Files : IF to = Head(named[fd]) THEN IsPrefix(mail', mailbox'[to])
                                                         ELSE mailbox'[to] = mailbox[to]
  <2>1. ~crashed
    BY <1>1, EndOfMail
  <2>2. PICK piece \in Pieces : OnLastPiece(fd, piece)
    BY <1>1, EndOfMail
  <2>3. /\ session[fd].mailTo # <<>> /\ session[fd].first = Head(named[fd])
        /\ session[fd].data = typed[fd]
    BY <1>1, <2>1, <2>2 DEF OnLastPiece, Serves, IInv, Dialogue
  <2>4. /\ mailbox' = Saved(Head(named[fd]), mail') /\ crashed' = crashed
        /\ mail' = typed[fd] \o piece
    BY <2>2, <2>3 DEF OnLastPiece
  <2>5. mailbox \in [Files -> Seq(STRING)]
    BY <1>1 DEF IInv, TypeInv
  <2>6. mail' \in Seq(STRING)
    <3>1. typed[fd] \in Seq(Symbols) /\ piece \in Seq(Symbols)
      BY <1>1, PieceSymbols DEF IInv, TypeInv
    <3>2. mail' \in Seq(Symbols)
      BY <2>4, <3>1, ConcatProperties
    <3> QED  BY <3>2, PieceSymbols, SeqSubset
  <2>7. ASSUME NEW to \in Files
        PROVE  IF to = Head(named[fd]) THEN IsPrefix(mail', mailbox'[to])
                                       ELSE mailbox'[to] = mailbox[to]
    <3>1. CASE to = Head(named[fd])
      <4>1. mailbox'[to] = mail' \o SubSeq(mailbox[to], Len(mail') + 1, Len(mailbox[to]))
        BY <2>4, <2>5, <3>1 DEF Saved
      <4>2. mailbox[to] \in Seq(STRING)
        BY <2>5, <2>7
      <4> QED  BY <2>6, <3>1, <4>1, <4>2, SavedPrefix
    <3>2. CASE to # Head(named[fd])
      BY <2>4, <2>5, <2>7, <3>2 DEF Saved
    <3> QED  BY <3>1, <3>2
  <2> QED  BY <2>1, <2>4, <2>7
<1>2. IInv /\ [Next]_vars =>
        \A fd \in FDs \ inherited :
          MailEnds(fd) /\ named[fd] # <<>> =>
            /\ ~crashed'
            /\ \A to \in Files : IF to = Head(named[fd]) THEN IsPrefix(mail', mailbox'[to])
                                                        ELSE mailbox'[to] = mailbox[to]
  BY <1>1
<1> QED  BY <1>2, Invariance, PTL DEF Spec, RightMailbox

\* A mailbox changes only by a mail's end, and then begins with all of that mail: what
\* its client has sent since 354, in order and from nobody else.
THEOREM MailSavedWhole == Spec => MailsWhole
<1>1. ASSUME IInv, [Next]_vars, NEW to \in Files, mailbox'[to] # mailbox[to]
      PROVE  \E fd \in FDs : MailEnds(fd) /\
               (fd \in inherited \/
                mailbox'[to] = mail' \o SubSeq(mailbox[to], Len(mail') + 1, Len(mailbox[to])))
  <2>1. PICK fd \in FDs, piece \in Pieces : OnLastPiece(fd, piece)
    BY <1>1, EndOfMail
  <2>2. MailEnds(fd)
    BY <1>1, <2>1 DEF OnLastPiece, Serves, MailEnds, IInv, TypeInv
  <2>3. ~crashed
    BY <1>1, <2>2, EndOfMail
  <2>4. fd \notin inherited =>
          mailbox'[to] = mail' \o SubSeq(mailbox[to], Len(mail') + 1, Len(mailbox[to]))
    BY <1>1, <2>1, <2>3, SavedMail
  <2> QED  BY <2>2, <2>4
<1>2. IInv /\ [Next]_vars =>
        \A to \in Files : mailbox'[to] # mailbox[to] =>
          \E fd \in FDs : MailEnds(fd) /\
            (fd \in inherited \/
             mailbox'[to] = mail' \o SubSeq(mailbox[to], Len(mail') + 1, Len(mailbox[to])))
  BY <1>1
<1> QED  BY <1>2, Invariance, PTL DEF Spec, MailsWhole
=============================================================================
