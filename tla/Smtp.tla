--------------------------------- MODULE Smtp ---------------------------------
(***************************************************************************)
(* The SMTP library: the dialogue of processRecieve (Protocol/SMTP) with   *)
(* the clients of several descriptors, one request at a time on the queue  *)
(* thread, and the mailboxes, files named by the recipients, they share.   *)
(*                                                                         *)
(* A request is a sequence of symbols: words, " ", "\r", "\n", "."; it is  *)
(* what one recv returned, a whole command line or any piece of a mail.    *)
(* An address stands for what a mailer puts in brackets.  The numbers of   *)
(* descriptors and the order of events are module Connections's subject.   *)
(***************************************************************************)
EXTENDS BinData

CONSTANTS
  MaxFd,        \* bound: descriptors clients have
  MaxConns,     \* bound: connections in a behaviour
  MaxRequests,  \* bound: requests in a behaviour
  Lines,        \* the command lines clients send
  Pieces,       \* the pieces of mail they send
  Mailboxes     \* the files there are, with their contents

ASSUME SmtpBounds == {MaxFd, MaxConns, MaxRequests} \subseteq Nat
ASSUME LinesEnd == \A line \in Lines : Len(line) > 0 /\ Last(line) = "\n"
ASSUME TextsAssumption ==
  Pieces \subseteq Seq(STRING) /\ Mailboxes \in [DOMAIN Mailboxes -> Seq(STRING)]

FDs == 1 .. MaxFd
States == {"GREETINGS", "HELLO", "MAIL_FROM", "MAIL_RCPT", "MAIL_DATA", "QUIT"}
Nobody == "nobody"
Anything == "anything"  \* a word that is not what anybody sent

VARIABLES
  open,      \* descriptors with a client
  closing,   \* descriptors QUIT has queued for closing
  status,    \* sessionStatus, "GREETINGS" where there is no entry
  session,   \* sessionData
  mailbox,   \* the files
  reply,     \* the last reply on a descriptor
  crashed,   \* the process has died
  conns,     \* connections so far
  requests,  \* requests so far
  inherited, \* history: descriptors whose session is that of a client who quit
  named,     \* history: whom the client has named since its last mail ended
  typed,     \* history: what the client has sent since 354
  mail       \* history: the last mail that has been ended

vars == <<open, closing, status, session, mailbox, reply, crashed, conns, requests,
          inherited, named, typed, mail>>

\* SMTPSessionData; `first' is the memory of mailTo[0], which clear() leaves.
NewSession == [Host |-> Nobody, mailFrom |-> Nobody, mailTo |-> <<>>, first |-> Nobody,
               data |-> <<>>]

Init ==
  /\ open = {} /\ closing = {} /\ conns = 0 /\ requests = 0 /\ crashed = FALSE
  /\ status = [fd \in FDs |-> "GREETINGS"] /\ session = [fd \in FDs |-> NewSession]
  /\ mailbox = Mailboxes /\ reply = [fd \in FDs |-> 0]
  /\ named = [fd \in FDs |-> <<>>] /\ typed = [fd \in FDs |-> <<>>]
  /\ inherited = {} /\ mail = <<>>

-----------------------------------------------------------------------------
(* Connections. *)

\* processConnect, of a client with the lowest free number: a status of its own, but
\* whatever session the number has.
Connect(fd) ==
  /\ fd \notin open /\ 1 .. (fd - 1) \subseteq open /\ conns < MaxConns
  /\ open' = open \union {fd} /\ conns' = conns + 1
  /\ status' = [status EXCEPT ![fd] = "HELLO"] /\ reply' = [reply EXCEPT ![fd] = 220]
  /\ named' = [named EXCEPT ![fd] = <<>>] /\ typed' = [typed EXCEPT ![fd] = <<>>]
  /\ UNCHANGED <<closing, session, mailbox, crashed, requests, inherited, mail>>

\* Mutant of Disconnect: the session is kept.
DisconnectKeeps(fd) ==
  /\ fd \in open \ closing
  /\ open' = open \ {fd}
  /\ status' = [status EXCEPT ![fd] = "GREETINGS"]
  /\ inherited' = inherited \ {fd}
  /\ UNCHANGED <<closing, session, mailbox, reply, crashed, conns, requests, named, typed, mail>>

\* The client hangs up: processDisconnect.
Disconnect(fd) ==
  /\ fd \in open \ closing
  /\ open' = open \ {fd}
  /\ status' = [status EXCEPT ![fd] = "GREETINGS"]
  /\ session' = [session EXCEPT ![fd] = NewSession]
  /\ inherited' = inherited \ {fd}
  /\ UNCHANGED <<closing, mailbox, reply, crashed, conns, requests, named, typed, mail>>

\* The main thread closes what QUIT has queued, and posts no event for it.
Close(fd) ==
  /\ fd \in closing
  /\ open' = open \ {fd} /\ closing' = closing \ {fd}
  /\ inherited' = inherited \union {fd}
  /\ UNCHANGED <<status, session, mailbox, reply, crashed, conns, requests, named, typed, mail>>

-----------------------------------------------------------------------------
(* Requests. *)

Blank == {" ", "\r", "\n"}

\* trim
Trimmed(word) ==
  LET kept == {i \in DOMAIN word : word[i] \notin Blank}
  IN  IF kept = {} THEN <<>>
      ELSE SubSeq(word, CHOOSE i \in kept : \A j \in kept : i <= j,
                        CHOOSE i \in kept : \A j \in kept : i >= j)

\* The command, a line's first word, and its argument, the second; without one,
\* what is read is whatever the stack holds.
Buffer(line) == write(NewBuffer, line)
Command == [line \in Lines |-> Head(Trimmed(extract(Buffer(line)).word))]
Argument ==
  [line \in Lines |->
     LET rest == extract(Buffer(line)).buffer
     IN  IF _find(rest, "\n") = maxpos THEN Anything ELSE Head(Trimmed(extract(rest).word))]

\* No client sends the word that stands for no recipient.
ASSUME NobodyAssumption == \A line \in Lines : Argument[line] # Nobody

\* The state a command leads to: an unknown one leaves it as it was, and what that
\* state does is done again.
StateAfter(fd, command) ==
  CASE command = "helo" -> "HELLO" [] command = "mail" -> "MAIL_FROM"
    [] command = "rcpt" -> "MAIL_RCPT" [] command = "data" -> "MAIL_DATA"
    [] command = "quit" -> "QUIT" [] OTHER -> status[fd]

Serves(fd, request) ==
  /\ fd \in open /\ requests < MaxRequests
  /\ requests' = requests + 1
  /\ UNCHANGED <<open, conns, inherited>>

Answer(fd, code) == reply' = [reply EXCEPT ![fd] = code]

OnCommand(fd, line) ==
  /\ status[fd] # "MAIL_DATA" /\ Serves(fd, line)
  /\ LET state == StateAfter(fd, Command[line])  arg == Argument[line] IN
     /\ status' = [status EXCEPT ![fd] = state]
     /\ closing' = IF state = "QUIT" THEN closing \union {fd} ELSE closing
     /\ session' = [session EXCEPT ![fd] =
          CASE state = "HELLO" -> [@ EXCEPT !.Host = arg]
            [] state = "MAIL_FROM" -> [@ EXCEPT !.mailFrom = arg]
            [] state = "MAIL_RCPT" ->
                 [@ EXCEPT !.mailTo = Append(@, arg),
                           !.first = IF session[fd].mailTo = <<>> THEN arg ELSE @]
            [] OTHER -> @]
     /\ named' = [named EXCEPT ![fd] = IF Command[line] = "rcpt" THEN Append(@, arg) ELSE @]
     /\ typed' = [typed EXCEPT ![fd] = <<>>]
     /\ CASE state \in {"HELLO", "MAIL_FROM", "MAIL_RCPT"} -> Answer(fd, 250)
          [] state = "MAIL_DATA" -> Answer(fd, 354)
          [] state \in {"GREETINGS", "QUIT"} -> UNCHANGED reply
  /\ UNCHANGED <<mailbox, crashed, mail>>

End == <<"\r", "\n", ".", "\r", "\n">>
Ended(data) == \E i \in 0 .. (Len(data) - Len(End)) : SubSeq(data, i + 1, i + Len(End)) = End

\* MAIL_DATA: a piece that does not end the mail, however it was cut.
OnPiece(fd, piece) ==
  /\ status[fd] = "MAIL_DATA" /\ Serves(fd, piece)
  /\ ~Ended(session[fd].data \o piece)
  /\ session' = [session EXCEPT ![fd].data = @ \o piece]
  /\ typed' = [typed EXCEPT ![fd] = @ \o piece]
  /\ UNCHANGED <<closing, status, mailbox, reply, crashed, named, mail>>

\* SaveToFile: a file that is there is written over from its beginning; one that
\* is not there is not made.
Saved(to, data) ==
  IF to \in DOMAIN mailbox
  THEN [mailbox EXCEPT ![to] = data \o SubSeq(@, Len(data) + 1, Len(@))] ELSE mailbox

\* Mutant of OnLastPiece: the recipients are kept for the next mail.
OnLastPieceKeeps(fd, piece) ==
  /\ status[fd] = "MAIL_DATA" /\ Serves(fd, piece)
  /\ Ended(session[fd].data \o piece)
  /\ LET data == session[fd].data \o piece  to == session[fd].first IN
     /\ to # Nobody
     /\ mailbox' = Saved(to, data) /\ crashed' = crashed
     /\ session' = [session EXCEPT ![fd].data = <<>>]
  /\ status' = [status EXCEPT ![fd] = "GREETINGS"] /\ Answer(fd, 250)
  /\ mail' = typed[fd] \o piece
  /\ typed' = [typed EXCEPT ![fd] = <<>>] /\ named' = [named EXCEPT ![fd] = <<>>]
  /\ UNCHANGED closing

\* The end of the mail: all of it goes to mailTo[0].  Without a recipient that is
\* the memory of an earlier one, if anything.
OnLastPiece(fd, piece) ==
  /\ status[fd] = "MAIL_DATA" /\ Serves(fd, piece)
  /\ Ended(session[fd].data \o piece)
  /\ LET data == session[fd].data \o piece  to == session[fd].first IN
     \/ /\ session[fd].mailTo = <<>> /\ crashed' = TRUE
        /\ UNCHANGED <<mailbox, session>>
     \/ /\ session[fd].mailTo # <<>> \/ to # Nobody
        /\ mailbox' = Saved(to, data) /\ crashed' = crashed
        /\ session' = [session EXCEPT ![fd].data = <<>>, ![fd].mailTo = <<>>]
  /\ status' = [status EXCEPT ![fd] = "GREETINGS"] /\ Answer(fd, 250)
  /\ mail' = typed[fd] \o piece
  /\ typed' = [typed EXCEPT ![fd] = <<>>] /\ named' = [named EXCEPT ![fd] = <<>>]
  /\ UNCHANGED closing

Next ==
  /\ ~crashed
  /\ \E fd \in FDs :
       \/ Connect(fd) \/ Disconnect(fd) \/ Close(fd)
       \/ \E line \in Lines : OnCommand(fd, line)
       \/ \E piece \in Pieces : OnPiece(fd, piece) \/ OnLastPiece(fd, piece)

Spec == Init /\ [][Next]_vars

-----------------------------------------------------------------------------
Files == DOMAIN Mailboxes
Names == Files \union {Nobody, Anything} \union Range(Argument)
Symbols == UNION {Range(piece) : piece \in Pieces}

TypeOK ==
  /\ closing \subseteq open /\ open \subseteq FDs /\ inherited \subseteq FDs
  /\ status \in [FDs -> States]
  /\ \A fd \in FDs :
       /\ {session[fd].Host, session[fd].mailFrom, session[fd].first} \subseteq Names
       /\ Range(session[fd].mailTo) \subseteq Names \ {Nobody}
       /\ Range(session[fd].data) \subseteq Symbols
       \* What waits for its end has not got one.
       /\ ~Ended(session[fd].data)
       /\ fd \in open => status[fd] # "GREETINGS" \/ session[fd].mailTo = <<>>
  /\ reply \in [FDs -> {0, 220, 250, 354}] /\ DOMAIN mailbox = Files

MailEnds(fd) == /\ fd \in open /\ fd \in open'
                /\ status[fd] = "MAIL_DATA" /\ status'[fd] = "GREETINGS"

\* The end of a mail puts it into the mailbox of the first recipient its client has
\* named, if there is one, touches no other, and does not bring the process down - if
\* the client named anybody, and has not inherited the session of one that quit.
RightMailbox ==
  [][\A fd \in FDs \ inherited :
       MailEnds(fd) /\ named[fd] # <<>> =>
         /\ ~crashed'
         /\ \A to \in Files : IF to = Head(named[fd]) THEN IsPrefix(mail', mailbox'[to])
                                                     ELSE mailbox'[to] = mailbox[to]]_vars

\* Mailboxes change only by a mail's end, and then hold, from their beginning, that
\* mail: all that its client sent since 354, in order and from no other client,
\* before what is left of the old contents.
MailsWhole ==
  [][\A to \in Files : mailbox'[to] # mailbox[to] =>
       \E fd \in FDs : MailEnds(fd) /\
         (fd \in inherited \/
          mailbox'[to] = mail' \o SubSeq(mailbox[to], Len(mail') + 1, Len(mailbox[to])))]_vars
=============================================================================
