-------------------------------- MODULE MCSmtp --------------------------------
(***************************************************************************)
(* Model checking of Smtp: one mailbox that exists, another recipient that *)
(* has none, and mails that come in one piece or have their end cut in two. *)
(***************************************************************************)
EXTENDS Smtp

Line(command, argument) ==
  IF argument = "" THEN <<command, "\r", "\n">> ELSE <<command, " ", argument, "\r", "\n">>

Dialogue == {Line("mail", "c"), Line("rcpt", "a"), Line("rcpt", "b"), Line("rcpt", ""),
             Line("data", ""), Line("quit", ""), Line("noop", "c")}
MailPieces == {Line("quit", ""), <<"x", "\r", "\n">>, <<".", "\r", "\n">>,
               <<"y", "\r", "\n", ".", "\r", "\n">>}
Boxes == [box \in {"a"} |-> <<"o", "o", "o", "o", "o", "o", "o">>]
=============================================================================
