CONSTANTS
  MaxFd = 2
  MaxConns = 2
  MaxRequests = 6
  Lines <- Dialogue
  Pieces <- MailPieces
  Mailboxes <- Boxes
SPECIFICATION Spec
CHECK_DEADLOCK FALSE
INVARIANT TypeOK
PROPERTIES RightMailbox MailsWhole
