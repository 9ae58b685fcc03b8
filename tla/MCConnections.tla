--------------------------- MODULE MCConnections ---------------------------
(***************************************************************************)
(* Model checking of Connections: the libraries of a run.                  *)
(***************************************************************************)
EXTENDS Connections

OnlyHttp    == {"http"}
WithQuit    == {"smtp", "ftp"}
=============================================================================
