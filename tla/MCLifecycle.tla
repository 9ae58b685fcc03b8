------------------------------ MODULE MCLifecycle ------------------------------
(***************************************************************************)
(* Model checking of Lifecycle: a file for a daemon, one for a program in  *)
(* the foreground that logs, one with another pid file, one without any    *)
(* option, and the options of a run by hand.                               *)
(***************************************************************************)
EXTENDS Lifecycle

Option(property, value) == [property |-> property, value |-> value]
Library == Option("Protocol.LibraryPath", "./lib.so")

Files == {<<Library, Option("Server.Daemonize", "1"), Option("Server.Daemonize", "0")>>,
          <<Library, Option("Server.LogLevel", "1")>>,
          <<Library, Option("Server.Daemonize", "1"), Option("Server.PidFile", "/other.pid")>>,
          <<Option("Server.PidFile", "")>>}
Runs == {<<Option("daemonize", "1")>>, <<Option("d", "./config.conf"), Option("ll", "0")>>}
Loadable == {"./lib.so"}
OwnFiles == {<<>>, <<Option("UseDBAuth", "0")>>}
=============================================================================
