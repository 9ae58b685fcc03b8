-------------------------------- MODULE Config --------------------------------
(***************************************************************************)
(* The options a server runs with: command line, configuration file and    *)
(* defaults, as Application's constructor reads them (Application.cpp) and *)
(* as the libraries read theirs with ConfigMgr.                            *)
(*                                                                         *)
(* args and lines are sequences of [property, value], what is left of the  *)
(* arguments and of the lines of a file without dashes, blanks and comments *)
(***************************************************************************)
EXTENDS Integers, Sequences, TLC

\* A map: insert keeps what is there, so the first of two wins.
FirstOf(pairs) ==
  [property \in {pairs[i].property : i \in DOMAIN pairs} |->
     LET at == {i \in DOMAIN pairs : pairs[i].property = property}
     IN  pairs[CHOOSE i \in at : \A j \in at : i <= j].value]

RunOptions(args) == FirstOf(args)
FileOptions(lines) ==
  FirstOf(SelectSeq(lines, LAMBDA line : line.property # "" /\ line.value # ""))

\* operator >> of a text into a number or a bool: what is no number gives 0 and FALSE.
Number(text) == IF text \in {"0", "1", "2", "3", "4"}
                THEN CHOOSE n \in 0 .. 4 : ToString(n) = text ELSE 0
Bool(text) == Number(text) # 0

\* The name of the configuration file.  The option d is taken for it; the pointer
\* outlives the string, so what it names may be that of a later argument, or nothing.
NoFile == "nofile"
ConfigNames(args) ==
  LET ds == {i \in DOMAIN args : args[i].property = "d"}
  IN  IF ds = {} THEN {"./config.conf"}
      ELSE {NoFile} \union {args[i].value : i \in {j \in DOMAIN args : \E d \in ds : d <= j}}

-----------------------------------------------------------------------------
(* Application: without any option in the file there are no defaults either. *)

LoadConfig(f, name, default, zero) ==
  IF DOMAIN f = {} THEN zero ELSE IF name \in DOMAIN f THEN f[name] ELSE default

\* Mutant of LoadRunConfig: the file goes first.
LoadRunConfigLast(r, name, short, loaded) ==
  IF loaded # "" THEN loaded
  ELSE IF name \in DOMAIN r THEN r[name] ELSE IF short \in DOMAIN r THEN r[short] ELSE loaded

\* The long name goes before the short one, and either before the file.
LoadRunConfig(r, name, short, loaded) ==
  IF name \in DOMAIN r THEN r[name] ELSE IF short \in DOMAIN r THEN r[short] ELSE loaded

\* LoadConfigs and ParseParams.  control is what outControl looks at: log levels
\* other than 1, 2 and 3 set nothing.
Settings(args, lines) ==
  LET f == FileOptions(lines)  r == RunOptions(args)
      level == LoadRunConfig(r, "loglevel", "ll", LoadConfig(f, "Server.LogLevel", "0", "0"))
  IN  [daemonize |-> Bool(LoadRunConfig(r, "daemonize", "d",
                                        LoadConfig(f, "Server.Daemonize", "0", "0"))),
       pidFile |-> LoadConfig(f, "Server.PidFile", "/var/lock/ikaros.pid", ""),
       control |-> Number(level) \in 1 .. 3,
       library |-> LoadConfig(f, "Protocol.LibraryPath", "", "")]
-----------------------------------------------------------------------------
(* ConfigMgr: a library's own file, where an option that is absent has its  *)
(* default even if there is none at all.                                    *)

\* The constructor reads the file as Application's does.
OwnOptions(lines) == FileOptions(lines)

\* LoadIntConfig, LoadStringConfig, LoadBoolConfig.
LoadFileConfig(f, name, default) == IF name \in DOMAIN f THEN f[name] ELSE default

\* FTP's LoadConfigs, as far as the rest of its OnLoad asks.
UseDBAuth(lines) == Bool(LoadFileConfig(OwnOptions(lines), "UseDBAuth", "1"))
=============================================================================
