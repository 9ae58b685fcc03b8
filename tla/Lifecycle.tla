------------------------------- MODULE Lifecycle -------------------------------
(***************************************************************************)
(* The server as a process: how it starts from its options, becomes a      *)
(* daemon, takes the pid file and the port, serves, is told to stop and    *)
(* ends; and IkarosCtl.sh, by which an operator starts and stops it.       *)
(*                                                                         *)
(* A process is named by its pid, never given twice here; a file by the    *)
(* process that made it.  What the server does while it serves is the      *)
(* subject of the other modules.                                           *)
(***************************************************************************)
EXTENDS Config

CONSTANTS
  MaxProcs,     \* bound: processes in a behaviour
  MaxCommands,  \* bound: commands the operator gives
  ConfigFiles,  \* contents that ./config.conf may have: sequences of options
  ByHand,       \* the arguments with which the operator may run the program itself
  Libraries,    \* the library paths that can be loaded
  LibraryFiles  \* contents that the library's own file, ftp.conf, may have

ASSUME LifecycleBounds == MaxProcs \in Nat /\ MaxCommands \in Nat

Pids == 1 .. MaxProcs
ScriptFile == "/var/lock/ikaros.pid"   \* pidFile of the script, whatever the program's is
Paths == ({ScriptFile} \union {Settings(<<>>, lines).pidFile : lines \in ConfigFiles \union {<<>>}}) \ {""}

VARIABLES
  config,     \* the lines of ./config.conf
  proc,       \* the processes
  made,       \* how many there have been
  port,       \* the process whose socket is bound to the port, 0 if none
  file,       \* the pid files: a path's file, 0 if none
  content,    \* the pid in a file, 0 while it is empty
  script,     \* the script the operator is running
  commands,   \* commands so far
  overlapped  \* history: a command was given while a process was starting

vars == <<config, proc, made, port, file, content, script, commands, overlapped>>

\* wanted: history, it was to be a daemon; lfp: the pid file it has opened, and
\* locked whether it has the lock; terminate: OnLoad has called Terminate; told: the
\* thread a stop signal interrupts; log: the thread that holds writeMutex; ended:
\* why it is no more.
NoProc == [at |-> "none", set |-> Settings(<<>>, <<>>), wanted |-> FALSE, lfp |-> 0,
           locked |-> FALSE, terminate |-> FALSE, told |-> "none", log |-> "none", ended |-> "no"]
Idle == [at |-> "idle", command |-> "none", child |-> 0]
Threads == {"main", "queue"}

Init ==
  /\ config \in ConfigFiles
  /\ proc = [p \in Pids |-> NoProc] /\ made = 0 /\ port = 0
  /\ file = [path \in Paths |-> 0] /\ content = [p \in Pids |-> 0]
  /\ script = Idle /\ commands = 0 /\ overlapped = FALSE

At(p, places) == proc[p].at \in places
Starting == {"forked", "opened", "locked", "loading", "binding", "bound"}
Alive(p) == ~At(p, {"none", "dead"})

Goes(p, place) == proc' = [proc EXCEPT ![p].at = place]

\* The end of a process gives back its lock and its port.
Dead(p, why) == [proc[p] EXCEPT !.at = "dead", !.locked = FALSE, !.ended = why]
Ends(p, why) == /\ proc' = [proc EXCEPT ![p] = Dead(p, why)]
                /\ port' = IF port = p THEN 0 ELSE port

-----------------------------------------------------------------------------
(* Starting. *)

\* main and the constructor as far as Daemonize: the options.  A daemon's parent
\* exits at the fork, so the shell does not wait.
Started(args, lines) ==
  [NoProc EXCEPT !.set = Settings(args, lines),
                 !.at = IF Settings(args, lines).daemonize THEN "forked" ELSE "loading",
                 !.wanted = LET f == FileOptions(lines)  r == RunOptions(args)
                            IN  IF "daemonize" \in DOMAIN r THEN Bool(r["daemonize"])
                                ELSE /\ "d" \notin DOMAIN r /\ "Server.Daemonize" \in DOMAIN f
                                     /\ Bool(f["Server.Daemonize"])]

\* The pid file is opened, and made if it is not there; no name, no daemon.
OpenPidFile(p) ==
  /\ At(p, {"forked"})
  /\ LET path == proc[p].set.pidFile IN
     IF path = "" THEN Ends(p, "nopidfile") /\ UNCHANGED <<file, content>>
     ELSE LET inode == IF file[path] = 0 THEN p ELSE file[path] IN
          /\ proc' = [proc EXCEPT ![p].at = "opened", ![p].lfp = inode]
          /\ file' = [file EXCEPT ![path] = inode]
          /\ UNCHANGED <<content, port>>
  /\ UNCHANGED <<config, made, script, commands, overlapped>>

\* Mutant of LockPidFile: the lock is not looked at.
LockPidFileAlways(p) ==
  /\ At(p, {"opened"})
  /\ proc' = [proc EXCEPT ![p].at = "locked", ![p].locked = TRUE]
  /\ UNCHANGED <<config, made, port, file, content, script, commands, overlapped>>

\* lockf: the file's, not its name's; if another process has it this one ends.
LockPidFile(p) ==
  /\ At(p, {"opened"})
  /\ IF \E q \in Pids : proc[q].locked /\ proc[q].lfp = proc[p].lfp THEN Ends(p, "locked")
     ELSE /\ proc' = [proc EXCEPT ![p].at = "locked", ![p].locked = TRUE]
          /\ UNCHANGED port
  /\ UNCHANGED <<config, made, file, content, script, commands, overlapped>>

WritePid(p) ==
  /\ At(p, {"locked"}) /\ Goes(p, "loading")
  /\ content' = [content EXCEPT ![proc[p].lfp] = p]
  /\ UNCHANGED <<config, made, port, file, script, commands, overlapped>>

\* LoadLibrary, and OnLoad: FTP's calls Terminate if it wants the database and
\* cannot connect to it, long before there is a loop to end.
LoadLibrary(p) ==
  /\ At(p, {"loading"})
  /\ IF proc[p].set.library \notin Libraries THEN Ends(p, "library")
     ELSE /\ \E lines \in LibraryFiles, connected \in BOOLEAN :
               proc' = [proc EXCEPT ![p].at = "binding",
                                    ![p].terminate = UseDBAuth(lines) /\ ~connected]
          /\ UNCHANGED port
  /\ UNCHANGED <<config, made, file, content, script, commands, overlapped>>

InitServerSocket(p) ==
  /\ At(p, {"binding"})
  /\ IF port = 0 THEN port' = p /\ Goes(p, "bound") ELSE Ends(p, "bind")
  /\ UNCHANGED <<config, made, file, content, script, commands, overlapped>>

\* Only now do SIGTERM and SIGINT call HandleInterupt; the loop may be over already.
SetSignalHandlers(p) ==
  /\ At(p, {"bound"}) /\ Goes(p, IF proc[p].terminate THEN "unloading" ELSE "serving")
  /\ UNCHANGED <<config, made, port, file, content, script, commands, overlapped>>

-----------------------------------------------------------------------------
(* Serving, and being told to stop. *)

\* outControl holds writeMutex, if it logs at all.  A thread in the handler is in
\* no log call of its own.
LogBegins(p, thread) ==
  /\ At(p, {"serving"}) /\ proc[p].set.control /\ proc[p].log = "none" /\ proc[p].told # thread
  /\ proc' = [proc EXCEPT ![p].log = thread]
  /\ UNCHANGED <<config, made, port, file, content, script, commands, overlapped>>

LogEnds(p) ==
  /\ At(p, {"serving"}) /\ proc[p].log # "none" /\ proc[p].told # proc[p].log
  /\ proc' = [proc EXCEPT ![p].log = "none"]
  /\ UNCHANGED <<config, made, port, file, content, script, commands, overlapped>>

\* Terminate begins with outControl: in the thread that holds the mutex it never
\* comes back, in the other it waits.
HandleInterupt(p) ==
  /\ At(p, {"serving"}) /\ proc[p].told # "none"
  /\ \/ (~proc[p].set.control \/ proc[p].log = "none") /\ Goes(p, "unloading")
     \/ proc[p].set.control /\ proc[p].log = proc[p].told /\ Goes(p, "hung")
  /\ UNCHANGED <<config, made, port, file, content, script, commands, overlapped>>

\* Mutant of Unload: the port is kept to the end.
UnloadKeepsPort(p) ==
  /\ At(p, {"unloading"}) /\ Goes(p, "joining")
  /\ UNCHANGED <<config, made, port, file, content, script, commands, overlapped>>

\* OnUnload, close of the library, the sockets and the port.
Unload(p) ==
  /\ At(p, {"unloading"}) /\ Goes(p, "joining")
  /\ port' = IF port = p THEN 0 ELSE port
  /\ UNCHANGED <<config, made, file, content, script, commands, overlapped>>

\* The queue thread is joined, if it ever ends (module Dispatch).
Join(p) ==
  /\ At(p, {"joining"})
  /\ \/ Ends(p, IF proc[p].terminate THEN "library" ELSE "stopped")
     \/ Goes(p, "hung") /\ UNCHANGED port
  /\ UNCHANGED <<config, made, file, content, script, commands, overlapped>>

\* The freeze detector's assertion, or a fault.
Crash(p) ==
  /\ At(p, {"serving", "unloading", "joining"}) /\ Ends(p, "crash")
  /\ UNCHANGED <<config, made, file, content, script, commands, overlapped>>

\* SIGTERM or SIGINT: until there are handlers the end, after that a call of
\* HandleInterupt in one of the threads.
Told(p) ==
  IF At(p, Starting) THEN Ends(p, "stopped")
  ELSE /\ UNCHANGED port
       /\ IF At(p, {"serving"}) /\ proc[p].told = "none"
          THEN \E thread \in Threads : proc' = [proc EXCEPT ![p].told = thread]
          ELSE UNCHANGED proc

-----------------------------------------------------------------------------
(* IkarosCtl.sh, command by command; each looks, signals, removes and runs in *)
(* steps of its own.  "run" is the program run by hand.                       *)

Script(place) == script' = [script EXCEPT !.at = place]

Give(command) ==
  /\ script = Idle /\ commands < MaxCommands
  /\ script' = [Idle EXCEPT !.command = command, !.at = IF command = "run" THEN "exec" ELSE "test"]
  /\ commands' = commands + 1
  /\ overlapped' = (overlapped \/ \E p \in Pids : At(p, Starting))
  /\ UNCHANGED <<config, proc, made, port, file, content>>

Test ==
  /\ script.at = "test"
  /\ script' = CASE script.command = "start" ->
                      IF file[ScriptFile] # 0 THEN Idle ELSE [script EXCEPT !.at = "exec"]
                 [] file[ScriptFile] # 0 -> [script EXCEPT !.at = "kill"]
                 [] script.command = "restart" -> [script EXCEPT !.at = "exec"]
                 [] OTHER -> Idle
  /\ UNCHANGED <<config, proc, made, port, file, content, commands, overlapped>>

\* kill $(cat $pidFile): of a process that is gone, or of none, it does nothing.
Kill ==
  /\ script.at = "kill" /\ Script("rm")
  /\ LET p == content[file[ScriptFile]] IN
     IF p = 0 \/ ~Alive(p) THEN UNCHANGED <<proc, port>>
     ELSE IF script.command = "kill" THEN Ends(p, "killed") ELSE Told(p)
  /\ UNCHANGED <<config, made, file, content, commands, overlapped>>

\* Mutant of Remove: restart leaves the file to the process it starts.
RemoveOnStop ==
  /\ script.at = "rm"
  /\ file' = IF script.command = "restart" THEN file ELSE [file EXCEPT ![ScriptFile] = 0]
  /\ script' = IF script.command = "restart" THEN [script EXCEPT !.at = "exec"] ELSE Idle
  /\ UNCHANGED <<config, proc, made, port, content, commands, overlapped>>

Remove ==
  /\ script.at = "rm"
  /\ file' = [file EXCEPT ![ScriptFile] = 0]
  /\ script' = IF script.command = "restart" THEN [script EXCEPT !.at = "exec"] ELSE Idle
  /\ UNCHANGED <<config, proc, made, port, content, commands, overlapped>>

\* The program, run without arguments by the script.
Exec ==
  /\ script.at = "exec" /\ made < MaxProcs
  /\ made' = made + 1
  /\ \E args \in IF script.command = "run" THEN ByHand ELSE {<<>>} :
       \E name \in ConfigNames(args) :
         LET new == Started(args, IF name = "./config.conf" THEN config ELSE <<>>) IN
         /\ proc' = [proc EXCEPT ![made'] = new]
         /\ script' = IF new.set.daemonize THEN Idle
                      ELSE [script EXCEPT !.at = "wait", !.child = made']
  /\ UNCHANGED <<config, port, file, content, commands, overlapped>>

\* A program that is no daemon keeps the terminal, where it can be interrupted.
Return ==
  /\ script.at = "wait" /\ ~Alive(script.child) /\ script' = Idle
  /\ UNCHANGED <<config, proc, made, port, file, content, commands, overlapped>>

Interrupt ==
  /\ script.at = "wait" /\ Alive(script.child) /\ Told(script.child)
  /\ UNCHANGED <<config, made, file, content, script, commands, overlapped>>

Stopping(p) == HandleInterupt(p) \/ Unload(p) \/ Join(p)

Next ==
  \/ \E p \in Pids :
       \/ OpenPidFile(p) \/ LockPidFile(p) \/ WritePid(p) \/ LoadLibrary(p)
       \/ InitServerSocket(p) \/ SetSignalHandlers(p)
       \/ LogEnds(p) \/ Stopping(p) \/ Crash(p)
       \/ \E thread \in Threads : LogBegins(p, thread)
  \/ \E command \in {"start", "stop", "restart", "kill", "run"} : Give(command)
  \/ Test \/ Kill \/ Remove \/ Exec \/ Return \/ Interrupt

\* A process that is told to stop runs on.
Spec == Init /\ [][Next]_vars /\ \A p \in Pids : WF_vars(Stopping(p))

-----------------------------------------------------------------------------
Failures == {"crash", "bind", "library", "killed", "nopidfile", "locked"}
Places == Starting \union {"none", "serving", "unloading", "joining", "hung", "dead"}

TypeOK ==
  /\ made \in 0 .. MaxProcs /\ port \in 0 .. made /\ file \in [Paths -> 0 .. made]
  /\ content \in [Pids -> 0 .. made]
  /\ \A p \in Pids :
       /\ DOMAIN proc[p] = DOMAIN NoProc
       /\ proc[p].at \in Places /\ proc[p].told \in Threads \union {"none"}
       /\ proc[p].log \in Threads \union {"none"}
       /\ proc[p].ended \in Failures \union {"no", "stopped"}
       /\ (p > made) <=> At(p, {"none"})
       \* Who serves has the port; one file has one process's lock.
       /\ At(p, {"bound", "serving", "unloading"}) => port = p
       /\ proc[p].locked => \A q \in Pids \ {p} : proc[q].locked => proc[q].lfp # proc[p].lfp

\* The operator can reach a daemon that serves: whoever was to be one, by the
\* command line or else by the file (an option d, the name of that file too, always
\* says no), and uses the script's pid file, is named by
\* that file until he has been told to stop - if no command was given while a
\* process was still starting.
Reachable ==
  \A p \in Pids :
    At(p, {"serving"}) /\ proc[p].wanted /\ proc[p].set.pidFile = ScriptFile
      /\ proc[p].told = "none" /\ ~overlapped
    => file[ScriptFile] # 0 /\ content[file[ScriptFile]] = p

\* When the operator may give a command, the pid file, which makes start refuse,
\* is that of a process which lives, starts, or came to an end of its own: by a crash,
\* or because the port, the library or its database was not to be had.  A stop
\* leaves no file.
StaleOnlyAfterFailure ==
  script = Idle /\ file[ScriptFile] # 0 =>
    LET p == content[file[ScriptFile]] IN
    \/ p = 0 /\ \E q \in Pids : At(q, {"opened", "locked"})
    \/ p # 0 /\ (Alive(p) \/ proc[p].ended \in {"crash", "bind", "library"})

\* The process that has the port does not log, and has been told to stop.
PortAwaited == port # 0 /\ proc[port].told # "none" /\ ~proc[port].set.control

\* A process that does not log and is told to stop gives the port back, though it
\* may then wait for its queue thread for ever.
PortReturned == PortAwaited ~> ~PortAwaited
=============================================================================
