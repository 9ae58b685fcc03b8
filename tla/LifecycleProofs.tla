--------------------------- MODULE LifecycleProofs ---------------------------
(***************************************************************************)
(* Proofs about Lifecycle for any number of processes and commands, any    *)
(* configuration files and arguments: type correctness, that a daemon      *)
(* which serves is named by the script's pid file, and that a stale pid    *)
(* file is left only by a process that came to an end of its own.          *)
(***************************************************************************)
EXTENDS Lifecycle, TLAPS

-----------------------------------------------------------------------------
(* The inductive invariant. *)

AllSettings == {Settings(args, lines) : args \in ByHand \union {<<>>},
                                        lines \in ConfigFiles \union {<<>>}}
Process == [at : Places, set : AllSettings, wanted : BOOLEAN, lfp : 0 .. MaxProcs,
            locked : BOOLEAN, terminate : BOOLEAN, told : Threads \union {"none"},
            log : Threads \union {"none"}, ended : Failures \union {"no", "stopped"}]
Scripts == [at : {"idle", "test", "kill", "rm", "exec", "wait"},
            command : {"none", "start", "stop", "restart", "kill", "run"}, child : 0 .. MaxProcs]

TypeInv ==
  /\ config \in ConfigFiles /\ proc \in [Pids -> Process]
  /\ made \in 0 .. MaxProcs /\ port \in 0 .. made
  /\ file \in [Paths -> 0 .. made] /\ content \in [Pids -> 0 .. made]
  /\ script \in Scripts /\ commands \in Nat /\ overlapped \in BOOLEAN
  /\ \A p \in Pids : (p > made) <=> At(p, {"none"})

\* Who serves, or is about to, has the port.
PortInv == \A p \in Pids : At(p, {"bound", "serving", "unloading"}) => port = p

\* A process that is no daemon has no pid file; a daemon has one once it has opened
\* it, and its lock from there until it ends.
DaemonInv ==
  \A p \in Pids :
    /\ proc[p].wanted => proc[p].set.daemonize
    /\ At(p, {"none", "forked"}) => proc[p].lfp = 0
    /\ At(p, {"forked", "opened", "locked"}) => proc[p].set.daemonize
    /\ ~proc[p].set.daemonize => proc[p].lfp = 0
    /\ Alive(p) /\ ~At(p, {"forked"}) /\ proc[p].set.daemonize => proc[p].lfp # 0
    /\ proc[p].locked <=> Alive(p) /\ ~At(p, {"forked", "opened"}) /\ proc[p].set.daemonize

\* One that is told to stop serves by then, and does not go on without being told
\* unless the library does not want it.
ToldInv ==
  \A p \in Pids :
    /\ At(p, Starting \union {"none"}) => proc[p].told = "none"
    /\ At(p, {"unloading", "joining"}) => proc[p].told # "none" \/ proc[p].terminate

\* A pid file is made by a process that has opened it, under the name it has in
\* that process's options; and holds the pid of a process that had its lock.
LinkInv ==
  /\ \A path \in Paths : file[path] # 0 =>
       /\ ~At(file[path], {"none", "forked"})
       /\ proc[file[path]].set.pidFile = path
  /\ \A p \in Pids : proc[p].lfp # 0 =>
       /\ ~At(proc[p].lfp, {"none", "forked"})
       /\ proc[proc[p].lfp].set.pidFile = proc[p].set.pidFile
  /\ \A i \in Pids : content[i] # 0 =>
       /\ proc[content[i]].lfp = i
       /\ ~At(content[i], {"none", "forked", "opened", "locked"})

\* A lock excludes, and who has it has written the file, or is about to.
LockInv ==
  \A p \in Pids : proc[p].locked =>
    /\ \A q \in Pids \ {p} : proc[q].locked => proc[q].lfp # proc[p].lfp
    /\ At(p, {"locked"}) \/ content[proc[p].lfp] = p

\* The script.
ScriptInv ==
  /\ script.at \in {"kill", "rm"} => file[ScriptFile] # 0
  /\ script.at = "wait" => script.child # 0 /\ script.child <= made
                           /\ ~proc[script.child].set.daemonize

\* A daemon of the script, from when it has opened the file until it is told to stop.
Reached(p) ==
  /\ proc[p].set.daemonize /\ proc[p].set.pidFile = ScriptFile /\ proc[p].told = "none"
  /\ At(p, {"opened", "locked", "loading", "binding", "bound", "serving"})

\* Commands one at a time: nobody starts while the script works, and the file it
\* removes is nobody's who has not been told.
ReachInv ==
  ~overlapped =>
    /\ \A p \in Pids : Reached(p) => file[ScriptFile] = proc[p].lfp
    /\ script.at \in {"test", "kill", "rm", "exec"} => \A p \in Pids : ~At(p, Starting)
    /\ script.at = "rm" => \A p \in Pids : ~Reached(p)

\* Unless the script is about to remove it, a file that is empty is about to be
\* written, and one that is not names a process that was not told to stop.
StaleInv ==
  script.at # "rm" /\ file[ScriptFile] # 0 =>
    LET i == file[ScriptFile]  p == content[i] IN
    IF p = 0 THEN \E q \in Pids : At(q, {"opened", "locked"}) /\ proc[q].lfp = i
    ELSE IF Alive(p) THEN proc[p].told = "none"
    ELSE proc[p].ended \in {"crash", "bind", "library"}

IInv == /\ TypeInv /\ PortInv /\ DaemonInv /\ ToldInv /\ LinkInv /\ LockInv
        /\ ScriptInv /\ ReachInv /\ StaleInv

-----------------------------------------------------------------------------
(* Options. *)

\* What the options of a process say; a daemon has a name for its pid file, unless
\* the name is empty.
LEMMA SettingsFacts ==
  ASSUME NEW args \in ByHand \union {<<>>}, NEW lines \in ConfigFiles \union {<<>>}
  PROVE  /\ Settings(args, lines) \in AllSettings
         /\ Settings(args, lines).daemonize \in BOOLEAN
         /\ Settings(args, lines).pidFile \in Paths \union {""}
<1>1. Settings(args, lines).pidFile = Settings(<<>>, lines).pidFile
  BY DEF Settings
<1>2. Settings(args, lines) \in AllSettings
  BY DEF AllSettings
<1>3. Settings(args, lines).daemonize \in BOOLEAN
  BY DEF Settings, Bool
<1>4. Settings(<<>>, lines).pidFile \in Paths \union {""}
  BY DEF Paths
<1> QED  BY <1>1, <1>2, <1>3, <1>4

LEMMA AllSettingsFacts ==
  \A set \in AllSettings : set.daemonize \in BOOLEAN /\ set.pidFile \in Paths \union {""}
<1> SUFFICES ASSUME NEW set \in AllSettings
             PROVE  set.daemonize \in BOOLEAN /\ set.pidFile \in Paths \union {""}
  OBVIOUS
<1>1. PICK args \in ByHand \union {<<>>}, lines \in ConfigFiles \union {<<>>} :
        set = Settings(args, lines)
  BY DEF AllSettings
<1> QED  BY <1>1, SettingsFacts

\* Who is to be a daemon by the command line, or else by the file, is made one.
LEMMA StartedFacts ==
  ASSUME NEW args \in ByHand \union {<<>>}, NEW lines \in ConfigFiles \union {<<>>}
  PROVE  LET new == Started(args, lines) IN
         /\ new \in Process
         /\ new.set \in AllSettings
         /\ new.at = IF new.set.daemonize THEN "forked" ELSE "loading"
         /\ new.wanted => new.set.daemonize
         /\ new.lfp = 0 /\ ~new.locked /\ new.told = "none" /\ ~new.terminate
<1> DEFINE f == FileOptions(lines)
           r == RunOptions(args)
           wanted == IF "daemonize" \in DOMAIN r THEN Bool(r["daemonize"])
                     ELSE /\ "d" \notin DOMAIN r /\ "Server.Daemonize" \in DOMAIN f
                          /\ Bool(f["Server.Daemonize"])
           set == Settings(args, lines)
           at == IF set.daemonize THEN "forked" ELSE "loading"
           new == Started(args, lines)
<1>1. wanted \in BOOLEAN
  BY DEF Bool
<1>2. wanted => set.daemonize
  BY DEF Settings, LoadRunConfig, LoadConfig
<1>3. set \in AllSettings /\ set.daemonize \in BOOLEAN
  BY SettingsFacts
<1>4. new = [at |-> at, set |-> set, wanted |-> wanted, lfp |-> 0, locked |-> FALSE,
             terminate |-> FALSE, told |-> "none", log |-> "none", ended |-> "no"]
  <2>1. new = [NoProc EXCEPT !.set = set, !.at = at, !.wanted = wanted]
    BY DEF Started
  <2> HIDE DEF set, wanted, at, new
  <2> QED  BY <2>1 DEF NoProc
<1>5. at \in Places
  BY <1>3 DEF Places, Starting
<1> HIDE DEF set, wanted, at, new
<1>6. new \in Process
  BY <1>1, <1>3, <1>4, <1>5, LifecycleBounds DEF Process, Threads, Failures
<1> QED  BY <1>2, <1>3, <1>4, <1>6 DEF at, new

\* Before it starts a process is like any other.
LEMMA NoProcFacts ==
  /\ NoProc \in Process /\ NoProc.at = "none" /\ ~NoProc.wanted /\ NoProc.lfp = 0
  /\ ~NoProc.locked /\ ~NoProc.terminate /\ NoProc.told = "none"
<1>1. Settings(<<>>, <<>>) \in AllSettings
  BY SettingsFacts
<1> QED  BY <1>1, LifecycleBounds DEF NoProc, Process, Places, Threads, Failures

-----------------------------------------------------------------------------
(* One process at a time. *)

LEMMA ScriptPath == ScriptFile \in Paths
BY DEF Paths, ScriptFile

LEMMA InitIInv == Init => IInv
<1> SUFFICES ASSUME Init PROVE IInv
  OBVIOUS
<1>1. /\ \A p \in Pids : proc[p] = NoProc /\ content[p] = 0
      /\ \A path \in Paths : file[path] = 0
  BY DEF Init
<1>2. ScriptFile \in Paths
  BY ScriptPath
<1>3. TypeInv
  <2>1. proc \in [Pids -> Process]
    BY NoProcFacts DEF Init
  <2>2. /\ made \in 0 .. MaxProcs /\ port \in 0 .. made
        /\ file \in [Paths -> 0 .. made] /\ content \in [Pids -> 0 .. made]
    BY LifecycleBounds DEF Init
  <2>3. script \in Scripts
    BY LifecycleBounds DEF Init, Idle, Scripts
  <2>4. \A p \in Pids : p > made /\ At(p, {"none"})
    BY <1>1, NoProcFacts, LifecycleBounds DEF Init, Pids, At
  <2> QED  BY <2>1, <2>2, <2>3, <2>4 DEF Init, TypeInv
<1>4. /\ PortInv /\ DaemonInv /\ ToldInv /\ LockInv
  BY <1>1, NoProcFacts DEF PortInv, DaemonInv, ToldInv, LockInv, At, Alive
<1>5. LinkInv
  BY <1>1, NoProcFacts DEF LinkInv
<1>6. ScriptInv /\ ReachInv /\ StaleInv
  BY <1>1, <1>2, NoProcFacts DEF Init, Idle, ScriptInv, ReachInv, Reached, StaleInv, At
<1> QED  BY <1>3, <1>4, <1>5, <1>6 DEF IInv

\* What is not 0 names a process.
LEMMA Names ==
  ASSUME TypeInv
  PROVE  /\ \A q \in Pids : proc[q].lfp # 0 => proc[q].lfp \in Pids
         /\ \A path \in Paths : file[path] # 0 => file[path] \in Pids
         /\ \A i \in Pids : content[i] # 0 => content[i] \in Pids
         /\ script.child # 0 => script.child \in Pids
         /\ 0 \notin Pids
<1> USE LifecycleBounds
<1>1. \A n \in 0 .. MaxProcs : n # 0 => n \in Pids
  BY DEF Pids
<1>2. script.child \in 0 .. MaxProcs /\ \A q \in Pids : proc[q].lfp \in 0 .. MaxProcs
  BY DEF TypeInv, Process, Scripts
<1>3. \A n \in 0 .. made : n \in 0 .. MaxProcs
  BY DEF TypeInv
<1>4. /\ \A path \in Paths : file[path] \in 0 .. made
      /\ \A i \in Pids : content[i] \in 0 .. made
  BY DEF TypeInv
<1>5. 0 \notin Pids
  BY DEF Pids
<1> QED  BY <1>1, <1>2, <1>3, <1>4, <1>5

\* What changes when one process does.
LEMMA OneProcess ==
  ASSUME proc \in [Pids -> Process], NEW p \in Pids, NEW new \in Process,
         proc' = [proc EXCEPT ![p] = new]
  PROVE  /\ proc' \in [Pids -> Process] /\ proc'[p] = new
         /\ \A q \in Pids : q # p => proc'[q] = proc[q]
OBVIOUS

\* The end of a process keeps all that is not about the script.
LEMMA ProcessEnds ==
  ASSUME IInv, NEW p \in Pids, Alive(p), NEW why \in Failures \union {"stopped"},
         Ends(p, why), UNCHANGED <<config, made, file, content, commands, overlapped>>,
         script' \in Scripts
  PROVE  /\ TypeInv' /\ PortInv' /\ DaemonInv' /\ ToldInv' /\ LinkInv' /\ LockInv'
         /\ proc'[p] = Dead(p, why) /\ \A q \in Pids : q # p => proc'[q] = proc[q]
<1> DEFINE new == Dead(p, why)
<1> USE DEF IInv
<1>1. proc \in [Pids -> Process] /\ proc[p] \in Process
  BY DEF TypeInv
<1>2. /\ new \in Process
      /\ new.at = "dead" /\ ~new.locked /\ new.ended = why
      /\ new.set = proc[p].set /\ new.wanted = proc[p].wanted /\ new.lfp = proc[p].lfp
      /\ new.told = proc[p].told
  BY <1>1 DEF Dead, Process, Places
<1> HIDE DEF new
<1>3. /\ proc' \in [Pids -> Process] /\ proc'[p] = new
      /\ \A q \in Pids : q # p => proc'[q] = proc[q]
  BY <1>1, <1>2, OneProcess DEF Ends, new
<1>4. port' = IF port = p THEN 0 ELSE port
  BY DEF Ends
<1>5. TypeInv'
  <2>1. \A q \in Pids : (q > made) <=> At(q, {"none"})'
    BY <1>2, <1>3 DEF TypeInv, At, Alive
  <2>2. port' \in 0 .. made
    BY <1>4 DEF TypeInv
  <2> QED  BY <1>3, <2>1, <2>2 DEF TypeInv
<1>6. PortInv'
  BY <1>2, <1>3, <1>4 DEF PortInv, At
<1>7. DaemonInv' /\ ToldInv'
  BY <1>2, <1>3 DEF DaemonInv, ToldInv, At, Alive, Starting
<1>8. LinkInv'
  <2>1. \A q \in Pids : /\ proc'[q].set = proc[q].set /\ proc'[q].lfp = proc[q].lfp
                        /\ proc'[q].at \in {proc[q].at, "dead"}
    BY <1>2, <1>3
  <2>2. /\ \A q \in Pids : proc[q].lfp # 0 => proc[q].lfp \in Pids
        /\ \A path \in Paths : file[path] # 0 => file[path] \in Pids
        /\ \A i \in Pids : content[i] # 0 => content[i] \in Pids
    BY Names DEF IInv
  <2> QED  BY <2>1, <2>2 DEF LinkInv, At
<1>9. LockInv'
  BY <1>2, <1>3 DEF LockInv, At
<1> QED  BY <1>3, <1>5, <1>6, <1>7, <1>8, <1>9 DEF new

\* A process that runs on, past the lock, keeps all the rest, unless it is told.
LEMMA ProcessRuns ==
  ASSUME IInv, NEW p \in Pids, NEW new \in Process, proc' = [proc EXCEPT ![p] = new],
         UNCHANGED <<config, made, file, content, script, commands, overlapped>>,
         At(p, {"loading", "binding", "bound", "serving", "unloading", "joining"}),
         new.at \in {"binding", "bound", "serving", "unloading", "joining", "hung"},
         new.set = proc[p].set, new.wanted = proc[p].wanted, new.lfp = proc[p].lfp,
         new.locked = proc[p].locked, new.told = proc[p].told,
         new.at \in {"binding", "bound"} => At(p, Starting),
         new.at = "serving" => At(p, {"bound", "serving"}),
         new.at \in {"unloading", "joining"} => new.told # "none" \/ new.terminate,
         At(p, Starting) => new.told = "none",
         port' \in 0 .. made,
         \A q \in Pids : At(q, {"bound", "serving", "unloading"})' => port' = q
  PROVE  IInv'
<1> USE DEF IInv
<1>1. /\ proc \in [Pids -> Process] /\ proc[p] \in Process
      /\ proc' \in [Pids -> Process] /\ proc'[p] = new
      /\ \A q \in Pids : q # p => proc'[q] = proc[q]
  BY OneProcess DEF TypeInv
<1>2. TypeInv' /\ PortInv'
  BY <1>1 DEF TypeInv, PortInv, At
<1>3. DaemonInv'
  BY <1>1 DEF DaemonInv, At, Alive
<1>4. ToldInv'
  BY <1>1 DEF ToldInv, At, Starting
<1>5. LinkInv'
  <2>1. \A q \in Pids : /\ proc'[q].set = proc[q].set /\ proc'[q].lfp = proc[q].lfp
                        /\ \/ proc'[q].at = proc[q].at
                           \/ proc'[q].at \notin {"none", "forked", "opened", "locked"}
    BY <1>1
  <2> QED  BY <2>1, Names DEF LinkInv, At
<1>6. LockInv'
  BY <1>1 DEF LockInv, At
<1>7. ScriptInv'
  BY <1>1, Names DEF ScriptInv
<1>8. ReachInv'
  BY <1>1 DEF ReachInv, Reached, At, Starting
<1>9. StaleInv'
  BY <1>1, Names DEF StaleInv, At, Alive, ToldInv
<1> QED  BY <1>2, <1>3, <1>4, <1>5, <1>6, <1>7, <1>8, <1>9

\* A process comes to an end of its own: by one that the file may outlive, or with
\* no file of its own, or because another has the lock of that file.
LEMMA EndsAlone ==
  ASSUME IInv, NEW p \in Pids, Alive(p), NEW why \in Failures \union {"stopped"}, Ends(p, why),
         UNCHANGED <<config, made, file, content, script, commands, overlapped>>,
         \/ /\ ~At(p, {"opened", "locked"})
            /\ \/ why \in {"crash", "bind", "library"} \/ proc[p].lfp = 0
               \/ proc[p].told # "none"
         \/ /\ At(p, {"opened"})
            /\ \E q \in Pids : proc[q].locked /\ proc[q].lfp = proc[p].lfp
  PROVE  IInv'
<1> USE DEF IInv
<1>1. script' \in Scripts
  BY DEF TypeInv
<1>2. /\ TypeInv' /\ PortInv' /\ DaemonInv' /\ ToldInv' /\ LinkInv' /\ LockInv'
      /\ proc'[p] = Dead(p, why) /\ \A q \in Pids : q # p => proc'[q] = proc[q]
  BY <1>1, ProcessEnds
<1>3. /\ proc'[p].at = "dead" /\ proc'[p].ended = why
      /\ proc'[p].set = proc[p].set /\ proc'[p].told = proc[p].told
  <2>1. proc[p] \in Process
    BY DEF TypeInv
  <2> QED  BY <1>2, <2>1 DEF Dead, Process
<1>4. ScriptInv'
  BY <1>2, <1>3, Names DEF ScriptInv
<1>5. ReachInv'
  BY <1>2, <1>3 DEF ReachInv, Reached, At, Starting
<1>6. StaleInv'
  <2> SUFFICES ASSUME script.at # "rm", file[ScriptFile] # 0
               PROVE  StaleInv'
    BY DEF StaleInv
  <2> DEFINE i == file[ScriptFile]
  <2>1. i \in Pids /\ ScriptFile \in Paths
    BY ScriptPath, Names
  <2>2. CASE content[i] = 0
    <3>1. PICK q \in Pids : At(q, {"opened", "locked"}) /\ proc[q].lfp = i
      BY <2>2 DEF StaleInv
    <3>2. CASE q # p
      BY <1>2, <2>2, <3>1, <3>2 DEF StaleInv, At
    <3>3. CASE q = p
      <4>1. PICK r \in Pids : proc[r].locked /\ proc[r].lfp = i
        BY <3>1, <3>3
      <4>2. At(r, {"locked"})
        BY <2>1, <2>2, <4>1 DEF LockInv, Pids
      <4>3. r # p
        BY <3>1, <3>3, <4>2 DEF At
      <4> QED  BY <1>2, <2>2, <4>1, <4>2, <4>3 DEF StaleInv, At
    <3> QED  BY <3>2, <3>3
  <2>3. CASE content[i] = p
    <3>1. p # 0 /\ i # 0
      BY <2>1, Names
    <3>2. proc[p].lfp = i /\ ~At(p, {"opened", "locked"})
      BY <2>1, <2>3, <3>1 DEF LinkInv, At
    <3>3. proc[p].told = "none"
      BY <2>3, <3>1 DEF StaleInv
    <3>4. why \in {"crash", "bind", "library"}
      BY <3>1, <3>2, <3>3 DEF At
    <3> QED  BY <1>2, <1>3, <2>3, <3>1, <3>4 DEF StaleInv, At, Alive
  <2>4. CASE content[i] \notin {0, p}
    BY <1>2, <2>1, <2>4, Names DEF StaleInv, At, Alive
  <2> QED  BY <2>2, <2>3, <2>4
<1> QED  BY <1>2, <1>4, <1>5, <1>6

-----------------------------------------------------------------------------
(* The steps of a process. *)

LEMMA OpenPidFileIInv ==
  ASSUME IInv, NEW p \in Pids, OpenPidFile(p)
  PROVE  IInv'
<1> USE DEF IInv
<1> DEFINE path == proc[p].set.pidFile
           inode == IF file[path] = 0 THEN p ELSE file[path]
<1>1. proc[p] \in Process /\ At(p, {"forked"}) /\ Alive(p)
  BY DEF OpenPidFile, TypeInv, At, Alive
<1>2. CASE path = ""
  <2>1. Ends(p, "nopidfile") /\ proc[p].lfp = 0
    BY <1>1, <1>2 DEF OpenPidFile, DaemonInv, At
  <2> QED  BY <1>1, <1>2, <2>1, EndsAlone DEF OpenPidFile, Failures, At
<1>3. CASE path # ""
  <2>1. path \in Paths
    BY <1>1, <1>3, AllSettingsFacts DEF Process
  <2>2. p \in 1 .. made
    BY <1>1 DEF TypeInv, At, Pids
  <2>3. inode \in 1 .. made /\ inode \in Pids
    BY <2>1, <2>2, Names DEF TypeInv
  <2> DEFINE new == [proc[p] EXCEPT !.at = "opened", !.lfp = inode]
  <2>4. /\ proc' = [proc EXCEPT ![p] = new] /\ file' = [file EXCEPT ![path] = inode]
        /\ UNCHANGED <<content, port, config, made, script, commands, overlapped>>
    BY <1>3 DEF OpenPidFile
  <2>5. /\ new \in Process /\ new.at = "opened" /\ new.lfp = inode
        /\ new.set = proc[p].set /\ new.wanted = proc[p].wanted
        /\ new.told = proc[p].told /\ new.locked = proc[p].locked
    <3>1. inode \in 0 .. MaxProcs /\ "opened" \in Places
      BY <2>3 DEF Pids, Places, Starting
    <3> HIDE DEF inode
    <3> QED  BY <1>1, <3>1 DEF Process
  <2> HIDE DEF new
  <2>6. /\ proc' \in [Pids -> Process] /\ proc'[p] = new
        /\ \A q \in Pids : q # p => proc'[q] = proc[q]
    BY <2>4, <2>5, OneProcess DEF TypeInv
  <2>7. /\ file' \in [Paths -> 0 .. made] /\ file'[path] = inode
        /\ \A other \in Paths : other # path => file'[other] = file[other]
    BY <2>1, <2>3, <2>4 DEF TypeInv
  <2> HIDE DEF inode
  <2>8. TypeInv'
    <3>1. \A q \in Pids : (q > made) <=> At(q, {"none"})'
      BY <1>1, <2>5, <2>6 DEF TypeInv, At
    <3> QED  BY <2>4, <2>6, <2>7, <3>1 DEF TypeInv
  <2>9. PortInv' /\ ToldInv' /\ LockInv' /\ ScriptInv'
    <3>1. PortInv' /\ ToldInv'
      BY <1>1, <2>4, <2>5, <2>6 DEF PortInv, ToldInv, At, Starting
    <3>2. LockInv'
      BY <1>1, <2>4, <2>5, <2>6 DEF LockInv, DaemonInv, At
    <3>3. ScriptInv'
      <4>1. file[ScriptFile] # 0 => file'[ScriptFile] # 0
        BY <2>1, <2>3, <2>7, ScriptPath
      <4> QED  BY <2>4, <2>5, <2>6, <4>1, Names DEF ScriptInv
    <3> QED  BY <3>1, <3>2, <3>3
  <2>10. DaemonInv'
    BY <1>1, <2>3, <2>5, <2>6 DEF DaemonInv, At, Alive
  <2>11. LinkInv'
    <3>1. \A q \in Pids : /\ proc'[q].set = proc[q].set
                          /\ \/ proc[q].at \in {"none", "forked"}
                             \/ proc'[q].at \notin {"none", "forked"}
      BY <1>1, <2>5, <2>6 DEF At
    <3>2. proc'[inode].at \notin {"none", "forked"} /\ proc'[inode].set.pidFile = path
      <4>1. CASE inode = p
        BY <2>5, <2>6, <4>1 DEF At
      <4>2. CASE inode = file[path] /\ file[path] # 0
        BY <2>1, <2>3, <3>1, <4>2 DEF LinkInv, At
      <4> QED  BY <4>1, <4>2 DEF inode
    <3>3. ASSUME NEW other \in Paths, file'[other] # 0
          PROVE  /\ proc'[file'[other]].at \notin {"none", "forked"}
                 /\ proc'[file'[other]].set.pidFile = other
      <4>1. CASE other = path
        BY <2>7, <3>2, <4>1
      <4>2. CASE other # path
        <5>1. file'[other] = file[other] /\ file[other] # 0 /\ file[other] \in Pids
          BY <2>7, <3>3, <4>2, Names
        <5> QED  BY <3>1, <5>1 DEF LinkInv, At
      <4> QED  BY <4>1, <4>2
    <3>4. ASSUME NEW q \in Pids, proc'[q].lfp # 0
          PROVE  /\ proc'[proc'[q].lfp].at \notin {"none", "forked"}
                 /\ proc'[proc'[q].lfp].set.pidFile = proc'[q].set.pidFile
      <4>1. CASE q = p
        BY <2>5, <2>6, <3>2, <4>1
      <4>2. CASE q # p
        <5>1. proc'[q].lfp = proc[q].lfp /\ proc[q].lfp # 0 /\ proc[q].lfp \in Pids
          BY <2>6, <3>4, <4>2, Names
        <5> QED  BY <3>1, <5>1 DEF LinkInv, At
      <4> QED  BY <4>1, <4>2
    <3>5. ASSUME NEW i \in Pids, content[i] # 0
          PROVE  /\ proc'[content[i]].lfp = i
                 /\ proc'[content[i]].at \notin {"none", "forked", "opened", "locked"}
      <4>1. /\ content[i] \in Pids /\ proc[content[i]].lfp = i
            /\ ~At(content[i], {"none", "forked", "opened", "locked"})
        BY <3>5, Names DEF LinkInv, At
      <4>2. content[i] # p
        BY <1>1, <4>1 DEF At
      <4> QED  BY <2>6, <4>1, <4>2 DEF At
    <3> QED  BY <2>4, <3>3, <3>4, <3>5 DEF LinkInv, At
  <2>12. ReachInv'
    <3> SUFFICES ASSUME ~overlapped PROVE ReachInv'
      BY <2>4 DEF ReachInv
    <3>1. script.at \notin {"test", "kill", "rm", "exec"}
      BY <1>1 DEF ReachInv, At, Starting
    <3>2. ASSUME NEW q \in Pids, Reached(q)'
          PROVE  file'[ScriptFile] = proc'[q].lfp
      <4>1. CASE q = p
        BY <2>5, <2>6, <2>7, <3>2, <4>1 DEF Reached
      <4>2. CASE q # p
        <5>1. Reached(q) /\ proc'[q].lfp = proc[q].lfp
          BY <2>6, <3>2, <4>2 DEF Reached, At
        <5>2. file[ScriptFile] = proc[q].lfp /\ proc[q].lfp # 0
          BY <5>1 DEF ReachInv, DaemonInv, Reached, At, Alive
        <5> QED  BY <2>7, <5>1, <5>2, ScriptPath DEF inode
      <4> QED  BY <4>1, <4>2
    <3> QED  BY <2>4, <3>1, <3>2 DEF ReachInv
  <2>13. StaleInv'
    <3> SUFFICES ASSUME script.at # "rm", file'[ScriptFile] # 0 PROVE StaleInv'
      BY <2>4 DEF StaleInv
    <3>1. CASE path = ScriptFile /\ file[ScriptFile] = 0
      <4>1. inode = p /\ file'[ScriptFile] = p
        BY <2>7, <3>1 DEF inode
      <4>2. content[p] = 0
        <5>1. content[p] # 0 => proc[content[p]].lfp = p /\ proc[content[p]].lfp # 0
          BY Names, <2>2 DEF LinkInv
        <5> QED  BY <1>1, <5>1, Names DEF LinkInv, At
      <4> QED  BY <2>4, <2>5, <2>6, <4>1, <4>2 DEF StaleInv, At
    <3>2. CASE ~(path = ScriptFile /\ file[ScriptFile] = 0)
      <4>1. file'[ScriptFile] = file[ScriptFile] /\ file[ScriptFile] \in Pids
        BY <2>7, <3>2, ScriptPath, Names DEF inode
      <4>2. content[file[ScriptFile]] # p
        BY <1>1, <4>1, Names DEF LinkInv, At
      <4>3. \A q \in Pids : At(q, {"opened", "locked"}) /\ proc[q].lfp = file[ScriptFile]
                            => q # p
        BY <1>1 DEF At
      <4> QED  BY <2>4, <2>6, <4>1, <4>2, <4>3, Names DEF StaleInv, At, Alive
    <3> QED  BY <3>1, <3>2
  <2> QED  BY <2>8, <2>9, <2>10, <2>11, <2>12, <2>13
<1> QED  BY <1>2, <1>3

LEMMA LockPidFileIInv ==
  ASSUME IInv, NEW p \in Pids, LockPidFile(p)
  PROVE  IInv'
<1> USE DEF IInv
<1>1. /\ proc[p] \in Process /\ At(p, {"opened"}) /\ Alive(p)
      /\ UNCHANGED <<config, made, file, content, script, commands, overlapped>>
  BY DEF LockPidFile, TypeInv, At, Alive
<1>2. CASE \E q \in Pids : proc[q].locked /\ proc[q].lfp = proc[p].lfp
  <2>1. Ends(p, "locked")
    BY <1>2 DEF LockPidFile
  <2> QED  BY <1>1, <1>2, <2>1, EndsAlone DEF Failures
<1>3. CASE ~\E q \in Pids : proc[q].locked /\ proc[q].lfp = proc[p].lfp
  <2> DEFINE new == [proc[p] EXCEPT !.at = "locked", !.locked = TRUE]
  <2>1. proc' = [proc EXCEPT ![p] = new] /\ UNCHANGED port
    BY <1>3 DEF LockPidFile
  <2>2. /\ new \in Process /\ new.at = "locked" /\ new.locked /\ new.lfp = proc[p].lfp
        /\ new.set = proc[p].set /\ new.wanted = proc[p].wanted /\ new.told = proc[p].told
    BY <1>1 DEF Process, Places, Starting
  <2> HIDE DEF new
  <2>3. /\ proc' \in [Pids -> Process] /\ proc'[p] = new
        /\ \A q \in Pids : q # p => proc'[q] = proc[q]
    BY <2>1, <2>2, OneProcess DEF TypeInv
  <2>4. TypeInv' /\ PortInv' /\ DaemonInv' /\ ToldInv'
    BY <1>1, <2>1, <2>2, <2>3 DEF TypeInv, PortInv, DaemonInv, ToldInv, At, Alive, Starting
  <2>5. LinkInv'
    <3>1. \A q \in Pids : /\ proc'[q].set = proc[q].set /\ proc'[q].lfp = proc[q].lfp
                          /\ proc'[q].at = proc[q].at \/ proc[q].at = "opened"
                          /\ proc'[q].at = proc[q].at \/ proc'[q].at = "locked"
      BY <1>1, <2>2, <2>3 DEF At
    <3> QED  BY <1>1, <3>1, Names DEF LinkInv, At
  <2>6. LockInv'
    BY <1>1, <1>3, <2>2, <2>3 DEF LockInv, At
  <2>7. ScriptInv' /\ ReachInv'
    BY <1>1, <2>2, <2>3, Names DEF ScriptInv, ReachInv, Reached, At, Starting
  <2>8. StaleInv'
    <3> SUFFICES ASSUME script.at # "rm", file[ScriptFile] # 0 PROVE StaleInv'
      BY <1>1 DEF StaleInv
    <3>1. file[ScriptFile] \in Pids
      BY Names, ScriptPath
    <3>2. content[file[ScriptFile]] # p
      BY <1>1, <3>1, Names DEF LinkInv, At
    <3> QED  BY <1>1, <2>2, <2>3, <3>1, <3>2, Names DEF StaleInv, At, Alive
  <2> QED  BY <2>4, <2>5, <2>6, <2>7, <2>8
<1> QED  BY <1>2, <1>3

LEMMA WritePidIInv ==
  ASSUME IInv, NEW p \in Pids, WritePid(p)
  PROVE  IInv'
<1> USE DEF IInv
<1> DEFINE i == proc[p].lfp
           new == [proc[p] EXCEPT !.at = "loading"]
<1>1. /\ proc[p] \in Process /\ At(p, {"locked"}) /\ Alive(p)
      /\ proc' = [proc EXCEPT ![p] = new] /\ content' = [content EXCEPT ![i] = p]
      /\ UNCHANGED <<config, made, port, file, script, commands, overlapped>>
  BY DEF WritePid, Goes, TypeInv, At, Alive
<1>2. i \in Pids /\ p \in 0 .. made
  <2>1. i # 0
    BY <1>1 DEF DaemonInv, At
  <2> QED  BY <1>1, <2>1, Names DEF TypeInv, At, Pids
<1>3. /\ new \in Process /\ new.at = "loading" /\ new.locked = proc[p].locked /\ new.lfp = i
      /\ new.set = proc[p].set /\ new.wanted = proc[p].wanted /\ new.told = proc[p].told
  BY <1>1 DEF Process, Places, Starting
<1> HIDE DEF new
<1>4. /\ proc' \in [Pids -> Process] /\ proc'[p] = new
      /\ \A q \in Pids : q # p => proc'[q] = proc[q]
  BY <1>1, <1>3, OneProcess DEF TypeInv
<1>5. /\ content' \in [Pids -> 0 .. made] /\ content'[i] = p
      /\ \A j \in Pids : j # i => content'[j] = content[j]
  BY <1>1, <1>2 DEF TypeInv
<1> HIDE DEF i
<1>6. TypeInv' /\ PortInv' /\ DaemonInv' /\ ToldInv'
  <2>1. TypeInv' /\ PortInv'
    BY <1>1, <1>3, <1>4, <1>5 DEF TypeInv, PortInv, At
  <2>2. DaemonInv' /\ ToldInv'
    BY <1>1, <1>3, <1>4 DEF DaemonInv, ToldInv, At, Alive, Starting, i
  <2> QED  BY <2>1, <2>2
<1>7. LinkInv'
  <2>1. \A q \in Pids : /\ proc'[q].set = proc[q].set /\ proc'[q].lfp = proc[q].lfp
                        /\ proc'[q].at = proc[q].at \/ proc'[q].at = "loading"
    BY <1>3, <1>4 DEF i
  <2>2. ASSUME NEW j \in Pids, content'[j] # 0
        PROVE  /\ proc'[content'[j]].lfp = j
               /\ proc'[content'[j]].at \notin {"none", "forked", "opened", "locked"}
    <3>1. CASE j = i
      BY <1>3, <1>4, <1>5, <3>1
    <3>2. CASE j # i
      <4>1. content'[j] = content[j] /\ content[j] # 0 /\ content[j] \in Pids
        BY <1>5, <2>2, <3>2, Names
      <4> QED  BY <2>1, <4>1 DEF LinkInv, At
    <3> QED  BY <3>1, <3>2
  <2> QED  BY <1>1, <2>1, <2>2, Names DEF LinkInv, At
<1>8. LockInv'
  <2>1. proc[p].locked
    BY <1>1 DEF DaemonInv, At
  <2>2. \A q \in Pids : q # p /\ proc[q].locked => proc[q].lfp # i /\ proc[q].lfp \in Pids
    <3>1. \A q \in Pids : proc[q].locked => proc[q].lfp # 0
      BY DEF DaemonInv, At
    <3> QED  BY <2>1, <3>1, Names DEF LockInv, i
  <2> QED  BY <1>3, <1>4, <1>5, <2>2 DEF LockInv, At
<1>9. ScriptInv' /\ ReachInv'
  BY <1>1, <1>3, <1>4, Names DEF ScriptInv, ReachInv, Reached, At, Starting, i
<1>10. StaleInv'
  <2> SUFFICES ASSUME script.at # "rm", file[ScriptFile] # 0 PROVE StaleInv'
    BY <1>1 DEF StaleInv
  <2>1. file[ScriptFile] \in Pids
    BY Names, ScriptPath
  <2>2. CASE file[ScriptFile] = i
    BY <1>1, <1>3, <1>4, <1>5, <2>2, Names DEF StaleInv, ToldInv, At, Alive, Starting
  <2>3. CASE file[ScriptFile] # i
    <3>1. content'[file[ScriptFile]] = content[file[ScriptFile]]
      BY <1>5, <2>1, <2>3
    <3>2. content[file[ScriptFile]] # p
      BY <1>1, <2>1, Names DEF LinkInv, At
    <3>3. \A q \in Pids : proc[q].lfp = file[ScriptFile] => q # p
      BY <2>3 DEF i
    <3>4. CASE content[file[ScriptFile]] = 0
      BY <1>1, <1>4, <3>1, <3>3, <3>4 DEF StaleInv, At
    <3>5. CASE content[file[ScriptFile]] # 0
      BY <1>1, <1>4, <2>1, <3>1, <3>2, <3>5, Names DEF StaleInv, At, Alive
    <3> QED  BY <3>4, <3>5
  <2> QED  BY <2>2, <2>3
<1> QED  BY <1>6, <1>7, <1>8, <1>9, <1>10

LEMMA LoadLibraryIInv ==
  ASSUME IInv, NEW p \in Pids, LoadLibrary(p)
  PROVE  IInv'
<1> USE DEF IInv
<1>1. /\ proc[p] \in Process /\ At(p, {"loading"}) /\ Alive(p)
      /\ UNCHANGED <<config, made, file, content, script, commands, overlapped>>
  BY DEF LoadLibrary, TypeInv, At, Alive
<1>2. CASE proc[p].set.library \notin Libraries
  <2>1. Ends(p, "library")
    BY <1>2 DEF LoadLibrary
  <2> QED  BY <1>1, <2>1, EndsAlone DEF Failures, At
<1>3. CASE proc[p].set.library \in Libraries
  <2>1. PICK lines \in LibraryFiles, connected \in BOOLEAN :
          /\ UNCHANGED port
          /\ proc' = [proc EXCEPT ![p].at = "binding",
                                  ![p].terminate = UseDBAuth(lines) /\ ~connected]
    BY <1>3 DEF LoadLibrary
  <2> DEFINE terminate == UseDBAuth(lines) /\ ~connected
             new == [proc[p] EXCEPT !.at = "binding", !.terminate = terminate]
  <2>2. terminate \in BOOLEAN
    BY DEF UseDBAuth, Bool
  <2>3. proc' = [proc EXCEPT ![p] = new]
    BY <2>1
  <2> HIDE DEF terminate
  <2>4. /\ new \in Process /\ new.at = "binding" /\ new.locked = proc[p].locked
        /\ new.lfp = proc[p].lfp /\ new.set = proc[p].set /\ new.wanted = proc[p].wanted
        /\ new.told = proc[p].told
    BY <1>1, <2>2 DEF Process, Places, Starting
  <2> HIDE DEF new
  <2>5. /\ proc'[p] = new /\ \A q \in Pids : q # p => proc'[q] = proc[q]
    BY <2>3, <2>4, OneProcess DEF TypeInv
  <2>6. /\ port' \in 0 .. made
        /\ \A q \in Pids : At(q, {"bound", "serving", "unloading"})' => port' = q
    BY <2>1, <2>4, <2>5 DEF TypeInv, PortInv, At
  <2>7. At(p, Starting) /\ proc[p].told = "none"
    BY <1>1 DEF ToldInv, At, Starting
  <2> QED  BY <1>1, <2>3, <2>4, <2>6, <2>7, ProcessRuns DEF At
<1> QED  BY <1>2, <1>3

LEMMA InitServerSocketIInv ==
  ASSUME IInv, NEW p \in Pids, InitServerSocket(p)
  PROVE  IInv'
<1> USE DEF IInv
<1>1. /\ proc[p] \in Process /\ At(p, {"binding"}) /\ Alive(p)
      /\ UNCHANGED <<config, made, file, content, script, commands, overlapped>>
  BY DEF InitServerSocket, TypeInv, At, Alive
<1>2. CASE port # 0
  <2>1. Ends(p, "bind")
    BY <1>2 DEF InitServerSocket
  <2> QED  BY <1>1, <2>1, EndsAlone DEF Failures, At
<1>3. CASE port = 0
  <2> DEFINE new == [proc[p] EXCEPT !.at = "bound"]
  <2>1. proc' = [proc EXCEPT ![p] = new] /\ port' = p
    BY <1>3 DEF InitServerSocket, Goes
  <2>2. /\ new \in Process /\ new.at = "bound" /\ new.locked = proc[p].locked
        /\ new.lfp = proc[p].lfp /\ new.set = proc[p].set /\ new.wanted = proc[p].wanted
        /\ new.told = proc[p].told
    BY <1>1 DEF Process, Places, Starting
  <2> HIDE DEF new
  <2>3. /\ proc'[p] = new /\ \A q \in Pids : q # p => proc'[q] = proc[q]
    BY <2>1, <2>2, OneProcess DEF TypeInv
  <2>4. /\ port' \in 0 .. made
        /\ \A q \in Pids : At(q, {"bound", "serving", "unloading"})' => port' = q
    <3>1. \A q \in Pids : ~At(q, {"bound", "serving", "unloading"})
      BY <1>3, Names DEF PortInv
    <3>2. p \in 0 .. made
      BY <1>1 DEF TypeInv, At, Pids
    <3> QED  BY <2>1, <2>3, <3>1, <3>2 DEF At
  <2>5. At(p, Starting) /\ proc[p].told = "none"
    BY <1>1 DEF ToldInv, At, Starting
  <2> QED  BY <1>1, <2>1, <2>2, <2>4, <2>5, ProcessRuns DEF At
<1> QED  BY <1>2, <1>3

LEMMA SetSignalHandlersIInv ==
  ASSUME IInv, NEW p \in Pids, SetSignalHandlers(p)
  PROVE  IInv'
<1> USE DEF IInv
<1> DEFINE place == IF proc[p].terminate THEN "unloading" ELSE "serving"
           new == [proc[p] EXCEPT !.at = place]
<1>1. /\ proc[p] \in Process /\ At(p, {"bound"}) /\ proc' = [proc EXCEPT ![p] = new]
      /\ UNCHANGED <<config, made, port, file, content, script, commands, overlapped>>
  BY DEF SetSignalHandlers, Goes, TypeInv, At
<1>2. place \in {"unloading", "serving"} /\ (place = "unloading" => proc[p].terminate)
  OBVIOUS
<1> HIDE DEF place
<1>3. /\ new \in Process /\ new.at = place /\ new.locked = proc[p].locked
      /\ new.lfp = proc[p].lfp /\ new.set = proc[p].set /\ new.wanted = proc[p].wanted
      /\ new.told = proc[p].told /\ new.terminate = proc[p].terminate
  BY <1>1, <1>2 DEF Process, Places
<1> HIDE DEF new
<1>4. /\ proc'[p] = new /\ \A q \in Pids : q # p => proc'[q] = proc[q]
  BY <1>1, <1>3, OneProcess DEF TypeInv
<1>5. /\ port' \in 0 .. made
      /\ \A q \in Pids : At(q, {"bound", "serving", "unloading"})' => port' = q
  BY <1>1, <1>4 DEF TypeInv, PortInv, At
<1>6. proc[p].told = "none"
  BY <1>1 DEF ToldInv, At, Starting
<1> QED  BY <1>1, <1>2, <1>3, <1>5, <1>6, ProcessRuns DEF At

\* Logging, and the handler of a stop signal, change where a process is and what
\* it logs, no more.
LEMMA ServingIInv ==
  ASSUME IInv, NEW p \in Pids,
         HandleInterupt(p) \/ LogEnds(p) \/ \E thread \in Threads : LogBegins(p, thread)
  PROVE  IInv'
<1> USE DEF IInv
<1>1. /\ proc[p] \in Process /\ At(p, {"serving"})
      /\ UNCHANGED <<config, made, port, file, content, script, commands, overlapped>>
  BY DEF HandleInterupt, LogEnds, LogBegins, Goes, TypeInv, At
<1>2. PICK place \in {"serving", "unloading", "hung"}, log \in Threads \union {"none"} :
        /\ proc' = [proc EXCEPT ![p].at = place, ![p].log = log]
        /\ place # "serving" => proc[p].told # "none"
  <2>1. CASE LogEnds(p)
    <3>1. proc' = [proc EXCEPT ![p].at = "serving", ![p].log = "none"]
      BY <1>1, <2>1 DEF LogEnds, At, TypeInv, Process
    <3> QED  BY <3>1
  <2>2. CASE HandleInterupt(p)
    <3>1. PICK place \in {"unloading", "hung"} : proc' = [proc EXCEPT ![p].at = place]
      BY <2>2 DEF HandleInterupt, Goes
    <3>2. proc' = [proc EXCEPT ![p].at = place, ![p].log = proc[p].log]
      BY <1>1, <3>1 DEF TypeInv, Process
    <3>3. proc[p].log \in Threads \union {"none"} /\ proc[p].told # "none"
      BY <1>1, <2>2 DEF HandleInterupt, Process
    <3> QED  BY <3>2, <3>3
  <2>3. CASE \E thread \in Threads : LogBegins(p, thread)
    <3>1. PICK thread \in Threads : proc' = [proc EXCEPT ![p].log = thread]
      BY <2>3 DEF LogBegins
    <3>2. proc' = [proc EXCEPT ![p].at = "serving", ![p].log = thread]
      BY <1>1, <3>1 DEF At, TypeInv, Process
    <3> QED  BY <3>2
  <2> QED  BY <2>1, <2>2, <2>3
<1> DEFINE new == [proc[p] EXCEPT !.at = place, !.log = log]
<1>3. /\ new \in Process /\ new.at = place /\ new.locked = proc[p].locked
      /\ new.lfp = proc[p].lfp /\ new.set = proc[p].set /\ new.wanted = proc[p].wanted
      /\ new.told = proc[p].told
  BY <1>1 DEF Process, Places
<1>4. proc' = [proc EXCEPT ![p] = new]
  BY <1>2
<1> HIDE DEF new
<1>5. /\ proc'[p] = new /\ \A q \in Pids : q # p => proc'[q] = proc[q]
  BY <1>3, <1>4, OneProcess DEF TypeInv
<1>6. /\ port' \in 0 .. made
      /\ \A q \in Pids : At(q, {"bound", "serving", "unloading"})' => port' = q
  BY <1>1, <1>3, <1>5 DEF TypeInv, PortInv, At
<1> QED  BY <1>1, <1>2, <1>3, <1>4, <1>6, ProcessRuns DEF At, Starting

LEMMA UnloadIInv ==
  ASSUME IInv, NEW p \in Pids, Unload(p)
  PROVE  IInv'
<1> USE DEF IInv
<1> DEFINE new == [proc[p] EXCEPT !.at = "joining"]
<1>1. /\ proc[p] \in Process /\ At(p, {"unloading"}) /\ proc' = [proc EXCEPT ![p] = new]
      /\ port' = (IF port = p THEN 0 ELSE port)
      /\ UNCHANGED <<config, made, file, content, script, commands, overlapped>>
  BY DEF Unload, Goes, TypeInv, At
<1>2. /\ new \in Process /\ new.at = "joining" /\ new.locked = proc[p].locked
      /\ new.lfp = proc[p].lfp /\ new.set = proc[p].set /\ new.wanted = proc[p].wanted
      /\ new.told = proc[p].told /\ new.terminate = proc[p].terminate
  BY <1>1 DEF Process, Places
<1> HIDE DEF new
<1>3. /\ proc'[p] = new /\ \A q \in Pids : q # p => proc'[q] = proc[q]
  BY <1>1, <1>2, OneProcess DEF TypeInv
<1>4. /\ port' \in 0 .. made
      /\ \A q \in Pids : At(q, {"bound", "serving", "unloading"})' => port' = q
  BY <1>1, <1>2, <1>3 DEF TypeInv, PortInv, At
<1>5. proc[p].told # "none" \/ proc[p].terminate
  BY <1>1 DEF ToldInv, At
<1> QED  BY <1>1, <1>2, <1>4, <1>5, ProcessRuns DEF At, Starting

LEMMA JoinIInv ==
  ASSUME IInv, NEW p \in Pids, Join(p)
  PROVE  IInv'
<1> USE DEF IInv
<1>1. /\ proc[p] \in Process /\ At(p, {"joining"}) /\ Alive(p)
      /\ UNCHANGED <<config, made, file, content, script, commands, overlapped>>
      /\ proc[p].told # "none" \/ proc[p].terminate
  BY DEF Join, TypeInv, ToldInv, At, Alive
<1>2. CASE Ends(p, IF proc[p].terminate THEN "library" ELSE "stopped")
  BY <1>1, <1>2, EndsAlone DEF Failures, At
<1>3. CASE Goes(p, "hung") /\ UNCHANGED port
  <2> DEFINE new == [proc[p] EXCEPT !.at = "hung"]
  <2>1. proc' = [proc EXCEPT ![p] = new]
    BY <1>3 DEF Goes
  <2>2. /\ new \in Process /\ new.at = "hung" /\ new.locked = proc[p].locked
        /\ new.lfp = proc[p].lfp /\ new.set = proc[p].set /\ new.wanted = proc[p].wanted
        /\ new.told = proc[p].told
    BY <1>1 DEF Process, Places
  <2> HIDE DEF new
  <2>3. /\ proc'[p] = new /\ \A q \in Pids : q # p => proc'[q] = proc[q]
    BY <2>1, <2>2, OneProcess DEF TypeInv
  <2>4. /\ port' \in 0 .. made
        /\ \A q \in Pids : At(q, {"bound", "serving", "unloading"})' => port' = q
    BY <1>3, <2>2, <2>3 DEF TypeInv, PortInv, At
  <2> QED  BY <1>1, <2>1, <2>2, <2>4, ProcessRuns DEF At, Starting
<1> QED  BY <1>2, <1>3 DEF Join

LEMMA CrashIInv ==
  ASSUME IInv, NEW p \in Pids, Crash(p)
  PROVE  IInv'
<1>1. /\ Ends(p, "crash") /\ Alive(p) /\ ~At(p, {"opened", "locked"})
      /\ UNCHANGED <<config, made, file, content, script, commands, overlapped>>
  BY DEF Crash, At, Alive
<1> QED  BY <1>1, EndsAlone DEF Failures

-----------------------------------------------------------------------------
(* The steps of the script. *)

\* A stop signal keeps all that is not about the script; whoever lives on has been
\* told.
LEMMA ToldKeeps ==
  ASSUME IInv, NEW p \in Pids, Alive(p), Told(p),
         UNCHANGED <<config, made, file, content, commands, overlapped>>,
         script' \in Scripts
  PROVE  /\ TypeInv' /\ PortInv' /\ DaemonInv' /\ ToldInv' /\ LinkInv' /\ LockInv'
         /\ \A q \in Pids : q # p => proc'[q] = proc[q]
         /\ proc'[p].set = proc[p].set /\ proc'[p].lfp = proc[p].lfp
         /\ \/ proc'[p].at = "dead"
            \/ /\ ~At(p, Starting) /\ proc'[p].at = proc[p].at
               /\ At(p, {"serving"}) => proc'[p].told # "none"
               /\ proc[p].told # "none" => proc'[p].told # "none"
<1> USE DEF IInv
<1>1. proc[p] \in Process /\ proc \in [Pids -> Process]
  BY DEF TypeInv
<1>2. CASE At(p, Starting)
  <2>1. Ends(p, "stopped")
    BY <1>2 DEF Told
  <2>2. /\ TypeInv' /\ PortInv' /\ DaemonInv' /\ ToldInv' /\ LinkInv' /\ LockInv'
        /\ proc'[p] = Dead(p, "stopped") /\ \A q \in Pids : q # p => proc'[q] = proc[q]
    BY <2>1, ProcessEnds
  <2> QED  BY <1>1, <2>2 DEF Dead, Process
<1>3. CASE ~At(p, Starting)
  <2>1. PICK told \in Threads \union {"none"} :
          /\ proc' = [proc EXCEPT ![p].told = told] /\ UNCHANGED port
          /\ proc[p].told # "none" => told # "none"
          /\ At(p, {"serving"}) => told # "none"
    <3>1. CASE At(p, {"serving"}) /\ proc[p].told = "none"
      BY <1>3, <3>1 DEF Told, Threads
    <3>2. CASE ~(At(p, {"serving"}) /\ proc[p].told = "none")
      <4>1. proc' = proc /\ UNCHANGED port
        BY <1>3, <3>2 DEF Told
      <4>2. proc' = [proc EXCEPT ![p].told = proc[p].told]
        BY <1>1, <4>1 DEF Process
      <4>3. proc[p].told \in Threads \union {"none"}
        BY <1>1 DEF Process
      <4> QED  BY <3>2, <4>1, <4>2, <4>3
    <3> QED  BY <3>1, <3>2
  <2> DEFINE new == [proc[p] EXCEPT !.told = told]
  <2>2. /\ new \in Process /\ new.at = proc[p].at /\ new.locked = proc[p].locked
        /\ new.lfp = proc[p].lfp /\ new.set = proc[p].set /\ new.wanted = proc[p].wanted
        /\ new.told = told /\ new.terminate = proc[p].terminate
    BY <1>1 DEF Process
  <2>3. proc' = [proc EXCEPT ![p] = new]
    BY <2>1
  <2> HIDE DEF new
  <2>4. /\ proc' \in [Pids -> Process] /\ proc'[p] = new
        /\ \A q \in Pids : q # p => proc'[q] = proc[q]
    BY <1>1, <2>2, <2>3, OneProcess
  <2>5. \A q \in Pids : /\ proc'[q].at = proc[q].at /\ proc'[q].locked = proc[q].locked
                        /\ proc'[q].lfp = proc[q].lfp /\ proc'[q].set = proc[q].set
                        /\ proc'[q].wanted = proc[q].wanted
    BY <2>2, <2>4
  <2>6. TypeInv' /\ PortInv'
    BY <2>1, <2>4, <2>5 DEF TypeInv, PortInv, At
  <2>7. DaemonInv'
    BY <2>5 DEF DaemonInv, At, Alive
  <2>8. ToldInv'
    BY <1>3, <2>1, <2>2, <2>4 DEF ToldInv, At, Alive
  <2>9. LinkInv'
    BY <2>5, Names DEF LinkInv, At
  <2>10. LockInv'
    BY <2>5 DEF LockInv, At
  <2> QED  BY <1>3, <2>1, <2>2, <2>4, <2>6, <2>7, <2>8, <2>9, <2>10 DEF At
<1> QED  BY <1>2, <1>3

LEMMA InterruptIInv == IInv /\ Interrupt => IInv'
<1> SUFFICES ASSUME IInv, Interrupt PROVE IInv'
  OBVIOUS
<1> DEFINE p == script.child
<1>1. /\ script.at = "wait" /\ Alive(p) /\ Told(p)
      /\ UNCHANGED <<config, made, file, content, script, commands, overlapped>>
  BY DEF Interrupt
<1>2. p \in Pids /\ proc[p].lfp = 0
  BY <1>1, Names DEF IInv, ScriptInv, DaemonInv
<1> HIDE DEF p
<1>3. script' \in Scripts
  BY <1>1 DEF IInv, TypeInv
<1>4. /\ TypeInv' /\ PortInv' /\ DaemonInv' /\ ToldInv' /\ LinkInv' /\ LockInv'
      /\ \A q \in Pids : q # p => proc'[q] = proc[q]
      /\ proc'[p].set = proc[p].set /\ proc'[p].lfp = proc[p].lfp
      /\ \/ proc'[p].at = "dead"
         \/ ~At(p, Starting) /\ proc'[p].at = proc[p].at
  BY <1>1, <1>2, <1>3, ToldKeeps
<1> USE DEF IInv
<1>5. ScriptInv'
  BY <1>1, <1>2, <1>4, Names DEF ScriptInv
<1>6. ReachInv'
  <2>1. ~proc[p].set.daemonize
    BY <1>1 DEF ScriptInv, p
  <2> QED  BY <1>1, <1>4, <2>1 DEF ReachInv, Reached, At, Starting
<1>7. StaleInv'
  <2> SUFFICES ASSUME script.at # "rm", file[ScriptFile] # 0 PROVE StaleInv'
    BY <1>1 DEF StaleInv
  <2>1. file[ScriptFile] \in Pids
    BY Names, ScriptPath
  <2>2. content[file[ScriptFile]] # p
    BY <1>2, <2>1, Names DEF LinkInv
  <2>3. \A q \in Pids : proc[q].lfp = file[ScriptFile] => q # p
    BY <1>2, <2>1, Names
  <2> QED  BY <1>1, <1>4, <2>1, <2>2, <2>3, Names DEF StaleInv, At, Alive
<1> QED  BY <1>4, <1>5, <1>6, <1>7

LEMMA KillIInv == IInv /\ Kill => IInv'
<1> SUFFICES ASSUME IInv, Kill PROVE IInv'
  OBVIOUS
<1> USE DEF IInv
<1> DEFINE p == content[file[ScriptFile]]
<1>1. /\ script.at = "kill" /\ script' = [script EXCEPT !.at = "rm"]
      /\ UNCHANGED <<config, made, file, content, commands, overlapped>>
  BY DEF Kill, Script
<1>2. /\ script' \in Scripts /\ script'.at = "rm" /\ file[ScriptFile] \in Pids
      /\ script'.child = script.child
  BY <1>1, Names, ScriptPath DEF TypeInv, Scripts, ScriptInv
<1>3. StaleInv' /\ ScriptInv'
  BY <1>1, <1>2, Names DEF StaleInv, ScriptInv
<1>4. CASE p = 0 \/ ~Alive(p)
  <2>1. UNCHANGED <<proc, port>>
    BY <1>4 DEF Kill
  <2>2. TypeInv' /\ PortInv' /\ DaemonInv' /\ ToldInv' /\ LinkInv' /\ LockInv'
    <3>1. TypeInv'
      BY <1>1, <1>2, <2>1 DEF TypeInv, At
    <3> QED  BY <1>1, <2>1, <3>1
         DEF PortInv, DaemonInv, ToldInv, LinkInv, LockInv, At, Alive, Starting
  <2>3. ReachInv'
    <3> SUFFICES ASSUME ~overlapped PROVE ReachInv'
      BY <1>1 DEF ReachInv
    <3>1. \A q \in Pids : ~At(q, Starting)
      BY <1>1 DEF ReachInv
    <3>2. \A q \in Pids : ~Reached(q)
      <4> SUFFICES ASSUME NEW q \in Pids, Reached(q) PROVE FALSE
        OBVIOUS
      <4>1. At(q, {"serving"})
        BY <3>1 DEF Reached, At, Starting
      <4>2. proc[q].locked /\ file[ScriptFile] = proc[q].lfp
        BY <4>1 DEF ReachInv, DaemonInv, Reached, At, Alive
      <4>3. p = q
        BY <4>1, <4>2 DEF LockInv, At
      <4> QED  BY <1>4, <4>1, <4>3, Names DEF At, Alive
    <3> QED  BY <1>1, <2>1, <3>1, <3>2 DEF ReachInv, Reached, At
  <2> QED  BY <1>3, <2>2, <2>3
<1>5. CASE p # 0 /\ Alive(p)
  <2>1. p \in Pids
    BY <1>2, <1>5, Names
  <2> HIDE DEF p
  <2>2. /\ TypeInv' /\ PortInv' /\ DaemonInv' /\ ToldInv' /\ LinkInv' /\ LockInv'
        /\ \A q \in Pids : q # p => proc'[q] = proc[q]
        /\ proc'[p].set = proc[p].set /\ proc'[p].lfp = proc[p].lfp
        /\ \/ proc'[p].at = "dead"
           \/ /\ ~At(p, Starting) /\ proc'[p].at = proc[p].at
              /\ At(p, {"serving"}) => proc'[p].told # "none"
    <3>1. CASE script.command = "kill"
      <4>1. Ends(p, "killed")
        BY <1>5, <3>1 DEF Kill, p
      <4>2. /\ TypeInv' /\ PortInv' /\ DaemonInv' /\ ToldInv' /\ LinkInv' /\ LockInv'
            /\ proc'[p] = Dead(p, "killed") /\ \A q \in Pids : q # p => proc'[q] = proc[q]
        BY <1>1, <1>2, <1>5, <2>1, <4>1, ProcessEnds DEF Failures
      <4>3. proc[p] \in Process
        BY <2>1 DEF TypeInv
      <4> QED  BY <4>2, <4>3 DEF Dead, Process
    <3>2. CASE script.command # "kill"
      <4>1. Told(p)
        BY <1>5, <3>2 DEF Kill, p
      <4> QED  BY <1>1, <1>2, <1>5, <2>1, <4>1, ToldKeeps
    <3> QED  BY <3>1, <3>2
  <2>3. ScriptInv'
    BY <1>3
  <2>4. ReachInv'
    <3> SUFFICES ASSUME ~overlapped PROVE ReachInv'
      BY <1>1 DEF ReachInv
    <3>1. \A q \in Pids : ~At(q, Starting)
      BY <1>1 DEF ReachInv
    <3>2. \A q \in Pids : ~At(q, Starting)'
      BY <2>2, <3>1 DEF At, Starting
    <3>3. \A q \in Pids : ~Reached(q)'
      <4> SUFFICES ASSUME NEW q \in Pids, Reached(q)' PROVE FALSE
        OBVIOUS
      <4>1. At(q, {"serving"})'
        BY <3>2 DEF Reached, At, Starting
      <4>2. q # p
        BY <2>1, <2>2, <4>1 DEF Reached, At
      <4>3. Reached(q) /\ At(q, {"serving"})
        BY <2>2, <4>1, <4>2 DEF Reached, At
      <4>4. proc[q].locked /\ file[ScriptFile] = proc[q].lfp
        BY <4>3 DEF ReachInv, DaemonInv, Reached, At, Alive
      <4>5. p = q
        BY <4>3, <4>4 DEF LockInv, At, p
      <4> QED  BY <4>2, <4>5
    <3> QED  BY <1>1, <1>2, <3>2, <3>3 DEF ReachInv
  <2> QED  BY <1>3, <2>2, <2>4
<1> QED  BY <1>4, <1>5

\* The other commands of the script change no process, until it runs one.
LEMMA ScriptKeeps ==
  ASSUME IInv, UNCHANGED <<config, proc, made, port, content>>,
         script' \in Scripts, commands' \in Nat, overlapped' \in BOOLEAN,
         \/ UNCHANGED file
         \/ file' = [file EXCEPT ![ScriptFile] = 0]
  PROVE  TypeInv' /\ PortInv' /\ DaemonInv' /\ ToldInv' /\ LinkInv' /\ LockInv'
<1> USE DEF IInv
<1>1. /\ file' \in [Paths -> 0 .. made]
      /\ \A path \in Paths : file'[path] # 0 => file'[path] = file[path]
  BY LifecycleBounds, ScriptPath DEF TypeInv
<1>2. TypeInv'
  BY <1>1 DEF TypeInv, At
<1>3. LinkInv'
  BY <1>1, Names DEF LinkInv, At
<1> QED  BY <1>2, <1>3 DEF PortInv, DaemonInv, ToldInv, LockInv, At, Alive, Starting

LEMMA GiveIInv ==
  ASSUME IInv, NEW command \in {"start", "stop", "restart", "kill", "run"}, Give(command)
  PROVE  IInv'
<1> USE DEF IInv
<1> DEFINE place == IF command = "run" THEN "exec" ELSE "test"
<1>1. /\ script = Idle /\ script' = [Idle EXCEPT !.command = command, !.at = place]
      /\ overlapped' = (overlapped \/ \E p \in Pids : At(p, Starting))
      /\ commands' = commands + 1 /\ UNCHANGED <<config, proc, made, port, file, content>>
  BY DEF Give
<1>2. place \in {"exec", "test"}
  OBVIOUS
<1> HIDE DEF place
<1>3. script' \in Scripts /\ script'.at \in {"exec", "test"}
  <2>1. script' = [at |-> place, command |-> command, child |-> 0]
    BY <1>1 DEF Idle
  <2> QED  BY <1>2, <2>1, LifecycleBounds DEF Scripts
<1>4. commands' \in Nat /\ overlapped' \in BOOLEAN
  BY <1>1 DEF TypeInv
<1>5. TypeInv' /\ PortInv' /\ DaemonInv' /\ ToldInv' /\ LinkInv' /\ LockInv'
  BY <1>1, <1>3, <1>4, ScriptKeeps
<1>6. ScriptInv'
  BY <1>3 DEF ScriptInv
<1>7. ReachInv'
  <2>1. ~overlapped' => ~overlapped /\ \A p \in Pids : ~At(p, Starting)
    BY <1>1
  <2> QED  BY <1>1, <1>3, <2>1 DEF ReachInv, Reached, At
<1>8. StaleInv'
  <2>1. script.at # "rm"
    BY <1>1 DEF Idle
  <2> QED  BY <1>1, <2>1 DEF StaleInv, At, Alive
<1> QED  BY <1>5, <1>6, <1>7, <1>8

LEMMA TestIInv == IInv /\ Test => IInv'
<1> SUFFICES ASSUME IInv, Test PROVE IInv'
  OBVIOUS
<1> USE DEF IInv
<1>1. script.at = "test" /\ UNCHANGED <<config, proc, made, port, file, content,
                                        commands, overlapped>>
  BY DEF Test
<1>2. /\ \/ script' = Idle
         \/ script' = [script EXCEPT !.at = "exec"]
         \/ script' = [script EXCEPT !.at = "kill"] /\ file[ScriptFile] # 0
  BY DEF Test
<1>3. /\ script' \in Scripts /\ script'.at \in {"idle", "exec", "kill"}
      /\ script'.at = "kill" => file[ScriptFile] # 0
  BY <1>2, LifecycleBounds DEF TypeInv, Idle, Scripts
<1>4. TypeInv' /\ PortInv' /\ DaemonInv' /\ ToldInv' /\ LinkInv' /\ LockInv'
  <2>1. commands' \in Nat /\ overlapped' \in BOOLEAN
    BY <1>1 DEF TypeInv
  <2> QED  BY <1>1, <1>3, <2>1, ScriptKeeps
<1>5. ScriptInv' /\ ReachInv'
  BY <1>1, <1>3 DEF ScriptInv, ReachInv, Reached, At
<1>6. StaleInv'
  BY <1>1 DEF StaleInv, At, Alive
<1> QED  BY <1>4, <1>5, <1>6

LEMMA RemoveIInv == IInv /\ Remove => IInv'
<1> SUFFICES ASSUME IInv, Remove PROVE IInv'
  OBVIOUS
<1> USE DEF IInv
<1>1. /\ script.at = "rm" /\ file' = [file EXCEPT ![ScriptFile] = 0]
      /\ UNCHANGED <<config, proc, made, port, content, commands, overlapped>>
      /\ script' = Idle \/ script' = [script EXCEPT !.at = "exec"]
  BY DEF Remove
<1>2. script' \in Scripts /\ script'.at \in {"idle", "exec"}
  BY <1>1, LifecycleBounds DEF TypeInv, Idle, Scripts
<1>3. TypeInv' /\ PortInv' /\ DaemonInv' /\ ToldInv' /\ LinkInv' /\ LockInv'
  <2>1. commands' \in Nat /\ overlapped' \in BOOLEAN
    BY <1>1 DEF TypeInv
  <2> QED  BY <1>1, <1>2, <2>1, ScriptKeeps
<1>4. ScriptInv' /\ ReachInv'
  BY <1>1, <1>2 DEF ScriptInv, ReachInv, Reached, At
<1>5. StaleInv'
  <2>1. file'[ScriptFile] = 0
    BY <1>1, ScriptPath DEF TypeInv
  <2> QED  BY <2>1 DEF StaleInv
<1> QED  BY <1>3, <1>4, <1>5

LEMMA ReturnIInv == IInv /\ Return => IInv'
<1> SUFFICES ASSUME IInv, Return PROVE IInv'
  OBVIOUS
<1> USE DEF IInv
<1>1. /\ script.at = "wait" /\ script' = Idle
      /\ UNCHANGED <<config, proc, made, port, file, content, commands, overlapped>>
  BY DEF Return
<1>2. script' \in Scripts /\ script'.at = "idle"
  BY <1>1, LifecycleBounds DEF Idle, Scripts
<1>3. TypeInv' /\ PortInv' /\ DaemonInv' /\ ToldInv' /\ LinkInv' /\ LockInv'
  <2>1. commands' \in Nat /\ overlapped' \in BOOLEAN
    BY <1>1 DEF TypeInv
  <2> QED  BY <1>1, <1>2, <2>1, ScriptKeeps
<1>4. ScriptInv' /\ ReachInv' /\ StaleInv'
  BY <1>1, <1>2 DEF ScriptInv, ReachInv, Reached, StaleInv, At, Alive
<1> QED  BY <1>3, <1>4

\* The process that is made has a number of its own, which no file holds.
LEMMA ExecIInv == IInv /\ Exec => IInv'
<1> SUFFICES ASSUME IInv, Exec PROVE IInv'
  OBVIOUS
<1> USE DEF IInv
<1>1. PICK p \in Pids :
        /\ script.at = "exec" /\ made' = p /\ p = made + 1 /\ made \in 0 .. MaxProcs
        /\ UNCHANGED <<config, port, file, content, commands, overlapped>>
  BY LifecycleBounds DEF Exec, TypeInv, Pids
<1>2. PICK args \in ByHand \union {<<>>}, lines \in ConfigFiles \union {<<>>} :
        /\ proc' = [proc EXCEPT ![p] = Started(args, lines)]
        /\ script' = IF Started(args, lines).set.daemonize THEN Idle
                     ELSE [script EXCEPT !.at = "wait", !.child = p]
  <2>1. PICK args \in IF script.command = "run" THEN ByHand ELSE {<<>>} :
          \E name \in ConfigNames(args) :
            LET new == Started(args, IF name = "./config.conf" THEN config ELSE <<>>) IN
            /\ proc' = [proc EXCEPT ![p] = new]
            /\ script' = IF new.set.daemonize THEN Idle
                         ELSE [script EXCEPT !.at = "wait", !.child = p]
    BY <1>1 DEF Exec
  <2>2. args \in ByHand \union {<<>>}
    BY <2>1
  <2>3. config \in ConfigFiles
    BY DEF TypeInv
  <2> QED  BY <2>1, <2>2, <2>3
<1> DEFINE new == Started(args, lines)
<1>3. /\ new \in Process /\ new.set.daemonize \in BOOLEAN
      /\ new.at = IF new.set.daemonize THEN "forked" ELSE "loading"
      /\ new.wanted => new.set.daemonize
      /\ new.lfp = 0 /\ ~new.locked /\ new.told = "none" /\ ~new.terminate
  BY StartedFacts, AllSettingsFacts
<1> HIDE DEF new
<1>4. made \in 0 .. MaxProcs /\ p \in 1 .. MaxProcs /\ p = made + 1
  BY <1>1 DEF Pids
<1>5. proc' = [proc EXCEPT ![p] = new]
  BY <1>2 DEF new
<1>6. /\ proc' \in [Pids -> Process] /\ proc'[p] = new
      /\ \A q \in Pids : q # p => proc'[q] = proc[q]
  BY <1>3, <1>4, <1>5, OneProcess DEF TypeInv
<1>7. At(p, {"none"}) /\ ~proc[p].locked /\ proc[p].lfp = 0
  BY <1>4 DEF TypeInv, DaemonInv, At, Alive
<1>8. /\ script' \in Scripts
      /\ \/ script'.at = "idle"
         \/ script'.at = "wait" /\ script'.child = p /\ ~new.set.daemonize
  <2>1. \A s \in Scripts : \A c \in 0 .. MaxProcs :
          LET waits == [s EXCEPT !.at = "wait", !.child = c] IN
          waits \in Scripts /\ waits.at = "wait" /\ waits.child = c
    BY DEF Scripts
  <2>2. script \in Scripts /\ p \in 0 .. MaxProcs
    BY <1>4 DEF TypeInv
  <2>3. Idle \in Scripts /\ Idle.at = "idle"
    BY LifecycleBounds DEF Idle, Scripts
  <2>4. script' = IF new.set.daemonize THEN Idle
                  ELSE [script EXCEPT !.at = "wait", !.child = p]
    BY <1>2 DEF new
  <2>5. CASE new.set.daemonize
    <3>1. script' = Idle
      BY <2>4, <2>5
    <3> QED  BY <2>3, <3>1
  <2>6. CASE ~new.set.daemonize
    <3>1. script' = [script EXCEPT !.at = "wait", !.child = p]
      BY <2>4, <2>6
    <3> QED  BY <2>1, <2>2, <2>6, <3>1
  <2> QED  BY <1>3, <2>5, <2>6
<1>9. TypeInv'
  <2>1. p \in 0 .. MaxProcs /\ made' = p
    BY <1>1, <1>4
  <2>2. \A n \in 0 .. made : n \in 0 .. p
    BY <1>4
  <2>3. /\ port' \in 0 .. p /\ file' \in [Paths -> 0 .. p] /\ content' \in [Pids -> 0 .. p]
    BY <1>1, <2>2 DEF TypeInv
  <2>4. \A q \in Pids : (q > p) <=> At(q, {"none"})'
    <3>1. \A q \in Pids : q # p => ((q > p) <=> (q > made))
      BY <1>4 DEF Pids
    <3>2. ~(p > p) /\ ~At(p, {"none"})'
      BY <1>3, <1>4, <1>6 DEF At
    <3> QED  BY <1>6, <3>1, <3>2 DEF TypeInv, At
  <2> QED  BY <1>1, <1>6, <1>8, <2>1, <2>3, <2>4 DEF TypeInv
<1>10. PortInv' /\ DaemonInv' /\ ToldInv'
  BY <1>1, <1>3, <1>6, <1>7 DEF PortInv, DaemonInv, ToldInv, At, Alive, Starting
<1>11. LinkInv'
  <2>1. \A q \in Pids : ~At(q, {"none"}) => q # p
    BY <1>7 DEF At
  <2>2. \A q \in Pids : ~At(q, {"none"}) => proc'[q] = proc[q]
    BY <1>6, <2>1
  <2>3. \A q \in Pids : proc'[q].lfp # 0 => proc'[q] = proc[q]
    BY <1>3, <1>6
  <2>4. /\ \A path \in Paths : file[path] # 0 => file[path] \in Pids /\ ~At(file[path], {"none"})
        /\ \A i \in Pids : content[i] # 0 => content[i] \in Pids /\ ~At(content[i], {"none"})
        /\ \A q \in Pids :
             proc[q].lfp # 0 => proc[q].lfp \in Pids /\ ~At(proc[q].lfp, {"none"})
    BY Names DEF LinkInv, At
  <2>5. ASSUME NEW path \in Paths, file[path] # 0
        PROVE  /\ proc'[file[path]].at \notin {"none", "forked"}
               /\ proc'[file[path]].set.pidFile = path
    BY <2>2, <2>4, <2>5 DEF LinkInv, At
  <2>6. ASSUME NEW q \in Pids, proc'[q].lfp # 0
        PROVE  /\ proc'[proc'[q].lfp].at \notin {"none", "forked"}
               /\ proc'[proc'[q].lfp].set.pidFile = proc'[q].set.pidFile
    <3>1. proc'[q] = proc[q]
      BY <2>3, <2>6
    <3> QED  BY <2>2, <2>4, <2>6, <3>1 DEF LinkInv, At
  <2>7. ASSUME NEW i \in Pids, content[i] # 0
        PROVE  /\ proc'[content[i]].lfp = i
               /\ proc'[content[i]].at \notin {"none", "forked", "opened", "locked"}
    BY <2>2, <2>4, <2>7 DEF LinkInv, At
  <2> QED  BY <1>1, <2>5, <2>6, <2>7 DEF LinkInv, At
<1>12. LockInv'
  BY <1>1, <1>3, <1>6, <1>7 DEF LockInv, At
<1>13. ScriptInv'
  BY <1>1, <1>3, <1>4, <1>6, <1>8, Names DEF ScriptInv
<1>14. ReachInv'
  BY <1>1, <1>3, <1>6, <1>8 DEF ReachInv, Reached, At
<1>15. StaleInv'
  <2> SUFFICES ASSUME file[ScriptFile] # 0 PROVE StaleInv'
    BY <1>1 DEF StaleInv
  <2>1. file[ScriptFile] \in Pids
    BY Names, ScriptPath
  <2>2. content[file[ScriptFile]] # p
    BY <1>7, <2>1, Names DEF LinkInv, At
  <2>3. \A q \in Pids : At(q, {"opened", "locked"}) => q # p
    BY <1>7 DEF At
  <2> QED  BY <1>1, <1>6, <2>1, <2>2, <2>3, Names DEF StaleInv, At, Alive
<1> QED  BY <1>9, <1>10, <1>11, <1>12, <1>13, <1>14, <1>15

-----------------------------------------------------------------------------
(* The theorems. *)

LEMMA StepIInv == IInv /\ [Next]_vars => IInv'
<1> SUFFICES ASSUME IInv, [Next]_vars PROVE IInv'
  OBVIOUS
<1>1. ASSUME NEW p \in Pids,
             \/ OpenPidFile(p) \/ LockPidFile(p) \/ WritePid(p) \/ LoadLibrary(p)
             \/ InitServerSocket(p) \/ SetSignalHandlers(p)
             \/ LogEnds(p) \/ Stopping(p) \/ Crash(p)
             \/ \E thread \in Threads : LogBegins(p, thread)
      PROVE  IInv'
  BY <1>1, OpenPidFileIInv, LockPidFileIInv, WritePidIInv, LoadLibraryIInv,
     InitServerSocketIInv, SetSignalHandlersIInv, ServingIInv, UnloadIInv, JoinIInv,
     CrashIInv DEF Stopping
<1>2. CASE \E command \in {"start", "stop", "restart", "kill", "run"} : Give(command)
  BY <1>2, GiveIInv
<1>3. CASE Test \/ Kill \/ Remove \/ Exec \/ Return \/ Interrupt
  BY <1>3, TestIInv, KillIInv, RemoveIInv, ExecIInv, ReturnIInv, InterruptIInv
<1>4. CASE UNCHANGED vars
  BY <1>4 DEF vars, IInv, TypeInv, PortInv, DaemonInv, ToldInv, LinkInv, LockInv,
              ScriptInv, ReachInv, Reached, StaleInv, At, Alive, Starting
<1> QED  BY <1>1, <1>2, <1>3, <1>4 DEF Next

\* What the properties say of a state follows.
LEMMA IInvImplies == IInv => TypeOK /\ Reachable /\ StaleOnlyAfterFailure
<1> SUFFICES ASSUME IInv PROVE TypeOK /\ Reachable /\ StaleOnlyAfterFailure
  OBVIOUS
<1> USE DEF IInv
<1>1. TypeOK
  <2>1. \A x \in Process :
          /\ DOMAIN x = DOMAIN NoProc
          /\ x.at \in Places /\ x.told \in Threads \union {"none"}
          /\ x.log \in Threads \union {"none"} /\ x.ended \in Failures \union {"no", "stopped"}
    BY DEF Process, NoProc
  <2> QED  BY <2>1 DEF TypeInv, PortInv, LockInv, TypeOK
<1>2. Reachable
  <2> SUFFICES ASSUME NEW p \in Pids, At(p, {"serving"}), proc[p].wanted,
                      proc[p].set.pidFile = ScriptFile, proc[p].told = "none", ~overlapped
               PROVE  file[ScriptFile] # 0 /\ content[file[ScriptFile]] = p
    BY DEF Reachable
  <2>1. proc[p].set.daemonize /\ Reached(p)
    BY DEF DaemonInv, Reached, At
  <2>2. proc[p].lfp # 0 /\ proc[p].locked
    BY <2>1 DEF DaemonInv, At, Alive
  <2> QED  BY <2>1, <2>2 DEF ReachInv, LockInv, At
<1>3. StaleOnlyAfterFailure
  BY DEF StaleInv, StaleOnlyAfterFailure, Idle
<1> QED  BY <1>1, <1>2, <1>3

THEOREM Invariance == Spec => []IInv
BY InitIInv, StepIInv, PTL DEF Spec

\* Every variable has its type; who serves has the port, and one pid file has one
\* process's lock.
THEOREM TypeCorrect == Spec => []TypeOK
BY Invariance, IInvImplies, PTL

\* A daemon that serves, and has not been told to stop, is named by the script's pid
\* file, whatever the options, as long as no command comes while a process starts.
THEOREM DaemonReachable == Spec => []Reachable
BY Invariance, IInvImplies, PTL

\* The pid file that makes start refuse is that of a process which lives, starts or
\* came to an end of its own.
THEOREM StaleFile == Spec => []StaleOnlyAfterFailure
BY Invariance, IInvImplies, PTL
=============================================================================
