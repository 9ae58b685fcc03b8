------------------------------ MODULE Dispatch ------------------------------
(***************************************************************************)
(* The heart of the server: Application::Update on the main thread posts   *)
(* events, PacketHandler::ProcessQueue on the thread named "Queue" hands   *)
(* them to the protocol library, and Application::Terminate, the handler   *)
(* of SIGINT and SIGTERM, interrupts the main thread anywhere.             *)
(*                                                                         *)
(* The threads share the immediate queue, the list of delayed events, the  *)
(* flags process and terminate, and the status in the thread table, all    *)
(* without a lock.  One call of a container or one access of a flag is one *)
(* step here; between steps every interleaving is possible.  A call whose  *)
(* precondition another thread has taken away (pop or front of an empty    *)
(* std::queue, use of an iterator into a cleared std::list) has the        *)
(* outcomes libstdc++ gives it, chosen nondeterministically.               *)
(*                                                                         *)
(* Left out: what an event carries, and which sockets are ready (module    *)
(* Dispatch says only that some activity posts some events); time (a       *)
(* delayed event may become due whenever it is aged).                      *)
(***************************************************************************)
EXTENDS Naturals, Sequences

CONSTANTS
  MaxNow,     \* bound: immediate events posted in a behaviour
  MaxLate,    \* bound: delayed events posted in a behaviour
  MaxSignals, \* bound: SIGINT/SIGTERM received in a behaviour
  Stimuli,    \* what one socket activity posts: the callbacks the library has
  ZeroDelay   \* TRUE iff the delay of some kind of delayed event is configured as 0

ASSUME BoundsAssumption == MaxNow \in Nat /\ MaxLate \in Nat /\ MaxSignals \in Nat
ASSUME StimuliAssumption ==
  Stimuli \subseteq {<<"now">>, <<"late">>, <<"now", "late">>}
ASSUME ZeroDelayAssumption == ZeroDelay \in BOOLEAN

VARIABLES
  mpc,         \* where the main thread is in Application::Update
  todo,        \* events of the current activity still to be posted
  terminate,   \* Application::terminate
  hpc,         \* where Application::Terminate is; "idle" when not running
  signals,     \* history: signals received
  process,     \* PacketHandler::process
  queue,       \* PacketHandler::queue
  delayed,     \* PacketHandler::delayedQueue
  broken,      \* queue's start has been popped one past its finish
  status,      \* thread table entry of "Queue"; "none" before push_back
  qpc,         \* where the queue thread is in ProcessQueue; "none" unborn
  it,          \* UpdateDelayed's iterator; 0 when it dangles or is not in use
  cur,         \* the event whose callback runs
  contPending, \* a SIGCONT is pending for the queue thread
  libOpen,     \* the protocol library is mapped
  crashed,     \* the process has died of a memory fault
  nowAdded,    \* history: immediate events posted, numbered from 1
  served,      \* history: number of the last immediate event dispatched
  nowCalls,    \* history: immediate events dispatched
  calls,       \* history: calls[d] is how often delayed event d was dispatched
  lateCalls,   \* history: callbacks begun since process was cleared
  stopping     \* history: Application::Terminate has been entered

mainVars    == <<mpc, todo, terminate>>
handlerVars == <<hpc, signals>>
workVars    == <<process, queue, delayed, broken>>
threadVars  == <<status, qpc, it, cur, contPending>>
histVars    == <<nowAdded, served, nowCalls, calls, lateCalls, stopping>>
vars == <<mainVars, handlerVars, workVars, threadVars, libOpen, crashed, histVars>>

Event == [id : Nat, late : BOOLEAN]
DelayedEvent == [id : Nat, due : BOOLEAN]

\* An event made of memory that holds no live event.
Garbage == [id |-> 0, late |-> TRUE]

MainPC    == {"create", "register", "loop", "body", "add", "peek", "kick",
              "unload", "join", "exited"}
HandlerPC == {"idle", "clear", "drain", "drainPop", "stopProc", "peek", "kick",
              "term"}
QueuePC   == {"none", "while", "update", "age", "reap", "check", "mark",
              "pause", "sigwait", "unmark", "take", "call", "pop", "exited"}

InUpdateDelayed == qpc \in {"age", "reap"}
InDispatch      == qpc \in {"call", "pop"}

\* Immediate events not yet dispatched: while its callback runs, and until
\* it is popped, the current event is still the head of the queue.
Waiting == IF InDispatch /\ queue # <<>> THEN Tail(queue) ELSE queue

-----------------------------------------------------------------------------
\* queue.size() != 0.  One past the finish, size() is negative as an unsigned.
NonEmpty == queue # <<>> \/ broken

\* Mutant of Push: the new event overtakes the ones that wait.
PushInFront(e) == /\ queue' = IF broken THEN queue ELSE <<e>> \o queue
                  /\ broken' = FALSE

\* queue.push(e).  A deque whose start is one past its finish swallows the
\* element: the finish catches up with the start.
Push(e) == /\ queue' = IF broken THEN queue ELSE Append(queue, e)
           /\ broken' = FALSE

\* queue.pop(), which checks nothing.
PopFront == /\ queue' = IF queue = <<>> THEN queue ELSE Tail(queue)
            /\ broken' = (broken \/ queue = <<>>)

-----------------------------------------------------------------------------
\* FTP's OnLoad calls Application::Terminate when it cannot read its
\* configuration: the server then starts with both flags already cleared.
Init ==
  /\ process \in BOOLEAN
  /\ terminate = ~process
  /\ stopping = ~process
  /\ mpc = "create" /\ todo = <<>>
  /\ hpc = "idle" /\ signals = 0
  /\ queue = <<>> /\ delayed = <<>> /\ broken = FALSE
  /\ status = "none" /\ qpc = "none" /\ it = 0 /\ cur = Garbage
  /\ contPending = FALSE
  /\ libOpen = TRUE /\ crashed = FALSE
  /\ nowAdded = 0 /\ served = 0 /\ nowCalls = 0 /\ calls = <<>> /\ lateCalls = 0

-----------------------------------------------------------------------------
(* The main thread: Application::Update.  It makes no step while the signal *)
(* handler runs on top of it.                                               *)

MainAt(pc) == ~crashed /\ hpc = "idle" /\ mpc = pc

\* pthread_create: the queue thread runs from here on.
CreateThread ==
  /\ MainAt("create")
  /\ mpc' = "register"
  /\ qpc' = "while"
  /\ UNCHANGED <<todo, terminate, handlerVars, workVars, status, it, cur,
                 contPending, libOpen, crashed, histVars>>

\* pthread_create fails: exit(-1).
CreateThreadFails ==
  /\ MainAt("create")
  /\ mpc' = "exited"
  /\ UNCHANGED <<todo, terminate, handlerVars, workVars, threadVars, libOpen,
                 crashed, histVars>>

\* ... and only now does the thread get its entry in the thread table.
RegisterThread ==
  /\ MainAt("register")
  /\ mpc' = "loop"
  /\ status' = "active"
  /\ UNCHANGED <<todo, terminate, handlerVars, workVars, qpc, it, cur,
                 contPending, libOpen, crashed, histVars>>

\* while (!terminate)
TestTerminate ==
  /\ MainAt("loop")
  /\ mpc' = IF terminate THEN "unload" ELSE "body"
  /\ UNCHANGED <<todo, terminate, handlerVars, workVars, threadVars, libOpen,
                 crashed, histVars>>

\* A connection is accepted, or data or the end of a connection is received:
\* the callbacks the library has say which events that posts.
Activity ==
  /\ MainAt("body")
  /\ \E s \in Stimuli :
       /\ s[1] = "now" => nowAdded < MaxNow
       /\ s[Len(s)] = "late" => Len(calls) < MaxLate
       /\ todo' = s
  /\ mpc' = "add"
  /\ UNCHANGED <<terminate, handlerVars, workVars, threadVars, libOpen,
                 crashed, histVars>>

\* No socket is ready (any more), the select timed out, or accept failed.
EndIteration ==
  /\ MainAt("body")
  /\ mpc' = "loop"
  /\ UNCHANGED <<todo, terminate, handlerVars, workVars, threadVars, libOpen,
                 crashed, histVars>>

AddEvent ==
  /\ MainAt("add") /\ Head(todo) = "now"
  /\ Push([id |-> nowAdded + 1, late |-> FALSE])
  /\ nowAdded' = nowAdded + 1
  /\ todo' = Tail(todo)
  /\ mpc' = "peek"
  /\ UNCHANGED <<terminate, handlerVars, process, delayed, threadVars, libOpen,
                 crashed, served, nowCalls, calls, lateCalls, stopping>>

AddDelayedEvent ==
  /\ MainAt("add") /\ Head(todo) = "late"
  /\ \E due \in {FALSE, ZeroDelay} :
       delayed' = Append(delayed, [id |-> Len(calls) + 1, due |-> due])
  /\ calls' = Append(calls, 0)
  /\ todo' = Tail(todo)
  /\ mpc' = "peek"
  /\ UNCHANGED <<terminate, handlerVars, process, queue, broken, threadVars,
                 libOpen, crashed, nowAdded, served, nowCalls, lateCalls, stopping>>

\* Mutant of AfterPost: goes on posting when everything has been posted.
AfterPostAgain == "add"

AfterPost == IF todo = <<>> THEN "body" ELSE "add"

\* Mutant of PeekStatus: the comparison is the wrong way round.
PeekStatusInverted ==
  /\ MainAt("peek")
  /\ mpc' = IF status # "suspended" THEN "kick" ELSE AfterPost
  /\ UNCHANGED <<todo, terminate, handlerVars, workVars, threadVars, libOpen,
                 crashed, histVars>>

\* if (threadMgr->GetThreadStatus(ProcessQueue) == THREAD_SUSPENDED)
PeekStatus ==
  /\ MainAt("peek")
  /\ mpc' = IF status = "suspended" THEN "kick" ELSE AfterPost
  /\ UNCHANGED <<todo, terminate, handlerVars, workVars, threadVars, libOpen,
                 crashed, histVars>>

\* ResumeThread: pthread_kill(thread, SIGCONT)
ResumeThread ==
  /\ MainAt("kick")
  /\ mpc' = AfterPost
  /\ contPending' = TRUE
  /\ UNCHANGED <<todo, terminate, handlerVars, workVars, status, qpc, it, cur,
                 libOpen, crashed, histVars>>

\* OnUnload, dlclose, close every socket.
Unload ==
  /\ MainAt("unload")
  /\ mpc' = "join"
  /\ libOpen' = FALSE
  /\ UNCHANGED <<todo, terminate, handlerVars, workVars, threadVars, crashed,
                 histVars>>

\* pthread_join returns once the queue thread has ended.
Join ==
  /\ MainAt("join") /\ qpc = "exited"
  /\ mpc' = "exited"
  /\ UNCHANGED <<todo, terminate, handlerVars, workVars, threadVars, libOpen,
                 crashed, histVars>>

Main == \/ CreateThread \/ CreateThreadFails \/ RegisterThread \/ TestTerminate
        \/ Activity \/ EndIteration \/ AddEvent \/ AddDelayedEvent
        \/ PeekStatus \/ ResumeThread \/ Unload \/ Join

-----------------------------------------------------------------------------
(* Application::Terminate, run by the signal handler HandleInterupt.  The   *)
(* kernel delivers a signal sent to the process to its main thread.         *)

HandlerAt(pc) == ~crashed /\ hpc = pc

Signal ==
  /\ HandlerAt("idle") /\ mpc # "exited" /\ signals < MaxSignals
  /\ hpc' = "clear"
  /\ signals' = signals + 1
  /\ stopping' = TRUE
  /\ UNCHANGED <<mainVars, workVars, threadVars, libOpen, crashed, nowAdded,
                 served, nowCalls, calls, lateCalls>>

\* delayedQueue.clear(), under the feet of UpdateDelayed if it is running.
ClearDelayed ==
  /\ HandlerAt("clear")
  /\ hpc' = "drain"
  /\ delayed' = <<>>
  /\ it' = 0
  /\ UNCHANGED <<mainVars, signals, process, queue, broken, status, qpc, cur,
                 contPending, libOpen, crashed, histVars>>

\* while (queue.size()): of a deque broken by a pop, pops until it faults.
DrainTest ==
  /\ HandlerAt("drain")
  /\ hpc' = IF NonEmpty THEN "drainPop" ELSE "stopProc"
  /\ crashed' = broken
  /\ UNCHANGED <<mainVars, signals, workVars, threadVars, libOpen, histVars>>

DrainPop ==
  /\ HandlerAt("drainPop")
  /\ hpc' = "drain"
  /\ PopFront
  /\ UNCHANGED <<mainVars, signals, process, delayed, threadVars, libOpen,
                 crashed, histVars>>

\* process = false
StopProcess ==
  /\ HandlerAt("stopProc")
  /\ hpc' = "peek"
  /\ process' = FALSE
  /\ UNCHANGED <<mainVars, signals, queue, delayed, broken, threadVars, libOpen,
                 crashed, histVars>>

\* Mutant of TerminatePeek: Terminate does not resume a suspended thread.
TerminateWithoutResume ==
  /\ HandlerAt("peek")
  /\ hpc' = "term"
  /\ UNCHANGED <<mainVars, signals, workVars, threadVars, libOpen, crashed,
                 histVars>>

TerminatePeek ==
  /\ HandlerAt("peek")
  /\ hpc' = IF status = "suspended" THEN "kick" ELSE "term"
  /\ UNCHANGED <<mainVars, signals, workVars, threadVars, libOpen, crashed,
                 histVars>>

TerminateResume ==
  /\ HandlerAt("kick")
  /\ hpc' = "term"
  /\ contPending' = TRUE
  /\ UNCHANGED <<mainVars, signals, workVars, status, qpc, it, cur, libOpen,
                 crashed, histVars>>

\* terminate = true, and back to the interrupted code.
SetTerminate ==
  /\ HandlerAt("term")
  /\ hpc' = "idle"
  /\ terminate' = TRUE
  /\ UNCHANGED <<mpc, todo, signals, workVars, threadVars, libOpen, crashed,
                 histVars>>

Terminating == \/ ClearDelayed \/ DrainTest \/ DrainPop \/ StopProcess
               \/ TerminatePeek \/ TerminateResume \/ SetTerminate

-----------------------------------------------------------------------------
(* The queue thread: PacketHandler::ProcessQueue.  When the main thread     *)
(* leaves Update the process is gone.                                       *)

QueueAt(pc) == ~crashed /\ mpc # "exited" /\ qpc = pc

\* Mutant of TestProcess: serves the whole queue before it stops.
TestProcessWhenIdle ==
  /\ QueueAt("while")
  /\ qpc' = IF process \/ NonEmpty THEN "update" ELSE "exited"
  /\ UNCHANGED <<mainVars, handlerVars, workVars, status, it, cur, contPending,
                 libOpen, crashed, histVars>>

\* while (process)
TestProcess ==
  /\ QueueAt("while")
  /\ qpc' = IF process THEN "update" ELSE "exited"
  /\ UNCHANGED <<mainVars, handlerVars, workVars, status, it, cur, contPending,
                 libOpen, crashed, histVars>>

\* UpdateDelayed: nothing to do, or begin() of the first loop.
UpdateDelayed ==
  /\ QueueAt("update")
  /\ IF delayed = <<>> THEN qpc' = "check" /\ it' = it
                       ELSE qpc' = "age"   /\ it' = 1
  /\ UNCHANGED <<mainVars, handlerVars, workVars, status, cur, contPending,
                 libOpen, crashed, histVars>>

\* First loop: it->Update(...); if (it->Execute()) queue.push(*it); it++.
\* Time may or may not have brought a delay down to 0.  At end() the second
\* loop starts at begin().
Age ==
  /\ QueueAt("age") /\ it # 0
  /\ \E due \in BOOLEAN :
       /\ delayed[it].due => due
       /\ delayed' = [delayed EXCEPT ![it].due = due]
       /\ IF due THEN Push([id |-> delayed[it].id, late |-> TRUE])
                 ELSE UNCHANGED <<queue, broken>>
  /\ IF it < Len(delayed) THEN qpc' = "age"  /\ it' = it + 1
                          ELSE qpc' = "reap" /\ it' = 1
  /\ UNCHANGED <<mainVars, handlerVars, process, status, cur, contPending,
                 libOpen, crashed, histVars>>

\* The node was freed by clear(): a fault, or the loop ends by way of the
\* freed node's stale pointer, after pushing the stale event if it looks due.
AgeDangling ==
  /\ QueueAt("age") /\ it = 0
  /\ \/ /\ crashed' = TRUE
        /\ UNCHANGED <<queue, broken, qpc>>
        /\ UNCHANGED it
     \/ /\ Push(Garbage) \/ UNCHANGED <<queue, broken>>
        /\ IF delayed = <<>> THEN qpc' = "check" /\ it' = 0
                             ELSE qpc' = "reap"  /\ it' = 1
        /\ UNCHANGED crashed
  /\ UNCHANGED <<mainVars, handlerVars, process, delayed, status, cur,
                 contPending, libOpen, histVars>>

\* Mutant of Reap: looks at the clock again, like the first loop does.
ReapOnFreshClock ==
  /\ QueueAt("reap") /\ it # 0
  /\ \E due \in BOOLEAN :
     LET rest == SubSeq(delayed, 1, it - 1) \o SubSeq(delayed, it + 1, Len(delayed))
         left == IF due THEN rest ELSE delayed
         next == IF due THEN 2 ELSE it + 1
     IN  /\ delayed[it].due => due
         /\ delayed' = left
         /\ IF next <= Len(left) THEN qpc' = "reap"  /\ it' = next
                                 ELSE qpc' = "check" /\ it' = 0
  /\ UNCHANGED <<mainVars, handlerVars, process, queue, broken, status, cur,
                 contPending, libOpen, crashed, histVars>>

\* Mutant of Reap: stops at the first element that is not due.
ReapSorted ==
  /\ QueueAt("reap") /\ it # 0
  /\ IF delayed[it].due
     THEN /\ delayed' = Tail(delayed)
          /\ IF Len(delayed) > 1 THEN UNCHANGED <<qpc, it>> ELSE qpc' = "check" /\ it' = 0
     ELSE UNCHANGED delayed /\ qpc' = "check" /\ it' = 0
  /\ UNCHANGED <<mainVars, handlerVars, process, queue, broken, status, cur,
                 contPending, libOpen, crashed, histVars>>

\* Second loop.  After an erase `it = begin()' meets the loop's `it++': the
\* element that has become the first one is skipped.
Reap ==
  /\ QueueAt("reap") /\ it # 0
  /\ LET due  == delayed[it].due
         rest == SubSeq(delayed, 1, it - 1) \o SubSeq(delayed, it + 1, Len(delayed))
         left == IF due THEN rest ELSE delayed
         next == IF due THEN 2 ELSE it + 1
     IN  /\ delayed' = left
         /\ IF next <= Len(left) THEN qpc' = "reap"  /\ it' = next
                                 ELSE qpc' = "check" /\ it' = 0
  /\ UNCHANGED <<mainVars, handlerVars, process, queue, broken, status, cur,
                 contPending, libOpen, crashed, histVars>>

\* A freed node again: unlinking it a second time faults, or nothing happens.
ReapDangling ==
  /\ QueueAt("reap") /\ it = 0
  /\ \/ crashed' = TRUE  /\ UNCHANGED qpc
     \/ crashed' = FALSE /\ qpc' = "check"
  /\ UNCHANGED <<mainVars, handlerVars, workVars, status, it, cur, contPending,
                 libOpen, histVars>>

\* Mutant of CheckEmpty: only the delayed events keep the thread awake.
CheckDelayedOnly ==
  /\ QueueAt("check")
  /\ qpc' = IF delayed # <<>> THEN "take" ELSE "mark"
  /\ UNCHANGED <<mainVars, handlerVars, workVars, status, it, cur, contPending,
                 libOpen, crashed, histVars>>

\* if (!queue.size() && !delayedQueue.size())
CheckEmpty ==
  /\ QueueAt("check")
  /\ qpc' = IF NonEmpty \/ delayed # <<>> THEN "take" ELSE "mark"
  /\ UNCHANGED <<mainVars, handlerVars, workVars, status, it, cur, contPending,
                 libOpen, crashed, histVars>>

\* SetThreadStatus(GetThisThread(), THREAD_SUSPENDED).  A thread that is not
\* in the table yet is looked up through a null reference: a fault, or, when
\* the comparison of its address is compiled in, no effect.
MarkSuspended ==
  /\ QueueAt("mark")
  /\ \/ /\ status # "none"
        /\ status' = "suspended" /\ qpc' = "pause" /\ UNCHANGED crashed
     \/ /\ status = "none"
        /\ UNCHANGED status
        /\ \/ crashed' = TRUE  /\ UNCHANGED qpc
           \/ crashed' = FALSE /\ qpc' = "pause"
  /\ UNCHANGED <<mainVars, handlerVars, workVars, it, cur, contPending, libOpen,
                 histVars>>

\* freezeDetector->Pause(), then sigwait.
EnterSigwait ==
  /\ QueueAt("pause")
  /\ qpc' = "sigwait"
  /\ UNCHANGED <<mainVars, handlerVars, workVars, status, it, cur, contPending,
                 libOpen, crashed, histVars>>

SigwaitReturns ==
  /\ QueueAt("sigwait") /\ contPending
  /\ contPending' = FALSE
  /\ qpc' = "unmark"
  /\ UNCHANGED <<mainVars, handlerVars, workVars, status, it, cur, libOpen,
                 crashed, histVars>>

\* SIGCONT anywhere else runs SigContHandler, which does nothing.
SigContHandler ==
  /\ ~crashed /\ mpc # "exited" /\ contPending
  /\ qpc \notin {"none", "sigwait", "exited"}
  /\ contPending' = FALSE
  /\ UNCHANGED <<mainVars, handlerVars, workVars, status, qpc, it, cur, libOpen,
                 crashed, histVars>>

\* SetThreadStatus(GetThisThread(), THREAD_ACTIVE)
MarkActive ==
  /\ QueueAt("unmark")
  /\ status' = IF status = "none" THEN status ELSE "active"
  /\ qpc' = "take"
  /\ UNCHANGED <<mainVars, handlerVars, workVars, it, cur, contPending, libOpen,
                 crashed, histVars>>

\* Mutant of Take: the event is popped before its callback runs.
TakeAndPop ==
  /\ QueueAt("take") /\ queue # <<>>
  /\ cur' = Head(queue)
  /\ queue' = Tail(queue)
  /\ qpc' = "call"
  /\ UNCHANGED <<mainVars, handlerVars, process, delayed, broken, status, it,
                 contPending, libOpen, crashed, histVars>>

\* if (queue.size()) { Event& event = queue.front(); call ...
Take ==
  /\ QueueAt("take") /\ queue # <<>>
  /\ cur' = Head(queue)
  /\ IF cur'.late
     THEN /\ calls' = IF cur'.id \in DOMAIN calls
                      THEN [calls EXCEPT ![cur'.id] = @ + 1] ELSE calls
          /\ UNCHANGED <<served, nowCalls>>
     ELSE served' = cur'.id /\ nowCalls' = nowCalls + 1 /\ UNCHANGED calls
  /\ lateCalls' = IF process THEN lateCalls ELSE lateCalls + 1
  /\ qpc' = "call"
  /\ UNCHANGED <<mainVars, handlerVars, workVars, status, it, contPending,
                 libOpen, crashed, nowAdded, stopping>>

\* Mutant of TakeGarbage: the size of the queue is not tested before front().
TakeUnchecked ==
  /\ QueueAt("take") /\ queue = <<>>
  /\ cur' = Garbage
  /\ \/ crashed' = TRUE  /\ UNCHANGED qpc
     \/ crashed' = FALSE /\ qpc' = "pop"
  /\ UNCHANGED <<mainVars, handlerVars, workVars, status, it, contPending,
                 libOpen, histVars>>

\* front() of a deque broken by a pop: a fault, or an event of no known type,
\* or one that looks like an event.
TakeGarbage ==
  /\ QueueAt("take") /\ queue = <<>> /\ broken
  /\ cur' = Garbage
  /\ \/ crashed' = TRUE  /\ UNCHANGED <<qpc, lateCalls>>
     \/ crashed' = FALSE /\ qpc' = "pop" /\ UNCHANGED lateCalls
     \/ /\ crashed' = FALSE /\ qpc' = "call"
        /\ lateCalls' = IF process THEN lateCalls ELSE lateCalls + 1
  /\ UNCHANGED <<mainVars, handlerVars, workVars, status, it, contPending,
                 libOpen, nowAdded, served, nowCalls, calls, stopping>>

\* No immediate event: sleep a while if there are delayed ones, and loop.
TakeNothing ==
  /\ QueueAt("take") /\ ~NonEmpty
  /\ qpc' = "while"
  /\ UNCHANGED <<mainVars, handlerVars, workVars, status, it, cur, contPending,
                 libOpen, crashed, histVars>>

\* The callback returns.
CallbackReturns ==
  /\ QueueAt("call") /\ libOpen
  /\ qpc' = "pop"
  /\ UNCHANGED <<mainVars, handlerVars, workVars, status, it, cur, contPending,
                 libOpen, crashed, histVars>>

\* The library was unmapped while its callback ran, or before it was called.
CallbackFaults ==
  /\ QueueAt("call") /\ ~libOpen
  /\ crashed' = TRUE
  /\ UNCHANGED <<mainVars, handlerVars, workVars, threadVars, libOpen, histVars>>

\* Mutant of Pop: an event stays queued after its callback.
PopForgotten ==
  /\ QueueAt("pop")
  /\ qpc' = "while"
  /\ cur' = Garbage
  /\ UNCHANGED <<mainVars, handlerVars, workVars, status, it, contPending,
                 libOpen, crashed, histVars>>

\* queue.pop(), whatever the head is by now.
Pop ==
  /\ QueueAt("pop")
  /\ PopFront
  /\ qpc' = "while"
  /\ cur' = Garbage
  /\ UNCHANGED <<mainVars, handlerVars, process, delayed, status, it,
                 contPending, libOpen, crashed, histVars>>

ProcessQueue ==
  \/ TestProcess \/ UpdateDelayed \/ Age \/ AgeDangling \/ Reap \/ ReapDangling
  \/ CheckEmpty \/ MarkSuspended \/ EnterSigwait \/ SigwaitReturns \/ MarkActive
  \/ Take \/ TakeGarbage \/ TakeNothing \/ CallbackReturns \/ CallbackFaults \/ Pop

-----------------------------------------------------------------------------
Next == Main \/ Signal \/ Terminating \/ ProcessQueue \/ SigContHandler

Spec == Init /\ [][Next]_vars

\* Each thread is scheduled: select has a timeout, and callbacks are assumed
\* to return.  That a signal arrives, or is ever delivered to a thread that
\* does not wait for it, is not assumed.
Fairness == WF_vars(Main) /\ WF_vars(Terminating) /\ WF_vars(ProcessQueue)

FairSpec == Spec /\ Fairness

-----------------------------------------------------------------------------
(* Types. *)

TypeOK ==
  /\ mpc \in MainPC /\ hpc \in HandlerPC /\ qpc \in QueuePC
  /\ todo \in Seq({"now", "late"})
  /\ terminate \in BOOLEAN /\ process \in BOOLEAN /\ broken \in BOOLEAN
  /\ contPending \in BOOLEAN /\ libOpen \in BOOLEAN /\ crashed \in BOOLEAN
  /\ stopping \in BOOLEAN
  /\ signals \in Nat /\ it \in Nat /\ lateCalls \in Nat
  /\ nowAdded \in Nat /\ served \in Nat /\ nowCalls \in Nat
  /\ queue \in Seq(Event) /\ delayed \in Seq(DelayedEvent) /\ calls \in Seq(Nat)
  /\ cur \in Event
  /\ status \in {"none", "active", "suspended"}
  /\ mpc = "add" => todo # <<>>

-----------------------------------------------------------------------------
(* Safety. *)

\* Until the server is told to stop, the immediate events in the queue that
\* have not been dispatched are exactly the posted ones after the last
\* dispatched one, in the order they were posted: AddEvent and the pop at the
\* end of ProcessQueue's loop, made by two threads with delayed events pushed
\* in between, lose, repeat and reorder nothing.
InOrderOnce ==
  ~stopping =>
    /\ \A i, j \in DOMAIN Waiting :
         i < j /\ ~Waiting[i].late /\ ~Waiting[j].late
           => Waiting[i].id < Waiting[j].id
    /\ \A i \in DOMAIN Waiting :
         ~Waiting[i].late => Waiting[i].id \in (served + 1) .. nowAdded
    /\ \A n \in (served + 1) .. nowAdded :
         \E i \in DOMAIN Waiting : Waiting[i] = [id |-> n, late |-> FALSE]

\* Until the server is told to stop, the event whose callback runs stays the
\* head of the queue, so the pop after the callback removes that event.
CurrentIsHead == ~stopping /\ InDispatch => queue # <<>> /\ Head(queue) = cur

\* Once process is false at most one more callback begins: the one the queue
\* thread was on its way to when Terminate cleared the flag.
StopServesAtMostOne == lateCalls <= 1

\* The unlocked sharing of the two queues, the thread table and the library
\* kills the process only while it stops, or before the new thread is in the
\* thread table.
CrashOnlyAfterStop == crashed => stopping \/ status = "none"

\* A delayed event is never lost between UpdateDelayed's two loops, which test
\* Execute() a second time: until the server stops, one that has not been
\* dispatched is in the list or in the queue.  (It takes ZeroDelay = FALSE: an
\* event posted with delay 0 between the two loops is erased unseen.)
DelayedKept ==
  ~stopping => \A d \in DOMAIN calls :
    \/ calls[d] > 0
    \/ \E i \in DOMAIN delayed : delayed[i].id = d
    \/ \E i \in DOMAIN queue : queue[i] = [id |-> d, late |-> TRUE]

\* A delayed event that UpdateDelayed's second loop skips over is pushed again
\* by the next pass, but by that one only.
DelayedAtMostTwice == \A d \in DOMAIN calls : calls[d] <= 2

\* Dispatch implements EventService.
Service == INSTANCE EventService WITH posted <- nowAdded, runs <- nowCalls,
                                     stopped <- stopping

ServiceSpec == Service!Spec

-----------------------------------------------------------------------------
(* Liveness, under FairSpec. *)

\* A main thread about to look at the status of a thread that sleeps and is
\* marked as sleeping wakes it.
NextEventWakes ==
  (mpc = "peek" /\ hpc = "idle" /\ qpc = "sigwait" /\ status = "suspended")
    ~> (qpc # "sigwait" \/ crashed)

\* The woken thread serves everything that was posted before it went back to
\* work, before it can sleep again.
WokenCatchesUp ==
  \A n \in 1 .. MaxNow :
    (qpc = "unmark" /\ nowAdded >= n) ~> (served >= n \/ stopping \/ crashed)

\* A stop that finds the queue thread asleep, marked as sleeping and not being
\* woken already ends it, and with it the process.
StopWhileAsleepEnds ==
  (hpc = "clear" /\ qpc = "sigwait" /\ status = "suspended" /\ ~contPending)
    ~> (mpc = "exited" \/ crashed)

\* What the code says of itself (Handler.cpp:81): the queue thread sleeps
\* "until data arrives".
WakesWhenDataArrives == (qpc = "sigwait" /\ queue # <<>>) ~> qpc # "sigwait"

\* What IkarosCtl.sh relies on: a signalled application terminates.
StopEnds == stopping ~> (mpc = "exited" \/ crashed)
=============================================================================
