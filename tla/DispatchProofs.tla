--------------------------- MODULE DispatchProofs ---------------------------
(***************************************************************************)
(* Proofs about Dispatch for every bound, every library and any number of  *)
(* signals: type correctness, no loss, repetition or reordering before the *)
(* stop, at most one callback after it, where the process can fault, and   *)
(* that Dispatch implements EventService.                                  *)
(***************************************************************************)
EXTENDS Dispatch, SequenceTheorems, TLAPS

-----------------------------------------------------------------------------
(* Type correctness. *)

\* There is no queue thread before pthread_create, and UpdateDelayed's iterator
\* points into the list, unless it dangles or is not in use.
IteratorOK ==
  /\ mpc = "create" => qpc = "none"
  /\ it # 0 => InUpdateDelayed /\ it <= Len(delayed)

TypeInv == TypeOK /\ IteratorOK

\* Pushing an event and popping one keep the queue a sequence of events.
LEMMA PushType ==
  ASSUME NEW e \in Event, queue \in Seq(Event), broken \in BOOLEAN, Push(e)
  PROVE  queue' \in Seq(Event) /\ broken' \in BOOLEAN
<1>1. Append(queue, e) \in Seq(Event)
  BY AppendProperties
<1> QED  BY <1>1 DEF Push

LEMMA PopType ==
  ASSUME queue \in Seq(Event), broken \in BOOLEAN, PopFront
  PROVE  queue' \in Seq(Event) /\ broken' \in BOOLEAN
<1>1. queue # <<>> => Tail(queue) \in Seq(Event)
  BY HeadTailProperties
<1> QED  BY <1>1 DEF PopFront

\* Erasing the element the iterator points to.
LEMMA EraseType ==
  ASSUME NEW S, NEW s \in Seq(S), NEW i \in 1 .. Len(s)
  PROVE  /\ SubSeq(s, 1, i - 1) \o SubSeq(s, i + 1, Len(s)) \in Seq(S)
         /\ Len(SubSeq(s, 1, i - 1) \o SubSeq(s, i + 1, Len(s))) = Len(s) - 1
<1>1. SubSeq(s, 1, i - 1) \in Seq(S) /\ Len(SubSeq(s, 1, i - 1)) = i - 1
  BY SubSeqProperties
<1>2. /\ SubSeq(s, i + 1, Len(s)) \in Seq(S)
      /\ Len(SubSeq(s, i + 1, Len(s))) = Len(s) - i
  BY SubSeqProperties
<1> DEFINE a == SubSeq(s, 1, i - 1)
           b == SubSeq(s, i + 1, Len(s))
<1>3. a \o b \in Seq(S) /\ Len(a \o b) = Len(a) + Len(b)
  BY <1>1, <1>2, ConcatProperties
<1>4. Len(s) \in Nat /\ i \in Nat
  BY LenProperties
<1> HIDE DEF a, b
<1> SUFFICES a \o b \in Seq(S) /\ Len(a \o b) = Len(s) - 1
  BY DEF a, b
<1>5. Len(a) = i - 1 /\ Len(b) = Len(s) - i
  BY <1>1, <1>2 DEF a, b
<1> QED  BY <1>3, <1>4, <1>5

\* What an activity posts is a sequence of one or two kinds of event.
LEMMA StimulusType ==
  ASSUME NEW s \in Stimuli
  PROVE  s \in Seq({"now", "late"}) /\ s # <<>>
<1>1. <<"now">> \in Seq({"now", "late"})
  OBVIOUS
<1>2. <<"late">> \in Seq({"now", "late"})
  OBVIOUS
<1>3. <<"now", "late">> \in Seq({"now", "late"})
  OBVIOUS
<1>4. s # <<>>
  BY StimuliAssumption
<1> QED  BY <1>1, <1>2, <1>3, <1>4, StimuliAssumption

\* No step of the program leaves the types of its variables.
LEMMA TypeStep == TypeOK /\ IteratorOK /\ [Next]_vars => TypeOK'
<1> SUFFICES ASSUME TypeOK, IteratorOK, [Next]_vars  PROVE TypeOK'
  OBVIOUS
<1> USE DEF TypeOK, MainPC, HandlerPC, QueuePC, mainVars, handlerVars, workVars,
            threadVars, histVars, AfterPost
<1>1. CASE CreateThread
  BY <1>1 DEF CreateThread, MainAt
<1>2. CASE CreateThreadFails
  BY <1>2 DEF CreateThreadFails, MainAt
<1>3. CASE RegisterThread
  BY <1>3 DEF RegisterThread, MainAt
<1>4. CASE TestTerminate
  BY <1>4 DEF TestTerminate, MainAt
<1>5. CASE Activity
  <2>1. PICK s \in Stimuli : todo' = s
    BY <1>5 DEF Activity
  <2>2. s \in Seq({"now", "late"}) /\ s # <<>>
    BY StimulusType
  <2> QED  BY <1>5, <2>1, <2>2 DEF Activity, MainAt
<1>6. CASE EndIteration
  BY <1>6 DEF EndIteration, MainAt
<1>7. CASE AddEvent
  <2>1. [id |-> nowAdded + 1, late |-> FALSE] \in Event
    BY DEF Event
  <2>2. queue' \in Seq(Event) /\ broken' \in BOOLEAN
    BY <1>7, <2>1, PushType DEF AddEvent
  <2> QED  BY <1>7, <2>2 DEF AddEvent, MainAt
<1>8. CASE AddDelayedEvent
  <2>1. PICK due \in {FALSE, ZeroDelay} :
          delayed' = Append(delayed, [id |-> Len(calls) + 1, due |-> due])
    BY <1>8 DEF AddDelayedEvent
  <2>2. due \in BOOLEAN
    BY ZeroDelayAssumption
  <2>3. [id |-> Len(calls) + 1, due |-> due] \in DelayedEvent
    BY <2>2 DEF DelayedEvent
  <2> QED  BY <1>8, <2>1, <2>3 DEF AddDelayedEvent, MainAt
<1>9. CASE PeekStatus
  BY <1>9 DEF PeekStatus, MainAt
<1>10. CASE ResumeThread
  BY <1>10 DEF ResumeThread, MainAt
<1>11. CASE Unload
  BY <1>11 DEF Unload, MainAt
<1>12. CASE Join
  BY <1>12 DEF Join, MainAt
<1>13. CASE Signal
  BY <1>13 DEF Signal, HandlerAt
<1>14. CASE ClearDelayed
  BY <1>14 DEF ClearDelayed, HandlerAt
<1>15. CASE DrainTest
  BY <1>15 DEF DrainTest, HandlerAt
<1>16. CASE DrainPop
  <2>1. queue' \in Seq(Event) /\ broken' \in BOOLEAN
    BY <1>16, PopType DEF DrainPop
  <2> QED  BY <1>16, <2>1 DEF DrainPop, HandlerAt
<1>17. CASE StopProcess
  <2>1. process' \in BOOLEAN
    BY <1>17 DEF StopProcess
  <2> QED  BY <1>17, <2>1 DEF StopProcess, HandlerAt
<1>18. CASE TerminatePeek
  BY <1>18 DEF TerminatePeek, HandlerAt
<1>19. CASE TerminateResume
  BY <1>19 DEF TerminateResume, HandlerAt
<1>20. CASE SetTerminate
  BY <1>20 DEF SetTerminate, HandlerAt
<1>21. CASE TestProcess
  BY <1>21 DEF TestProcess, QueueAt
<1>22. CASE UpdateDelayed
  BY <1>22 DEF UpdateDelayed, QueueAt
<1>23. CASE Age
  <2>1. PICK due \in BOOLEAN :
          /\ delayed' = [delayed EXCEPT ![it].due = due]
          /\ IF due THEN Push([id |-> delayed[it].id, late |-> TRUE])
                    ELSE UNCHANGED <<queue, broken>>
    BY <1>23 DEF Age
  <2>2. it \in 1 .. Len(delayed) /\ delayed[it] \in DelayedEvent
    BY <1>23 DEF Age, QueueAt, IteratorOK
  <2>3. [delayed[it] EXCEPT !.due = due] \in DelayedEvent
    BY <2>2 DEF DelayedEvent
  <2>4. delayed' \in Seq(DelayedEvent) /\ Len(delayed') = Len(delayed)
    BY <2>1, <2>2, <2>3
  <2>5. [id |-> delayed[it].id, late |-> TRUE] \in Event
    BY <2>2 DEF Event, DelayedEvent
  <2>6. queue' \in Seq(Event) /\ broken' \in BOOLEAN
    BY <2>1, <2>5, PushType
  <2> QED  BY <1>23, <2>2, <2>4, <2>6 DEF Age, QueueAt
<1>24. CASE AgeDangling
  <2>1. Garbage \in Event
    BY DEF Garbage, Event
  <2>2. queue' \in Seq(Event) /\ broken' \in BOOLEAN
    BY <1>24, <2>1, PushType DEF AgeDangling
  <2>3. crashed' \in BOOLEAN
    BY <1>24 DEF AgeDangling
  <2>4. it' \in Nat /\ qpc' \in QueuePC
    BY <1>24 DEF AgeDangling, QueueAt
  <2> QED  BY <1>24, <2>2, <2>3, <2>4 DEF AgeDangling, QueueAt
<1>25. CASE Reap
  <2>1. it \in 1 .. Len(delayed)
    BY <1>25 DEF Reap, QueueAt, IteratorOK
  <2> DEFINE rest == SubSeq(delayed, 1, it - 1) \o SubSeq(delayed, it + 1, Len(delayed))
  <2>2. rest \in Seq(DelayedEvent)
    BY <2>1, EraseType
  <2>3. delayed' = IF delayed[it].due THEN rest ELSE delayed
    BY <1>25 DEF Reap
  <2>4. it' \in Nat /\ qpc' \in QueuePC
    <3>1. it' \in {0, 2, it + 1} /\ qpc' \in {"reap", "check"}
      BY <1>25 DEF Reap
    <3> QED  BY <3>1
  <2> QED  BY <1>25, <2>2, <2>3, <2>4 DEF Reap
<1>26. CASE ReapDangling
  <2>1. crashed' \in BOOLEAN
    BY <1>26 DEF ReapDangling
  <2> QED  BY <1>26, <2>1 DEF ReapDangling, QueueAt
<1>27. CASE CheckEmpty
  BY <1>27 DEF CheckEmpty, QueueAt
<1>28. CASE MarkSuspended
  <2>1. crashed' \in BOOLEAN
    BY <1>28 DEF MarkSuspended
  <2> QED  BY <1>28, <2>1 DEF MarkSuspended, QueueAt
<1>29. CASE EnterSigwait
  BY <1>29 DEF EnterSigwait, QueueAt
<1>30. CASE SigwaitReturns
  <2>1. contPending' \in BOOLEAN
    BY <1>30 DEF SigwaitReturns
  <2> QED  BY <1>30, <2>1 DEF SigwaitReturns, QueueAt
<1>31. CASE SigContHandler
  <2>1. contPending' \in BOOLEAN
    BY <1>31 DEF SigContHandler
  <2> QED  BY <1>31, <2>1 DEF SigContHandler
<1>32. CASE MarkActive
  BY <1>32 DEF MarkActive, QueueAt
<1>33. CASE Take
  <2>1. cur' = Head(queue) /\ cur' \in Event
    BY <1>33 DEF Take
  <2>2. served' \in Nat /\ nowCalls' \in Nat /\ calls' \in Seq(Nat)
    <3>1. cur'.id \in Nat
      BY <2>1 DEF Event
    <3>2. cur'.id \in DOMAIN calls => [calls EXCEPT ![cur'.id] = @ + 1] \in Seq(Nat)
      BY ExceptSeq
    <3>3. CASE cur'.late
      BY <1>33, <3>2, <3>3 DEF Take
    <3>4. CASE ~cur'.late
      BY <1>33, <3>1, <3>4 DEF Take
    <3> QED  BY <3>3, <3>4
  <2>3. lateCalls' \in Nat
    BY <1>33 DEF Take
  <2> QED  BY <1>33, <2>1, <2>2, <2>3 DEF Take, QueueAt
<1>34. CASE TakeGarbage
  <2>1. crashed' \in BOOLEAN
    BY <1>34 DEF TakeGarbage
  <2> QED  BY <1>34, <2>1 DEF TakeGarbage, QueueAt, Garbage, Event
<1>35. CASE TakeNothing
  BY <1>35 DEF TakeNothing, QueueAt
<1>36. CASE CallbackReturns
  BY <1>36 DEF CallbackReturns, QueueAt
<1>37. CASE CallbackFaults
  BY <1>37 DEF CallbackFaults, QueueAt
<1>38. CASE Pop
  <2>1. queue' \in Seq(Event) /\ broken' \in BOOLEAN
    BY <1>38, PopType DEF Pop
  <2> QED  BY <1>38, <2>1 DEF Pop, QueueAt, Garbage, Event
<1>39. CASE UNCHANGED vars
  BY <1>39 DEF vars
<1> QED
  BY <1>1, <1>2, <1>3, <1>4, <1>5, <1>6, <1>7, <1>8, <1>9, <1>10, <1>11, <1>12, <1>13,
     <1>14, <1>15, <1>16, <1>17, <1>18, <1>19, <1>20, <1>21, <1>22, <1>23, <1>24,
     <1>25, <1>26, <1>27, <1>28, <1>29, <1>30, <1>31, <1>32, <1>33, <1>34, <1>35,
     <1>36, <1>37, <1>38, <1>39
  DEF Next, Main, Terminating, ProcessQueue

\* The iterator of UpdateDelayed never runs past the end of the list, although
\* the main thread appends to it and Terminate clears it.
LEMMA IteratorStep == TypeOK /\ IteratorOK /\ [Next]_vars => IteratorOK'
<1> SUFFICES ASSUME TypeOK, IteratorOK, [Next]_vars  PROVE IteratorOK'
  OBVIOUS
<1> USE DEF IteratorOK, InUpdateDelayed, mainVars, handlerVars, workVars, threadVars
<1>1. CASE Main
  <2>1. mpc' # "create"
    BY <1>1 DEF Main, CreateThread, CreateThreadFails, RegisterThread, TestTerminate,
         Activity, EndIteration, AddEvent, AddDelayedEvent, PeekStatus, ResumeThread,
         Unload, Join, AfterPost
  <2>2. CASE CreateThread
    BY <2>1, <2>2 DEF CreateThread, MainAt
  <2>3. CASE AddDelayedEvent
    <3>1. Len(delayed') = Len(delayed) + 1
      BY <2>3 DEF AddDelayedEvent, TypeOK
    <3>2. qpc' = qpc /\ it' = it
      BY <2>3 DEF AddDelayedEvent
    <3> QED  BY <2>1, <3>1, <3>2 DEF TypeOK
  <2>4. CASE UNCHANGED <<delayed, it, qpc>>
    BY <2>1, <2>4
  <2> QED
    BY <1>1, <2>2, <2>3, <2>4 DEF Main, CreateThreadFails, RegisterThread,
       TestTerminate, Activity, EndIteration, AddEvent, PeekStatus, ResumeThread,
       Unload, Join
<1>2. CASE ClearDelayed
  BY <1>2 DEF ClearDelayed
<1>3. CASE Age
  <2>1. qpc = "age" /\ mpc' = mpc /\ it \in Nat /\ it # 0
    BY <1>3 DEF Age, QueueAt, TypeOK
  <2>2. Len(delayed') = Len(delayed)
    <3>1. PICK due \in BOOLEAN : delayed' = [delayed EXCEPT ![it].due = due]
      BY <1>3 DEF Age
    <3> QED  BY <3>1 DEF TypeOK
  <2> QED  BY <1>3, <2>1, <2>2 DEF Age, TypeOK
<1>4. CASE AgeDangling
  BY <1>4 DEF AgeDangling, QueueAt, TypeOK
<1>5. CASE Reap
  BY <1>5 DEF Reap, QueueAt, TypeOK
<1>6. CASE UpdateDelayed
  BY <1>6 DEF UpdateDelayed, QueueAt, TypeOK
<1>7. CASE ReapDangling
  BY <1>7 DEF ReapDangling, QueueAt
<1>8. CASE UNCHANGED <<mpc, delayed, it>> /\ qpc # "none" /\ ~InUpdateDelayed
  BY <1>8
<1>9. CASE UNCHANGED <<mpc, delayed, it, qpc>>
  BY <1>9
<1> QED
  <2>1. CASE ProcessQueue
    BY <2>1, <1>3, <1>4, <1>5, <1>6, <1>7, <1>8 DEF ProcessQueue, TestProcess,
       CheckEmpty, MarkSuspended, EnterSigwait, SigwaitReturns, MarkActive, Take,
       TakeGarbage, TakeNothing, CallbackReturns, CallbackFaults, Pop, QueueAt
  <2>2. CASE Signal \/ Terminating \/ SigContHandler \/ UNCHANGED vars
    BY <2>2, <1>2, <1>9 DEF Signal, Terminating, DrainTest, DrainPop, StopProcess,
       TerminatePeek, TerminateResume, SetTerminate, SigContHandler, vars
  <2> QED  BY <1>1, <2>1, <2>2 DEF Next

LEMMA InitTypeInv == Init => TypeInv
<1> SUFFICES ASSUME Init  PROVE TypeInv
  OBVIOUS
<1>1. terminate \in BOOLEAN /\ stopping \in BOOLEAN /\ process \in BOOLEAN
  BY DEF Init
<1>2. /\ broken \in BOOLEAN /\ contPending \in BOOLEAN
      /\ libOpen \in BOOLEAN /\ crashed \in BOOLEAN
  BY DEF Init
<1>3. TypeOK
  BY <1>1, <1>2 DEF Init, TypeOK, MainPC, HandlerPC, QueuePC, Event, Garbage
<1>4. IteratorOK
  BY DEF Init, IteratorOK
<1> QED  BY <1>3, <1>4 DEF TypeInv

\* Every variable keeps its type, whatever the bounds, the library and the
\* signals; the main thread never posts from an empty list of events.
THEOREM TypeCorrect == Spec => []TypeOK
<1>1. TypeInv /\ [Next]_vars => TypeInv'
  BY TypeStep, IteratorStep DEF TypeInv
<1>2. TypeInv => TypeOK
  BY DEF TypeInv
<1> QED  BY <1>1, <1>2, InitTypeInv, PTL DEF Spec

-----------------------------------------------------------------------------
(* Where Terminate has been, as far as the flags show.                     *)

\* Everything that only Terminate can have done happens after its entry, and
\* the library is closed only by a main loop that has seen `terminate'.
FlagsInv ==
  /\ hpc # "idle" => stopping
  /\ ~process => stopping
  /\ terminate => stopping
  /\ mpc \in {"unload", "join"} => stopping
  /\ ~libOpen => stopping
  /\ InUpdateDelayed /\ it = 0 => stopping

\* Callbacks begun since process was cleared: none while it is set, and none
\* while the queue thread is on its way from the test of process to the head
\* of the queue.
CallsInv ==
  /\ lateCalls <= 1
  /\ process => lateCalls = 0
  /\ qpc \notin {"while", "call", "pop", "exited"} => lateCalls = 0

-----------------------------------------------------------------------------
(* The immediate queue, before and after the stop.                         *)

\* The ids of the immediate events in the queue increase.
QueueSorted ==
  \A i, j \in DOMAIN queue :
    i < j /\ ~queue[i].late /\ ~queue[j].late => queue[i].id < queue[j].id

\* No event in the queue has been dispatched before, but for the head while
\* its callback runs.
QueueFresh ==
  \A i \in DOMAIN queue :
    ~queue[i].late =>
      /\ queue[i].id <= nowAdded
      /\ \/ queue[i].id > served
         \/ InDispatch /\ i = 1 /\ queue[i].id = served

\* Before the stop no posted event is missing.
QueueComplete ==
  ~stopping => \A n \in (served + 1) .. nowAdded :
                 \E i \in DOMAIN queue : queue[i] = [id |-> n, late |-> FALSE]

\* Before the stop the current event is the head, and the last one dispatched.
CurrentInv ==
  ~stopping /\ InDispatch =>
    /\ queue # <<>>
    /\ Head(queue) = cur
    /\ ~cur.late => cur.id = served

\* Only a pop that Terminate has overtaken breaks the queue.
BrokenInv == broken => stopping /\ queue = <<>>

\* Nothing is dispatched that has not been posted.
ServedInv == served <= nowAdded

QueueInv == /\ QueueSorted /\ QueueFresh /\ QueueComplete
            /\ CurrentInv /\ BrokenInv /\ ServedInv

IInv == TypeInv /\ FlagsInv /\ CallsInv /\ QueueInv

-----------------------------------------------------------------------------
(* The flags. *)

LEMMA FlagsStep == TypeInv /\ FlagsInv /\ [Next]_vars => FlagsInv'
<1> SUFFICES ASSUME TypeInv, FlagsInv, [Next]_vars  PROVE FlagsInv'
  OBVIOUS
<1> USE DEF FlagsInv, InUpdateDelayed, mainVars, handlerVars, workVars, threadVars,
            histVars
<1>1. CASE Main
  <2>1. CASE TestTerminate
    BY <2>1 DEF TestTerminate, MainAt
  <2>2. CASE Unload
    BY <2>2 DEF Unload, MainAt
  <2>3. CASE CreateThread
    BY <2>3 DEF CreateThread, MainAt
  <2>4. CASE /\ UNCHANGED <<hpc, stopping, process, terminate, libOpen, qpc, it>>
             /\ mpc' \notin {"unload", "join"} \/ UNCHANGED mpc
    BY <2>4
  <2> QED
    BY <1>1, <2>1, <2>2, <2>3, <2>4 DEF Main, CreateThreadFails, RegisterThread,
       Activity, EndIteration, AddEvent, AddDelayedEvent, PeekStatus, ResumeThread,
       Join, AfterPost
<1>2. CASE Signal
  BY <1>2 DEF Signal
<1>3. CASE Terminating
  <2>1. hpc # "idle" /\ stopping /\ stopping' = stopping
    BY <1>3 DEF Terminating, ClearDelayed, DrainTest, DrainPop, StopProcess,
         TerminatePeek, TerminateResume, SetTerminate, HandlerAt
  <2> QED  BY <2>1
<1>4. CASE ProcessQueue
  <2>1. UNCHANGED <<hpc, stopping, process, terminate, libOpen, mpc>>
    BY <1>4 DEF ProcessQueue, TestProcess, UpdateDelayed, Age, AgeDangling, Reap,
         ReapDangling, CheckEmpty, MarkSuspended, EnterSigwait, SigwaitReturns,
         MarkActive, Take, TakeGarbage, TakeNothing, CallbackReturns,
         CallbackFaults, Pop
  <2>2. CASE Age
    <3>1. it' # 0
      BY <2>2 DEF Age, TypeInv, TypeOK
    <3> QED  BY <2>1, <3>1
  <2>3. CASE Reap
    <3>1. qpc' = "reap" => it' # 0
      <4>1. qpc' = "reap" => it' \in {2, it + 1}
        BY <2>3 DEF Reap
      <4> QED  BY <4>1 DEF TypeInv, TypeOK
    <3>2. qpc' \in {"reap", "check"}
      BY <2>3 DEF Reap
    <3> QED  BY <2>1, <3>1, <3>2
  <2>4. CASE AgeDangling \/ ReapDangling
    <3>1. stopping
      BY <2>4 DEF AgeDangling, ReapDangling, QueueAt
    <3> QED  BY <2>1, <3>1
  <2>5. CASE UpdateDelayed
    BY <2>1, <2>5 DEF UpdateDelayed, QueueAt
  <2>6. CASE qpc' \notin {"age", "reap"} \/ UNCHANGED <<qpc, it>>
    BY <2>1, <2>6
  <2> QED
    BY <1>4, <2>2, <2>3, <2>4, <2>5, <2>6 DEF ProcessQueue, TestProcess, CheckEmpty,
       MarkSuspended, EnterSigwait, SigwaitReturns, MarkActive, Take, TakeGarbage,
       TakeNothing, CallbackReturns, CallbackFaults, Pop
<1>5. CASE SigContHandler
  BY <1>5 DEF SigContHandler
<1>6. CASE UNCHANGED vars
  BY <1>6 DEF vars
<1> QED  BY <1>1, <1>2, <1>3, <1>4, <1>5, <1>6 DEF Next

-----------------------------------------------------------------------------
(* Callbacks after the stop. *)

LEMMA CallsStep == TypeInv /\ CallsInv /\ [Next]_vars => CallsInv'
<1> SUFFICES ASSUME TypeInv, CallsInv, [Next]_vars  PROVE CallsInv'
  OBVIOUS
<1> USE DEF CallsInv, mainVars, handlerVars, workVars, threadVars, histVars
<1>1. CASE Main
  <2>1. UNCHANGED <<process, lateCalls>> /\ (qpc' = qpc \/ qpc' = "while")
    BY <1>1 DEF Main, CreateThread, CreateThreadFails, RegisterThread, TestTerminate,
         Activity, EndIteration, AddEvent, AddDelayedEvent, PeekStatus, ResumeThread,
         Unload, Join
  <2> QED  BY <2>1
<1>2. CASE Signal \/ Terminating \/ SigContHandler
  <2>1. UNCHANGED <<qpc, lateCalls>> /\ (process' = process \/ ~process')
    BY <1>2 DEF Signal, Terminating, ClearDelayed, DrainTest, DrainPop, StopProcess,
         TerminatePeek, TerminateResume, SetTerminate, SigContHandler
  <2> QED  BY <2>1
<1>3. CASE ProcessQueue
  <2>1. process' = process
    BY <1>3 DEF ProcessQueue, TestProcess, UpdateDelayed, Age, AgeDangling, Reap,
         ReapDangling, CheckEmpty, MarkSuspended, EnterSigwait, SigwaitReturns,
         MarkActive, Take, TakeGarbage, TakeNothing, CallbackReturns,
         CallbackFaults, Pop
  <2>2. CASE TestProcess
    BY <2>1, <2>2 DEF TestProcess, QueueAt
  <2>3. CASE Take
    BY <2>1, <2>3 DEF Take, QueueAt
  <2>4. CASE TakeGarbage
    BY <2>1, <2>4 DEF TakeGarbage, QueueAt
  <2>5. CASE /\ lateCalls' = lateCalls
             /\ \/ qpc' \in {"while", "call", "pop", "exited"}
                \/ qpc \notin {"while", "call", "pop", "exited"}
                \/ qpc' = qpc
    BY <2>1, <2>5
  <2> QED
    BY <1>3, <2>2, <2>3, <2>4, <2>5 DEF ProcessQueue, UpdateDelayed, Age, AgeDangling,
       Reap, ReapDangling, CheckEmpty, MarkSuspended, EnterSigwait, SigwaitReturns,
       MarkActive, TakeNothing, CallbackReturns, CallbackFaults, Pop, QueueAt
<1>4. CASE UNCHANGED vars
  BY <1>4 DEF vars
<1> QED  BY <1>1, <1>2, <1>3, <1>4 DEF Next

-----------------------------------------------------------------------------
(* The immediate queue. *)

\* The numbers of queued events are natural numbers.
LEMMA EventIds ==
  ASSUME queue \in Seq(Event)
  PROVE  \A i \in DOMAIN queue : queue[i].id \in Nat
<1> SUFFICES ASSUME NEW i \in DOMAIN queue  PROVE queue[i].id \in Nat
  OBVIOUS
<1>1. queue[i] \in Event
  BY ElementOfSeq, LenProperties
<1> QED  BY <1>1 DEF Event

\* Pushing a delayed event, or the next immediate one, keeps QueueInv.
LEMMA PushKeepsQueueInv ==
  ASSUME TypeOK, QueueInv, NEW e \in Event, Push(e),
         UNCHANGED <<served, stopping, cur>>, InDispatch' <=> InDispatch,
         \/ e.late /\ nowAdded' = nowAdded
         \/ ~e.late /\ e.id = nowAdded + 1 /\ nowAdded' = nowAdded + 1
  PROVE  QueueInv'
<1> USE DEF QueueInv
<1>1. nowAdded \in Nat /\ served \in Nat /\ queue \in Seq(Event)
  BY DEF TypeOK
<1>2. CASE broken
  <2>1. queue' = <<>> /\ ~broken' /\ stopping /\ stopping'
    BY <1>2 DEF Push, BrokenInv
  <2>2. ServedInv'
    BY <1>1 DEF ServedInv
  <2> QED
    BY <2>1, <2>2 DEF QueueSorted, QueueFresh, QueueComplete, CurrentInv, BrokenInv
<1>3. CASE ~broken
  <2>1. queue' = Append(queue, e) /\ ~broken'
    BY <1>3 DEF Push
  <2>2. /\ DOMAIN queue' = 1 .. (Len(queue) + 1)
        /\ DOMAIN queue = 1 .. Len(queue)
        /\ Len(queue) \in Nat
        /\ \A i \in 1 .. Len(queue) : queue'[i] = queue[i]
        /\ queue'[Len(queue) + 1] = e
        /\ queue' # <<>>
    BY <1>1, <2>1, AppendProperties, LenProperties
  <2>3. \A i \in DOMAIN queue : queue[i].id \in Nat
    BY <1>1, EventIds
  <2>4. QueueSorted'
    <3> SUFFICES ASSUME NEW i \in DOMAIN queue', NEW j \in DOMAIN queue',
                        i < j, ~queue'[i].late, ~queue'[j].late
                 PROVE  queue'[i].id < queue'[j].id
      BY DEF QueueSorted
    <3>1. i \in DOMAIN queue /\ queue'[i] = queue[i]
      BY <2>2
    <3>2. CASE j \in DOMAIN queue
      BY <2>2, <3>1, <3>2 DEF QueueSorted
    <3>3. CASE j = Len(queue) + 1
      BY <1>1, <2>2, <2>3, <3>1, <3>3 DEF QueueFresh
    <3> QED  BY <2>2, <3>2, <3>3
  <2>5. QueueFresh'
    <3> SUFFICES ASSUME NEW i \in DOMAIN queue', ~queue'[i].late
                 PROVE  /\ queue'[i].id <= nowAdded'
                        /\ \/ queue'[i].id > served'
                           \/ InDispatch' /\ i = 1 /\ queue'[i].id = served'
      BY DEF QueueFresh
    <3>1. CASE i \in DOMAIN queue
      BY <1>1, <2>2, <2>3, <3>1 DEF QueueFresh
    <3>2. CASE i = Len(queue) + 1
      BY <1>1, <2>2, <3>2 DEF ServedInv
    <3> QED  BY <2>2, <3>1, <3>2
  <2>6. QueueComplete'
    <3> SUFFICES ASSUME ~stopping, NEW n \in (served' + 1) .. nowAdded'
                 PROVE  \E i \in DOMAIN queue' : queue'[i] = [id |-> n, late |-> FALSE]
      BY DEF QueueComplete
    <3>1. CASE n \in (served + 1) .. nowAdded
      <4>1. PICK i \in DOMAIN queue : queue[i] = [id |-> n, late |-> FALSE]
        BY <3>1 DEF QueueComplete
      <4>2. i \in DOMAIN queue' /\ queue'[i] = queue[i]
        BY <2>2
      <4> QED  BY <4>1, <4>2
    <3>2. CASE ~e.late /\ n = nowAdded + 1
      <4>1. e = [id |-> n, late |-> FALSE]
        BY <3>2 DEF Event
      <4> QED  BY <2>2, <4>1
    <3> QED  BY <1>1, <3>1, <3>2
  <2>7. CurrentInv'
    <3>1. queue # <<>> => Head(queue') = Head(queue)
      BY <1>1, <2>1, HeadTailAppend
    <3> QED  BY <2>2, <3>1 DEF CurrentInv
  <2>8. BrokenInv' /\ ServedInv'
    BY <1>1, <2>1 DEF BrokenInv, ServedInv
  <2> QED  BY <2>4, <2>5, <2>6, <2>7, <2>8
<1> QED  BY <1>2, <1>3

\* Popping the head after its callback, or while Terminate drains the queue,
\* keeps QueueInv.
LEMMA PopKeepsQueueInv ==
  ASSUME TypeOK, QueueInv, PopFront,
         UNCHANGED <<nowAdded, served, stopping>>,
         stopping \/ (InDispatch /\ ~InDispatch')
  PROVE  QueueInv'
<1> USE DEF QueueInv
<1>1. nowAdded \in Nat /\ served \in Nat /\ queue \in Seq(Event)
  BY DEF TypeOK
<1>2. CASE queue = <<>>
  <2>1. queue' = <<>> /\ broken' /\ stopping
    BY <1>2 DEF PopFront, CurrentInv
  <2> QED
    BY <2>1 DEF QueueSorted, QueueFresh, QueueComplete, CurrentInv, BrokenInv, ServedInv
<1>3. CASE queue # <<>>
  <2>1. queue' = Tail(queue) /\ (broken' <=> broken)
    BY <1>3 DEF PopFront
  <2>2. /\ DOMAIN queue = 1 .. Len(queue)
        /\ Len(queue) \in Nat \ {0}
        /\ DOMAIN queue' = 1 .. (Len(queue) - 1)
        /\ \A i \in DOMAIN queue' : i + 1 \in DOMAIN queue /\ queue'[i] = queue[i + 1]
        /\ Head(queue) = queue[1]
    BY <1>1, <1>3, <2>1, HeadTailProperties, LenProperties
  <2>3. \A i \in DOMAIN queue : queue[i].id \in Nat
    BY <1>1, EventIds
  <2>4. QueueSorted'
    <3> SUFFICES ASSUME NEW i \in DOMAIN queue', NEW j \in DOMAIN queue',
                        i < j, ~queue'[i].late, ~queue'[j].late
                 PROVE  queue'[i].id < queue'[j].id
      BY DEF QueueSorted
    <3>1. i + 1 \in DOMAIN queue /\ j + 1 \in DOMAIN queue /\ i + 1 < j + 1
      BY <2>2
    <3> QED  BY <2>2, <3>1 DEF QueueSorted
  <2>5. \A i \in DOMAIN queue' : ~queue'[i].late => queue'[i].id > served
                                                 /\ queue'[i].id <= nowAdded
    <3> SUFFICES ASSUME NEW i \in DOMAIN queue', ~queue'[i].late
                 PROVE  queue'[i].id > served /\ queue'[i].id <= nowAdded
      OBVIOUS
    <3>1. i + 1 \in DOMAIN queue /\ i + 1 # 1 /\ queue'[i] = queue[i + 1]
      BY <2>2
    <3> QED  BY <3>1 DEF QueueFresh
  <2>6. QueueFresh'
    BY <2>5 DEF QueueFresh
  <2>7. QueueComplete'
    <3> SUFFICES ASSUME ~stopping, NEW n \in (served + 1) .. nowAdded
                 PROVE  \E i \in DOMAIN queue' : queue'[i] = [id |-> n, late |-> FALSE]
      BY DEF QueueComplete
    <3>1. PICK i \in DOMAIN queue : queue[i] = [id |-> n, late |-> FALSE]
      BY DEF QueueComplete
    <3>2. i # 1
      BY <1>1, <2>2, <3>1 DEF CurrentInv
    <3>3. i - 1 \in DOMAIN queue' /\ queue'[i - 1] = queue[i]
      BY <2>2, <3>2
    <3> QED  BY <3>1, <3>3
  <2>8. CurrentInv' /\ ServedInv' /\ BrokenInv'
    BY <1>3, <2>1 DEF CurrentInv, ServedInv, BrokenInv
  <2> QED  BY <2>4, <2>6, <2>7, <2>8
<1> QED  BY <1>2, <1>3

\* Dispatching the head keeps QueueInv, and an immediate head is the next event
\* in turn before the stop, and a later one after it.
LEMMA TakeKeepsQueueInv ==
  ASSUME TypeOK, QueueInv, Take
  PROVE  /\ QueueInv'
         /\ ~cur'.late => /\ served' \in (served + 1) .. nowAdded
                          /\ ~stopping => served' = served + 1
<1> USE DEF QueueInv
<1>1. nowAdded \in Nat /\ served \in Nat /\ queue \in Seq(Event)
  BY DEF TypeOK
<1>2. /\ qpc = "take" /\ qpc' = "call" /\ queue # <<>> /\ cur' = Head(queue)
      /\ UNCHANGED <<queue, broken, nowAdded, stopping>>
  BY DEF Take, QueueAt, mainVars, workVars, handlerVars
<1>3. ~InDispatch /\ InDispatch'
  BY <1>2 DEF InDispatch
<1>4. /\ DOMAIN queue = 1 .. Len(queue) /\ Len(queue) \in Nat \ {0}
      /\ Head(queue) = queue[1] /\ 1 \in DOMAIN queue
  BY <1>1, <1>2, LenProperties
<1>5. \A i \in DOMAIN queue : queue[i].id \in Nat
  BY <1>1, EventIds
<1>6. CASE cur'.late
  <2>1. served' = served
    BY <1>6 DEF Take
  <2>2. QueueFresh' /\ QueueSorted'
    BY <1>2, <1>3, <2>1 DEF QueueFresh, QueueSorted
  <2>3. QueueComplete' /\ CurrentInv' /\ BrokenInv' /\ ServedInv'
    BY <1>2, <1>6, <2>1 DEF QueueComplete, CurrentInv, BrokenInv, ServedInv
  <2> QED  BY <1>6, <2>2, <2>3
<1>7. CASE ~cur'.late
  <2>1. served' = queue[1].id /\ ~queue[1].late
    BY <1>2, <1>4, <1>7 DEF Take
  <2>2. served' \in (served + 1) .. nowAdded
    BY <1>1, <1>3, <1>4, <1>5, <2>1 DEF QueueFresh
  <2>3. ~stopping => served' = served + 1
    <3> SUFFICES ASSUME ~stopping, served' # served + 1  PROVE FALSE
      OBVIOUS
    <3>1. served + 1 \in (served + 1) .. nowAdded
      BY <1>1, <2>2
    <3>2. PICK i \in DOMAIN queue : queue[i] = [id |-> served + 1, late |-> FALSE]
      BY <3>1 DEF QueueComplete
    <3>3. i > 1
      BY <1>4, <2>1, <3>2
    <3>4. queue[1].id < queue[i].id
      BY <1>4, <2>1, <3>2, <3>3 DEF QueueSorted
    <3> QED  BY <1>1, <2>1, <2>2, <3>2, <3>4
  <2>4. QueueSorted'
    BY <1>2 DEF QueueSorted
  <2>5. QueueFresh'
    <3> SUFFICES ASSUME NEW i \in DOMAIN queue, ~queue[i].late
                 PROVE  /\ queue[i].id <= nowAdded
                        /\ queue[i].id > served' \/ (i = 1 /\ queue[i].id = served')
      BY <1>2, <1>3 DEF QueueFresh
    <3>1. CASE i = 1
      BY <2>1, <2>2, <3>1 DEF QueueFresh
    <3>2. CASE i > 1
      BY <1>4, <1>5, <2>1, <3>2 DEF QueueFresh, QueueSorted
    <3> QED  BY <1>4, <3>1, <3>2
  <2>6. QueueComplete'
    <3> SUFFICES ASSUME ~stopping, NEW n \in (served' + 1) .. nowAdded
                 PROVE  \E i \in DOMAIN queue : queue[i] = [id |-> n, late |-> FALSE]
      BY <1>2 DEF QueueComplete
    <3>1. n \in (served + 1) .. nowAdded
      BY <1>1, <2>3
    <3> QED  BY <3>1 DEF QueueComplete
  <2>7. CurrentInv' /\ BrokenInv' /\ ServedInv'
    BY <1>1, <1>2, <1>4, <2>1, <2>2 DEF CurrentInv, BrokenInv, ServedInv
  <2> QED  BY <1>7, <2>2, <2>3, <2>4, <2>5, <2>6, <2>7
<1> QED  BY <1>6, <1>7

LEMMA QueueStep == TypeInv /\ FlagsInv /\ QueueInv /\ [Next]_vars => QueueInv'
<1> SUFFICES ASSUME TypeInv, FlagsInv, QueueInv, [Next]_vars  PROVE QueueInv'
  OBVIOUS
<1> USE DEF TypeInv, mainVars, handlerVars, workVars, threadVars, histVars
<1>1. CASE AddEvent
  <2>1. [id |-> nowAdded + 1, late |-> FALSE] \in Event
    BY DEF TypeOK, Event
  <2> QED  BY <1>1, <2>1, PushKeepsQueueInv DEF AddEvent, InDispatch
<1>2. CASE DrainPop
  <2>1. stopping
    BY <1>2 DEF DrainPop, HandlerAt, FlagsInv
  <2> QED  BY <1>2, <2>1, PopKeepsQueueInv DEF DrainPop
<1>3. CASE Pop
  BY <1>3, PopKeepsQueueInv DEF Pop, QueueAt, InDispatch
<1>4. CASE Take
  BY <1>4, TakeKeepsQueueInv
<1>5. CASE Age
  <2>1. it \in 1 .. Len(delayed) /\ delayed[it] \in DelayedEvent
    BY <1>5 DEF Age, QueueAt, TypeOK, IteratorOK
  <2> DEFINE e == [id |-> delayed[it].id, late |-> TRUE]
  <2>2. e \in Event /\ e.late
    BY <2>1 DEF Event, DelayedEvent
  <2>3. UNCHANGED <<served, stopping, cur, nowAdded>> /\ ~InDispatch /\ ~InDispatch'
    BY <1>5 DEF Age, QueueAt, InDispatch
  <2>4. Push(e) \/ UNCHANGED <<queue, broken>>
    BY <1>5 DEF Age
  <2>5. CASE UNCHANGED <<queue, broken>>
    BY <2>3, <2>5 DEF QueueInv, QueueSorted, QueueFresh, QueueComplete, CurrentInv,
                      BrokenInv, ServedInv
  <2> HIDE DEF e
  <2>6. CASE Push(e)
    BY <2>2, <2>3, <2>6, PushKeepsQueueInv
  <2> QED  BY <2>4, <2>5, <2>6
<1>6. CASE AgeDangling
  <2>1. Garbage \in Event /\ Garbage.late
    BY DEF Garbage, Event
  <2>2. UNCHANGED <<served, stopping, cur, nowAdded>> /\ ~InDispatch /\ ~InDispatch'
    BY <1>6 DEF AgeDangling, QueueAt, InDispatch
  <2>3. Push(Garbage) \/ UNCHANGED <<queue, broken>>
    BY <1>6 DEF AgeDangling
  <2>4. CASE UNCHANGED <<queue, broken>>
    BY <2>2, <2>4 DEF QueueInv, QueueSorted, QueueFresh, QueueComplete, CurrentInv,
                      BrokenInv, ServedInv
  <2>5. CASE Push(Garbage)
    BY <2>1, <2>2, <2>5, PushKeepsQueueInv
  <2> QED  BY <2>3, <2>4, <2>5
<1>7. CASE TakeGarbage
  <2>1. queue = <<>> /\ stopping /\ UNCHANGED <<queue, broken, served, nowAdded, stopping>>
    BY <1>7 DEF TakeGarbage, QueueInv, BrokenInv
  <2> QED  BY <2>1 DEF QueueInv, QueueSorted, QueueFresh, QueueComplete, CurrentInv,
                       BrokenInv, ServedInv
<1>8. CASE Signal
  BY <1>8 DEF Signal, InDispatch, QueueInv, QueueSorted, QueueFresh, QueueComplete,
              CurrentInv, BrokenInv, ServedInv
<1>9. CASE UNCHANGED <<queue, broken, nowAdded, served, stopping, cur>>
           /\ (InDispatch' <=> InDispatch)
  BY <1>9 DEF QueueInv, QueueSorted, QueueFresh, QueueComplete, CurrentInv, BrokenInv,
              ServedInv
<1>10. CASE Main
  <2>1. CASE CreateThread
    <3>1. ~InDispatch
      BY <2>1 DEF CreateThread, MainAt, IteratorOK, InDispatch
    <3> QED  BY <1>9, <2>1, <3>1 DEF CreateThread, InDispatch
  <2> QED
    BY <1>1, <1>9, <1>10, <2>1 DEF Main, CreateThreadFails, RegisterThread,
       TestTerminate, Activity, EndIteration, AddDelayedEvent, PeekStatus,
       ResumeThread, Unload, Join, InDispatch
<1>11. CASE Terminating \/ SigContHandler \/ UNCHANGED vars
  BY <1>2, <1>9, <1>11 DEF Terminating, ClearDelayed, DrainTest, StopProcess,
     TerminatePeek, TerminateResume, SetTerminate, SigContHandler, InDispatch, vars
<1>12. CASE ProcessQueue
  BY <1>3, <1>4, <1>5, <1>6, <1>7, <1>9, <1>12 DEF ProcessQueue, TestProcess,
     UpdateDelayed, Reap, ReapDangling, CheckEmpty, MarkSuspended, EnterSigwait,
     SigwaitReturns, MarkActive, TakeNothing, CallbackReturns, CallbackFaults,
     QueueAt, InDispatch
<1> QED  BY <1>8, <1>10, <1>11, <1>12 DEF Next

-----------------------------------------------------------------------------
(* The inductive invariant, and what follows from it. *)

LEMMA InitIInv == Init => IInv
<1> SUFFICES ASSUME Init  PROVE IInv
  OBVIOUS
<1>1. TypeInv
  BY InitTypeInv
<1>2. FlagsInv
  BY DEF Init, FlagsInv, InUpdateDelayed
<1>3. CallsInv
  BY DEF Init, CallsInv
<1>4. queue = <<>> /\ served = 0 /\ nowAdded = 0 /\ ~InDispatch /\ ~broken
  BY DEF Init, InDispatch
<1>5. QueueInv
  BY <1>4 DEF QueueInv, QueueSorted, QueueFresh, QueueComplete, CurrentInv, BrokenInv,
              ServedInv
<1> QED  BY <1>1, <1>2, <1>3, <1>5 DEF IInv

LEMMA IInvStep == IInv /\ [Next]_vars => IInv'
BY TypeStep, IteratorStep, FlagsStep, CallsStep, QueueStep DEF IInv, TypeInv

\* The main thread, the queue thread and Terminate keep the flags, the queue
\* and the iterator consistent in every interleaving.
THEOREM Invariance == Spec => []IInv
BY InitIInv, IInvStep, PTL DEF Spec

\* Until the server is told to stop, exactly the events posted and not yet
\* dispatched wait in the queue, in the order they were posted.
THEOREM InOrder == Spec => []InOrderOnce
<1>1. IInv => InOrderOnce
  <2> SUFFICES ASSUME IInv, ~stopping
               PROVE  /\ \A i, j \in DOMAIN Waiting :
                           i < j /\ ~Waiting[i].late /\ ~Waiting[j].late
                             => Waiting[i].id < Waiting[j].id
                      /\ \A i \in DOMAIN Waiting :
                           ~Waiting[i].late => Waiting[i].id \in (served + 1) .. nowAdded
                      /\ \A n \in (served + 1) .. nowAdded :
                           \E i \in DOMAIN Waiting :
                             Waiting[i] = [id |-> n, late |-> FALSE]
    BY DEF InOrderOnce
  <2> USE DEF IInv, QueueInv
  <2>1. nowAdded \in Nat /\ served \in Nat /\ queue \in Seq(Event)
    BY DEF TypeInv, TypeOK
  <2>2. \A i \in DOMAIN queue : queue[i].id \in Nat
    BY <2>1, EventIds
  <2>3. CASE ~InDispatch
    <3>1. Waiting = queue
      BY <2>3 DEF Waiting
    <3> QED  BY <2>1, <2>2, <2>3, <3>1 DEF QueueSorted, QueueFresh, QueueComplete
  <2>4. CASE InDispatch
    <3>1. queue # <<>> /\ Waiting = Tail(queue)
      BY <2>4 DEF Waiting, CurrentInv
    <3>2. /\ DOMAIN queue = 1 .. Len(queue)
          /\ Len(queue) \in Nat \ {0}
          /\ DOMAIN Waiting = 1 .. (Len(queue) - 1)
          /\ \A i \in DOMAIN Waiting : i + 1 \in DOMAIN queue /\ Waiting[i] = queue[i + 1]
          /\ Head(queue) = queue[1]
      BY <2>1, <3>1, HeadTailProperties, LenProperties
    <3>3. \A i, j \in DOMAIN Waiting :
            i < j /\ ~Waiting[i].late /\ ~Waiting[j].late
              => Waiting[i].id < Waiting[j].id
      <4> SUFFICES ASSUME NEW i \in DOMAIN Waiting, NEW j \in DOMAIN Waiting,
                          i < j, ~Waiting[i].late, ~Waiting[j].late
                   PROVE  Waiting[i].id < Waiting[j].id
        OBVIOUS
      <4>1. i + 1 \in DOMAIN queue /\ j + 1 \in DOMAIN queue /\ i + 1 < j + 1
        BY <3>2
      <4> QED  BY <3>2, <4>1 DEF QueueSorted
    <3>4. \A i \in DOMAIN Waiting :
            ~Waiting[i].late => Waiting[i].id \in (served + 1) .. nowAdded
      <4> SUFFICES ASSUME NEW i \in DOMAIN Waiting, ~Waiting[i].late
                   PROVE  Waiting[i].id \in (served + 1) .. nowAdded
        OBVIOUS
      <4>1. i + 1 \in DOMAIN queue /\ i + 1 # 1 /\ Waiting[i] = queue[i + 1]
        BY <3>2
      <4> QED  BY <2>1, <2>2, <4>1 DEF QueueFresh
    <3>5. \A n \in (served + 1) .. nowAdded :
            \E i \in DOMAIN Waiting : Waiting[i] = [id |-> n, late |-> FALSE]
      <4> SUFFICES ASSUME NEW n \in (served + 1) .. nowAdded
                   PROVE  \E i \in DOMAIN Waiting :
                            Waiting[i] = [id |-> n, late |-> FALSE]
        OBVIOUS
      <4>1. PICK i \in DOMAIN queue : queue[i] = [id |-> n, late |-> FALSE]
        BY DEF QueueComplete
      <4>2. i # 1
        BY <2>1, <2>4, <3>2, <4>1 DEF CurrentInv
      <4>3. i - 1 \in DOMAIN Waiting /\ Waiting[i - 1] = queue[i]
        BY <3>2, <4>2
      <4> QED  BY <4>1, <4>3
    <3> QED  BY <3>3, <3>4, <3>5
  <2> QED  BY <2>3, <2>4
<1> QED  BY <1>1, Invariance, PTL

\* Until the server is told to stop, the pop after a callback removes the event
\* the callback was made for.
THEOREM HeadIsCurrent == Spec => []CurrentIsHead
<1>1. IInv => CurrentIsHead
  BY DEF IInv, QueueInv, CurrentInv, CurrentIsHead
<1> QED  BY <1>1, Invariance, PTL

\* At most one callback begins after Terminate has cleared process.
THEOREM StopBound == Spec => []StopServesAtMostOne
<1>1. IInv => StopServesAtMostOne
  BY DEF IInv, CallsInv, StopServesAtMostOne
<1> QED  BY <1>1, Invariance, PTL

\* The process faults only while it stops, or before the queue thread is in the
\* thread table.
THEOREM CrashSafety == Spec => []CrashOnlyAfterStop
<1>1. Init => CrashOnlyAfterStop
  BY DEF Init, CrashOnlyAfterStop
<1>2. IInv /\ CrashOnlyAfterStop /\ [Next]_vars => CrashOnlyAfterStop'
  <2> SUFFICES ASSUME IInv, CrashOnlyAfterStop, [Next]_vars  PROVE CrashOnlyAfterStop'
    OBVIOUS
  <2> USE DEF CrashOnlyAfterStop, mainVars, handlerVars, workVars, threadVars, histVars
  <2>1. stopping => stopping'
    BY DEF Next, Main, CreateThread, CreateThreadFails, RegisterThread, TestTerminate,
       Activity, EndIteration, AddEvent, AddDelayedEvent, PeekStatus, ResumeThread,
       Unload, Join, Signal, Terminating, ClearDelayed, DrainTest, DrainPop,
       StopProcess, TerminatePeek, TerminateResume, SetTerminate, SigContHandler,
       ProcessQueue, TestProcess, UpdateDelayed, Age, AgeDangling, Reap, ReapDangling,
       CheckEmpty, MarkSuspended, EnterSigwait, SigwaitReturns, MarkActive, Take,
       TakeGarbage, TakeNothing, CallbackReturns, CallbackFaults, Pop, vars
  <2>2. CASE stopping
    BY <2>1, <2>2
  <2>3. CASE ~stopping
    <3>1. ~broken /\ libOpen /\ hpc = "idle" /\ ~(InUpdateDelayed /\ it = 0)
      BY <2>3 DEF IInv, FlagsInv, QueueInv, BrokenInv
    <3>2. CASE Main \/ Signal \/ SigContHandler
      <4>1. crashed' = crashed
        BY <3>2 DEF Main, CreateThread, CreateThreadFails, RegisterThread,
           TestTerminate, Activity, EndIteration, AddEvent, AddDelayedEvent, PeekStatus,
           ResumeThread, Unload, Join, Signal, SigContHandler
      <4>2. crashed => status' = status
        BY <3>2 DEF Main, CreateThread, CreateThreadFails, RegisterThread,
           TestTerminate, Activity, EndIteration, AddEvent, AddDelayedEvent, PeekStatus,
           ResumeThread, Unload, Join, Signal, SigContHandler, MainAt, HandlerAt
      <4> QED  BY <2>1, <4>1, <4>2
    <3>3. CASE Terminating
      BY <3>1, <3>3 DEF Terminating, ClearDelayed, DrainTest, DrainPop, StopProcess,
         TerminatePeek, TerminateResume, SetTerminate, HandlerAt
    <3>4. CASE ProcessQueue
      <4>1. ~crashed
        BY <3>4 DEF ProcessQueue, TestProcess, UpdateDelayed, Age, AgeDangling, Reap,
           ReapDangling, CheckEmpty, MarkSuspended, EnterSigwait, SigwaitReturns,
           MarkActive, Take, TakeGarbage, TakeNothing, CallbackReturns,
           CallbackFaults, Pop, QueueAt
      <4>2. CASE MarkSuspended
        BY <4>1, <4>2 DEF MarkSuspended
      <4>3. CASE ~MarkSuspended
        <5>1. crashed' = crashed
          BY <3>1, <3>4, <4>3 DEF ProcessQueue, TestProcess, UpdateDelayed, Age,
             AgeDangling, Reap, ReapDangling, CheckEmpty, EnterSigwait, SigwaitReturns,
             MarkActive, Take, TakeGarbage, TakeNothing, CallbackReturns,
             CallbackFaults, Pop, QueueAt, InUpdateDelayed
        <5> QED  BY <4>1, <5>1
      <4> QED  BY <4>2, <4>3
    <3>5. CASE UNCHANGED vars
      BY <3>5 DEF vars
    <3> QED  BY <3>2, <3>3, <3>4, <3>5 DEF Next
  <2> QED  BY <2>2, <2>3
<1> QED  BY <1>1, <1>2, Invariance, PTL DEF Spec

-----------------------------------------------------------------------------
(* Refinement. *)

\* Dispatch implements EventService: AddEvent is Post, entering Terminate is
\* Stop, dispatching an immediate event is Serve or ServeWhileStopping, and
\* every other step is none of the service's.
THEOREM Refinement == Spec => ServiceSpec
<1>1. Init => Service!Init
  BY DEF Init, Service!Init
<1>2. IInv /\ [Next]_vars => [Service!Next]_(Service!vars)
  <2> SUFFICES ASSUME IInv, [Next]_vars  PROVE [Service!Next]_(Service!vars)
    OBVIOUS
  <2> USE DEF Service!vars, mainVars, handlerVars, workVars, threadVars, histVars
  <2>1. CASE AddEvent
    BY <2>1 DEF AddEvent, Service!Next, Service!Post
  <2>2. CASE Signal
    BY <2>2 DEF Signal, Service!Next, Service!Stop
  <2>3. CASE Take
    <3>1. CASE cur'.late
      BY <2>3, <3>1 DEF Take
    <3>2. CASE ~cur'.late
      <4>1. /\ served' \in (served + 1) .. nowAdded
            /\ ~stopping => served' = served + 1
        BY <2>3, <3>2, TakeKeepsQueueInv DEF IInv, TypeInv
      <4>2. /\ UNCHANGED <<nowAdded, stopping>>
            /\ nowCalls' = nowCalls + 1
        BY <2>3, <3>2 DEF Take
      <4>3. served \in Nat /\ nowAdded \in Nat /\ stopping \in BOOLEAN
        BY DEF IInv, TypeInv, TypeOK
      <4>4. CASE stopping
        BY <4>1, <4>2, <4>4 DEF Service!Next, Service!ServeWhileStopping
      <4>5. CASE ~stopping
        <5>1. served < nowAdded
          BY <4>1, <4>3
        <5> QED  BY <4>1, <4>2, <4>5, <5>1 DEF Service!Next, Service!Serve
      <4> QED  BY <4>4, <4>5
    <3> QED  BY <3>1, <3>2
  <2>4. CASE UNCHANGED <<nowAdded, served, nowCalls, stopping>>
    BY <2>4
  <2> QED
    BY <2>1, <2>2, <2>3, <2>4 DEF Next, Main, CreateThread, CreateThreadFails,
       RegisterThread, TestTerminate, Activity, EndIteration, AddDelayedEvent,
       PeekStatus, ResumeThread, Unload, Join, Terminating, ClearDelayed, DrainTest,
       DrainPop, StopProcess, TerminatePeek, TerminateResume, SetTerminate,
       SigContHandler, ProcessQueue, TestProcess, UpdateDelayed, Age, AgeDangling,
       Reap, ReapDangling, CheckEmpty, MarkSuspended, EnterSigwait, SigwaitReturns,
       MarkActive, TakeGarbage, TakeNothing, CallbackReturns, CallbackFaults, Pop, vars
<1> QED  BY <1>1, <1>2, Invariance, PTL DEF Spec, ServiceSpec, Service!Spec
=============================================================================
