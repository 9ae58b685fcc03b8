------------------------ MODULE FreezeDetectorProofs ------------------------
(***************************************************************************)
(* The detector never takes sleep for work, for every MaxDiff.             *)
(***************************************************************************)
EXTENDS FreezeDetector, TLAPS

\* Between the begin of work and the next measurement the two clocks agree, and
\* whatever exceeds the maximum was seen to do so while time passed.
ClockInv ==
  /\ qpc \in {"loop", "idle", "work", "exited"} => elapsed = busy
  /\ busy > MaxDiff => slow
  /\ diff > MaxDiff => slow

IInv == TypeOK /\ ClockInv /\ FrozenOnlyIfSlow

\* A clock that is read later is still a clock.
LEMMA LaterType == ASSUME NEW t \in Clock PROVE Later(t) \in Clock
  BY MaxDiffAssumption DEF Later, Clock

LEMMA InitIInv == Init => IInv
<1> SUFFICES ASSUME Init PROVE IInv
  OBVIOUS
<1>1. elapsed \in Clock /\ busy \in Clock /\ diff \in Clock
  BY MaxDiffAssumption DEF Init, Clock
<1>2. thread \in BOOLEAN /\ pause \in BOOLEAN /\ exit \in BOOLEAN /\ slow \in BOOLEAN
  BY Zenon DEF Init
<1>3. ClockInv /\ FrozenOnlyIfSlow
  BY MaxDiffAssumption DEF Init, ClockInv, FrozenOnlyIfSlow
<1> QED  BY <1>1, <1>2, <1>3 DEF Init, IInv, TypeOK

LEMMA StepIInv == IInv /\ [Next]_vars => IInv'
<1> SUFFICES ASSUME IInv, [Next]_vars PROVE IInv'
  OBVIOUS
<1> USE MaxDiffAssumption DEF IInv
<1>1. TypeOK'
  <2>1. CASE Tick
    <3>1. elapsed' \in Clock /\ Later(busy) \in Clock
      BY <2>1, LaterType DEF Tick, TypeOK
    <3>2. busy' \in Clock
      BY <2>1, <3>1 DEF Tick, TypeOK
    <3>3. slow' \in BOOLEAN
      BY <2>1 DEF Tick, TypeOK
    <3> QED  BY <2>1, <3>1, <3>2, <3>3
         DEF Tick, TypeOK, queueVars, detectorVars, clockVars
  <2>2. CASE CreateDetector \/ AssignThread
    BY <2>2 DEF CreateDetector, AssignThread, TypeOK, queueVars, detectorVars, clockVars
  <2>3. CASE Measure
    BY <2>3 DEF Measure, QueueAt, TypeOK, detectorVars, clockVars
  <2>4. CASE ExitDetector \/ PauseDetector \/ ContinueDetector \/ Wake \/ WorkEnds
    BY <2>4 DEF ExitDetector, PauseDetector, ContinueDetector, Wake, WorkEnds, QueueAt,
                TypeOK, detectorVars, clockVars
  <2>5. CASE BeginWork
    BY <2>5 DEF BeginWork, QueueAt, TypeOK, Clock, detectorVars
  <2>6. CASE Detector
    BY <2>6 DEF Detector, Run, TestDiff, TestPause, ClearPause, SleepEnds, DetectorAt,
                TypeOK, queueVars, clockVars
  <2>7. CASE UNCHANGED vars
    BY <2>7 DEF vars, TypeOK, queueVars, detectorVars, clockVars
  <2> QED  BY <2>1, <2>2, <2>3, <2>4, <2>5, <2>6, <2>7 DEF Next, Queue
<1>2. ClockInv'
  <2>1. CASE Tick
    BY <2>1 DEF Tick, Later, TypeOK, ClockInv, Clock, queueVars
  <2>2. CASE CreateDetector \/ AssignThread \/ Detector
    BY <2>2 DEF CreateDetector, AssignThread, Detector, Run, TestDiff, TestPause,
                ClearPause, SleepEnds, ClockInv, queueVars, clockVars
  <2>3. CASE Measure
    BY <2>3 DEF Measure, QueueAt, ClockInv, clockVars
  <2>4. CASE ExitDetector \/ PauseDetector \/ ContinueDetector \/ Wake \/ WorkEnds
    BY <2>4 DEF ExitDetector, PauseDetector, ContinueDetector, Wake, WorkEnds, QueueAt,
                ClockInv, clockVars
  <2>5. CASE BeginWork
    BY <2>5 DEF BeginWork, QueueAt, ClockInv
  <2>6. CASE UNCHANGED vars
    BY <2>6 DEF vars, ClockInv, queueVars, clockVars
  <2> QED  BY <2>1, <2>2, <2>3, <2>4, <2>5, <2>6 DEF Next, Queue
<1>3. FrozenOnlyIfSlow'
  <2>1. CASE TestDiff
    BY <2>1 DEF TestDiff, ClockInv, FrozenOnlyIfSlow, clockVars
  <2>2. CASE Tick
    BY <2>2 DEF Tick, FrozenOnlyIfSlow, detectorVars
  <2>3. CASE ~(TestDiff \/ Tick)
    BY <2>3 DEF Next, Queue, Detector, CreateDetector, AssignThread, Measure,
                ExitDetector, PauseDetector, ContinueDetector, BeginWork, Wake, WorkEnds,
                Run, TestPause, ClearPause, SleepEnds, FrozenOnlyIfSlow, detectorVars,
                clockVars, vars
  <2> QED  BY <2>1, <2>2, <2>3
<1> QED  BY <1>1, <1>2, <1>3

LEMMA AlwaysIInv == Spec => []IInv
  BY InitIInv, StepIInv, PTL DEF Spec

\* Every variable keeps its type: no clock passes MaxDiff + 1, where it stops.
THEOREM TypeCorrect == Spec => []TypeOK
  BY AlwaysIInv, PTL DEF IInv

\* The detector kills the process only when a pass of ProcessQueue's loop, the
\* sleep not counted, took longer than the configured maximum.
THEOREM NoFalseAlarm == Spec => []FrozenOnlyIfSlow
  BY AlwaysIInv, PTL DEF IInv
=============================================================================
