--------------------------- MODULE FreezeDetector ---------------------------
(***************************************************************************)
(* The freeze detector: a thread that aborts the process when _diffTime,   *)
(* which the queue thread writes at the top of each pass of its loop,      *)
(* exceeds the configured maximum.  The queue thread pauses it before it   *)
(* sleeps and continues it with a SIGCONT after.                           *)
(*                                                                         *)
(* Time is counted in ticks that may pass anywhere; a clock stops at       *)
(* MaxDiff + 1.  What the events are, and who wakes the queue thread, is   *)
(* left to module Dispatch.  How long the detector sleeps is left open: it *)
(* reads _diffTime a second time to compute it, so the time may wrap and   *)
(* last for hours.                                                         *)
(***************************************************************************)
EXTENDS Naturals

CONSTANT MaxDiff    \* Server.FreezeDetectorMaxDiff in ticks; bound of the clocks

ASSUME MaxDiffAssumption == MaxDiff \in Nat

VARIABLES
  qpc,      \* where the queue thread is in ProcessQueue
  elapsed,  \* time since workBegan
  diff,     \* PacketHandler::_diffTime
  fpc,      \* where the detector is in Run; "none" before it is created
  thread,   \* Runnable::_thread is assigned
  pause,    \* _pause
  exit,     \* _exit
  died,     \* "no", "frozen" (the assertion) or "fault" (a null _thread)
  busy,     \* history: time since workBegan, the sleep not counted
  slow      \* history: some pass took longer than MaxDiff

queueVars    == <<qpc, diff>>
detectorVars == <<fpc, died>>
clockVars    == <<elapsed, busy, slow>>
vars == <<queueVars, detectorVars, clockVars, thread, pause, exit>>

Clock == 0 .. (MaxDiff + 1)

Init ==
  /\ qpc = "loop" /\ diff = 0
  /\ fpc = "none" /\ thread = FALSE /\ pause = FALSE /\ exit = FALSE
  /\ died = "no"
  /\ elapsed = 0 /\ busy = 0 /\ slow = FALSE

Alive == died = "no"

Later(t) == IF t <= MaxDiff THEN t + 1 ELSE t

\* Time passes; the queue thread works on, or sleeps in sigwait.
Tick ==
  /\ Alive
  /\ elapsed' = Later(elapsed)
  /\ busy' = IF qpc = "asleep" THEN busy ELSE Later(busy)
  /\ slow' = (slow \/ busy' > MaxDiff)
  /\ UNCHANGED <<queueVars, detectorVars, thread, pause, exit>>

-----------------------------------------------------------------------------
(* The main thread: Runnable::Execute. *)

CreateDetector ==
  /\ Alive /\ fpc = "none"
  /\ fpc' = "start"
  /\ UNCHANGED <<queueVars, died, clockVars, thread, pause, exit>>

AssignThread ==
  /\ Alive /\ fpc # "none" /\ ~thread
  /\ thread' = TRUE
  /\ UNCHANGED <<queueVars, detectorVars, clockVars, pause, exit>>

-----------------------------------------------------------------------------
(* The queue thread: PacketHandler::ProcessQueue. *)

QueueAt(pc) == Alive /\ qpc = pc

\* Mutant of Measure: the time that is left is kept.
MeasureLeft ==
  /\ QueueAt("loop")
  /\ diff' = MaxDiff - elapsed
  /\ qpc' \in {"idle", "begin"}
  /\ UNCHANGED <<detectorVars, clockVars, thread, pause, exit>>

\* UpdateDelayed, _diffTime = ..., and the test of both queues.
Measure ==
  /\ QueueAt("loop")
  /\ diff' = elapsed
  /\ qpc' \in {"idle", "begin"}
  /\ UNCHANGED <<detectorVars, clockVars, thread, pause, exit>>

\* while (process) ends: freezeDetector->Exit().
ExitDetector ==
  /\ QueueAt("loop")
  /\ exit' = TRUE /\ qpc' = "exited"
  /\ UNCHANGED <<diff, detectorVars, clockVars, thread, pause>>

PauseDetector ==
  /\ QueueAt("idle")
  /\ pause' = TRUE /\ qpc' = "asleep"
  /\ UNCHANGED <<diff, detectorVars, clockVars, thread, exit>>

Wake ==
  /\ QueueAt("asleep")
  /\ qpc' = "woken"
  /\ UNCHANGED <<diff, detectorVars, clockVars, thread, pause, exit>>

\* freezeDetector->Continue(): a SIGCONT, lost unless the detector is in sigwait.
ContinueDetector ==
  /\ QueueAt("woken")
  /\ fpc' = IF thread /\ fpc = "sigwait" THEN "resumed" ELSE fpc
  /\ qpc' = "begin"
  /\ UNCHANGED <<diff, died, clockVars, thread, pause, exit>>

\* Mutant of BeginWork: the clock runs on through the sleep.
BeginWorkLate ==
  /\ QueueAt("begin")
  /\ busy' = 0
  /\ qpc' \in {"work", "loop"}
  /\ UNCHANGED <<diff, elapsed, slow, detectorVars, thread, pause, exit>>

\* gettimeofday(&workBegan, 0); an event, or none.
BeginWork ==
  /\ QueueAt("begin")
  /\ elapsed' = 0 /\ busy' = 0
  /\ qpc' \in {"work", "loop"}
  /\ UNCHANGED <<diff, slow, detectorVars, thread, pause, exit>>

\* A callback, or the nap while only delayed events wait, is over.
WorkEnds ==
  /\ QueueAt("work")
  /\ qpc' = "loop"
  /\ UNCHANGED <<diff, detectorVars, clockVars, thread, pause, exit>>

Queue == \/ Measure \/ ExitDetector \/ PauseDetector \/ ContinueDetector
         \/ BeginWork

-----------------------------------------------------------------------------
(* The detector: FreezeDetector::Run. *)

DetectorAt(pc) == Alive /\ fpc = pc

Run ==
  /\ DetectorAt("start")
  /\ IF thread THEN fpc' = "loop" /\ died' = died
               ELSE fpc' = fpc /\ died' = "fault"
  /\ UNCHANGED <<queueVars, clockVars, thread, pause, exit>>

\* while (!_exit); if (_maxDiffTime < _diff) assert(false).
TestDiff ==
  /\ DetectorAt("loop")
  /\ \/ exit /\ fpc' = "ended" /\ died' = died
     \/ ~exit /\ diff > MaxDiff /\ died' = "frozen" /\ fpc' = fpc
     \/ ~exit /\ diff <= MaxDiff /\ fpc' = "tested" /\ died' = died
  /\ UNCHANGED <<queueVars, clockVars, thread, pause, exit>>

\* if (_pause)
TestPause ==
  /\ DetectorAt("tested")
  /\ fpc' = IF pause THEN "sigwait" ELSE "usleep"
  /\ UNCHANGED <<queueVars, died, clockVars, thread, pause, exit>>

\* _pause = false, also when the queue thread has paused it again.
ClearPause ==
  /\ DetectorAt("resumed")
  /\ pause' = FALSE /\ fpc' = "usleep"
  /\ UNCHANGED <<queueVars, died, clockVars, thread, exit>>

\* Mutant of SleepEnds: the pause is looked at first.
SleepEndsPaused ==
  /\ DetectorAt("usleep")
  /\ fpc' = IF pause THEN "sigwait" ELSE "loop"
  /\ UNCHANGED <<queueVars, died, clockVars, thread, pause, exit>>

SleepEnds ==
  /\ DetectorAt("usleep")
  /\ fpc' = "loop"
  /\ UNCHANGED <<queueVars, died, clockVars, thread, pause, exit>>

Detector == Run \/ TestDiff \/ TestPause \/ ClearPause \/ SleepEnds

-----------------------------------------------------------------------------
Next == \/ Tick \/ CreateDetector \/ AssignThread \/ Queue \/ Wake \/ WorkEnds
        \/ Detector

Spec == Init /\ [][Next]_vars

\* The threads are scheduled and usleep ends; that events arrive, or that
\* callbacks return, is not assumed.
FairSpec == /\ Spec
            /\ WF_vars(CreateDetector) /\ WF_vars(AssignThread)
            /\ WF_vars(Queue) /\ WF_vars(Detector)

-----------------------------------------------------------------------------
TypeOK ==
  /\ qpc \in {"loop", "idle", "asleep", "woken", "begin", "work", "exited"}
  /\ fpc \in {"none", "start", "loop", "tested", "sigwait", "resumed", "usleep",
              "ended"}
  /\ elapsed \in Clock /\ busy \in Clock /\ diff \in Clock
  /\ thread \in BOOLEAN /\ pause \in BOOLEAN /\ exit \in BOOLEAN
  /\ slow \in BOOLEAN
  /\ died \in {"no", "frozen", "fault"}

\* The detector kills the process only when a pass of the queue thread's loop
\* really took longer than the maximum: neither the time it sleeps nor a stale
\* _diffTime, read while it sleeps or works again, counts as work.
FrozenOnlyIfSlow == died = "frozen" => slow

\* A pass that took too long and left nothing to do is noticed, although the
\* queue thread pauses the detector at that very moment, unless more work
\* comes or the detector was paused before it looked.
OverrunNoticed ==
  (qpc = "asleep" /\ diff > MaxDiff /\ fpc = "usleep")
    ~> (died = "frozen" \/ qpc # "asleep" \/ exit)

\* What config.conf (lines 36 to 45) says the detector is for: a handling thread
\* that is stuck longer than the maximum wait time is found.
FreezeDetected ==
  (qpc = "work" /\ busy > MaxDiff) ~> (died # "no" \/ qpc # "work")
=============================================================================
