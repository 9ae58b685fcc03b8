---------------------------- MODULE EventService ----------------------------
(***************************************************************************)
(* What the pair "main thread posts an event, queue thread hands it to the *)
(* protocol library" promises, without threads, queues or signals.         *)
(* Immediate events are numbered in the order the main thread posts them.  *)
(* Until the server is told to stop, the library sees every event exactly  *)
(* once and in that order; once it is told to stop, events may be dropped, *)
(* but what is still delivered is delivered in order and never twice.      *)
(***************************************************************************)
EXTENDS Naturals

VARIABLES posted,    \* number of the last event posted
          served,    \* number of the last event handed to the library
          runs,      \* how many events have been handed to the library
          stopped    \* Application::Terminate has been entered

vars == <<posted, served, runs, stopped>>

\* A server told to stop from within OnLoad starts stopped.
Init == posted = 0 /\ served = 0 /\ runs = 0 /\ stopped \in BOOLEAN

Post == posted' = posted + 1 /\ UNCHANGED <<served, runs, stopped>>

Serve == /\ ~stopped
         /\ served < posted
         /\ served' = served + 1
         /\ runs' = runs + 1
         /\ UNCHANGED <<posted, stopped>>

Stop == stopped' = TRUE /\ UNCHANGED <<posted, served, runs>>

ServeWhileStopping == /\ stopped
                      /\ served' \in (served + 1) .. posted
                      /\ runs' = runs + 1
                      /\ UNCHANGED <<posted, stopped>>

Next == Post \/ Serve \/ Stop \/ ServeWhileStopping

Spec == Init /\ [][Next]_vars
=============================================================================
