--------------------------- MODULE DelayedProofs ---------------------------
(***************************************************************************)
(* Proofs about the delayed events of Dispatch, for every bound, every     *)
(* library and any number of signals: no event is dispatched more than     *)
(* twice, although UpdateDelayed's second loop skips one that its first    *)
(* has pushed, and before the stop none is lost - if no delay is zero.     *)
(***************************************************************************)
EXTENDS DispatchProofs, FiniteSetTheorems

-----------------------------------------------------------------------------
(* The inductive invariants. *)

Late(d) == [id |-> d, late |-> TRUE]

\* Where delayed event d is in a queue, and how often it has been dispatched or
\* still waits to be.
CopiesOf(q, d) == {i \in DOMAIN q : q[i] = Late(d)}
Owed(d) == calls[d] + Cardinality(CopiesOf(Waiting, d))

\* How often the j-th event of the list may have been pushed, once it is due: one
\* that is first in the list once before the pass, because an erase of the pass
\* before has skipped it; those the first loop has passed once more; and those the
\* second has not reached again after an erase once.
Limit(j) ==
  IF it # 0 /\ ((qpc = "age" /\ j < it) \/ (qpc = "reap" /\ it = 1))
  THEN IF j = 1 THEN 2 ELSE 1
  ELSE IF j = 1 \/ (qpc = "reap" /\ it # 0 /\ j >= it) THEN 1 ELSE 0

\* Delayed events have numbers of their own, in the list and in the queue; what is
\* no live event has none.
IdsInv ==
  /\ \A i \in DOMAIN queue : queue[i].late => queue[i].id <= Len(calls)
  /\ ~stopping => \A i \in DOMAIN queue : queue[i].id # 0
  /\ \A i \in DOMAIN delayed : delayed[i].id \in 1 .. Len(calls)
  /\ \A i, j \in DOMAIN delayed : delayed[i].id = delayed[j].id => i = j

TwiceInv ==
  /\ \A d \in DOMAIN calls : Owed(d) <= 2
  /\ \A j \in DOMAIN delayed :
       Owed(delayed[j].id) <= IF delayed[j].due THEN Limit(j) ELSE 0

\* A delayed event has been dispatched, or waits in the queue.
Placed(d) == calls[d] > 0 \/ \E i \in DOMAIN queue : queue[i] = Late(d)

\* Before the stop: the event whose callback runs has been counted; what is due
\* in the list has been placed; and what has not been placed is in the list.
KeptInv ==
  ~stopping =>
    /\ InDispatch /\ cur.late => cur.id \in DOMAIN calls /\ calls[cur.id] > 0
    /\ \A i \in DOMAIN delayed : delayed[i].due => Placed(delayed[i].id)
    /\ \A d \in DOMAIN calls : Placed(d) \/ \E i \in DOMAIN delayed : delayed[i].id = d

-----------------------------------------------------------------------------
(* Counting copies. *)

\* A queue is finite.
LEMMA CopiesFinite ==
  ASSUME NEW S, NEW q \in Seq(S), NEW d
  PROVE  IsFiniteSet(CopiesOf(q, d)) /\ Cardinality(CopiesOf(q, d)) \in Nat
<1>1. DOMAIN q = 1 .. Len(q) /\ Len(q) \in Nat
  BY LenProperties
<1>2. IsFiniteSet(1 .. Len(q))
  BY <1>1, FS_Interval
<1>3. CopiesOf(q, d) \in SUBSET (1 .. Len(q))
  BY <1>1 DEF CopiesOf
<1> QED  BY <1>2, <1>3, FS_Subset, FS_CardinalityType

\* A push adds a copy of what is pushed.
LEMMA CopiesAppend ==
  ASSUME NEW S, NEW q \in Seq(S), NEW e \in S, NEW d
  PROVE  Cardinality(CopiesOf(Append(q, e), d))
           = Cardinality(CopiesOf(q, d)) + (IF e = Late(d) THEN 1 ELSE 0)
<1>1. /\ DOMAIN q = 1 .. Len(q) /\ Len(q) \in Nat
      /\ DOMAIN Append(q, e) = 1 .. (Len(q) + 1)
      /\ \A i \in 1 .. Len(q) : Append(q, e)[i] = q[i]
      /\ Append(q, e)[Len(q) + 1] = e
  BY AppendProperties, LenProperties
<1>2. IsFiniteSet(CopiesOf(q, d)) /\ Cardinality(CopiesOf(q, d)) \in Nat
  BY CopiesFinite
<1>3. CASE e = Late(d)
  <2>1. CopiesOf(Append(q, e), d) = CopiesOf(q, d) \cup {Len(q) + 1}
    BY <1>1, <1>3 DEF CopiesOf
  <2>2. Len(q) + 1 \notin CopiesOf(q, d)
    BY <1>1 DEF CopiesOf
  <2> QED  BY <1>2, <1>3, <2>1, <2>2, FS_AddElement
<1>4. CASE e # Late(d)
  <2>1. CopiesOf(Append(q, e), d) = CopiesOf(q, d)
    BY <1>1, <1>4 DEF CopiesOf
  <2> QED  BY <1>2, <1>4, <2>1
<1> QED  BY <1>3, <1>4

\* A pop takes away one of the head.
LEMMA CopiesTail ==
  ASSUME NEW S, NEW q \in Seq(S), q # <<>>, NEW d
  PROVE  Cardinality(CopiesOf(q, d))
           = Cardinality(CopiesOf(Tail(q), d)) + (IF Head(q) = Late(d) THEN 1 ELSE 0)
<1>1. /\ Tail(q) \in Seq(S) /\ Head(q) = q[1]
      /\ DOMAIN q = 1 .. Len(q) /\ Len(q) \in Nat \ {0}
      /\ DOMAIN Tail(q) = 1 .. (Len(q) - 1)
      /\ \A i \in 1 .. (Len(q) - 1) : Tail(q)[i] = q[i + 1]
  BY HeadTailProperties, LenProperties, EmptySeq
<1> DEFINE A == CopiesOf(Tail(q), d)
           B == CopiesOf(q, d) \ {1}
           f == [i \in A |-> i + 1]
<1>2. IsFiniteSet(A) /\ Cardinality(A) \in Nat /\ IsFiniteSet(CopiesOf(q, d))
      /\ Cardinality(CopiesOf(q, d)) \in Nat
  BY <1>1, CopiesFinite
<1>3. \A i \in A : i \in Nat /\ i + 1 \in B
  BY <1>1 DEF CopiesOf
<1>4. \A k \in B : k - 1 \in A /\ (k - 1) + 1 = k
  BY <1>1 DEF CopiesOf
<1>5. ExistsBijection(A, B)
  <2>1. f \in [A -> B]
    BY <1>3
  <2>2. \A i, j \in A : f[i] = f[j] => i = j
    BY <1>3
  <2>3. \A k \in B : \E i \in A : f[i] = k
    BY <1>4
  <2>4. f \in Bijection(A, B)
    BY <2>1, <2>2, <2>3 DEF Bijection, Injection, Surjection, IsInjective
  <2> QED  BY <2>4 DEF ExistsBijection
<1>6. Cardinality(B) = Cardinality(A)
  BY <1>2, <1>5, FS_Bijection
<1>7. Cardinality(B) = IF 1 \in CopiesOf(q, d) THEN Cardinality(CopiesOf(q, d)) - 1
                                               ELSE Cardinality(CopiesOf(q, d))
  BY <1>2, FS_RemoveElement
<1>8. 1 \in CopiesOf(q, d) <=> Head(q) = Late(d)
  BY <1>1 DEF CopiesOf
<1> QED  BY <1>2, <1>6, <1>7, <1>8

-----------------------------------------------------------------------------
(* How a step changes what is owed. *)

LEMMA WaitingType == TypeOK => Waiting \in Seq(Event)
BY HeadTailProperties DEF TypeOK, Waiting

\* What a push of any thread does to the events that wait.
LEMMA WaitingPush ==
  ASSUME TypeOK, NEW e \in Event, Push(e), InDispatch' <=> InDispatch
  PROVE  Waiting' = Waiting \/ Waiting' = Append(Waiting, e)
<1>1. queue \in Seq(Event)
  BY DEF TypeOK
<1>2. CASE broken
  BY <1>2 DEF Push, Waiting
<1>3. CASE ~broken /\ InDispatch /\ queue = <<>>
  <2>1. queue' = Append(queue, e) /\ Waiting = <<>>
    BY <1>3 DEF Push, Waiting
  <2>2. Tail(queue') = <<>>
    <3>1. queue' = <<e>>
      BY <1>1, <1>3, <2>1
    <3> QED  BY <3>1
  <2> QED  BY <1>3, <2>1, <2>2 DEF Waiting
<1>4. CASE ~broken /\ InDispatch /\ queue # <<>>
  <2>1. queue' = Append(queue, e) /\ Waiting = Tail(queue)
    BY <1>4 DEF Push, Waiting
  <2>2. queue' # <<>> /\ Tail(queue') = Append(Tail(queue), e)
    BY <1>1, <1>4, <2>1, AppendProperties, HeadTailAppend
  <2> QED  BY <1>4, <2>1, <2>2 DEF Waiting
<1>5. CASE ~broken /\ ~InDispatch
  BY <1>5 DEF Push, Waiting
<1> QED  BY <1>2, <1>3, <1>4, <1>5

\* What a pop of any thread does: during a callback it takes an event that does not
\* wait any more.
LEMMA WaitingPop ==
  ASSUME TypeOK, PopFront, InDispatch' => InDispatch
  PROVE  Waiting' = Waiting \/ (Waiting # <<>> /\ Waiting' = Tail(Waiting))
<1>1. CASE queue = <<>>
  BY <1>1 DEF PopFront, Waiting
<1>2. CASE queue # <<>>
  <2>1. queue' = Tail(queue)
    BY <1>2 DEF PopFront
  <2>2. CASE ~InDispatch
    BY <1>2, <2>1, <2>2 DEF Waiting
  <2>3. CASE InDispatch /\ ~InDispatch'
    BY <1>2, <2>1, <2>3 DEF Waiting
  <2>4. CASE InDispatch /\ InDispatch'
    BY <1>2, <2>1, <2>4 DEF Waiting
  <2> QED  BY <2>2, <2>3, <2>4
<1> QED  BY <1>1, <1>2

\* What is owed follows from the count and from what waits.
LEMMA OwedType ==
  ASSUME TypeOK, NEW d \in DOMAIN calls
  PROVE  /\ calls[d] \in Nat /\ Cardinality(CopiesOf(Waiting, d)) \in Nat
         /\ Owed(d) \in Nat
<1>1. calls[d] \in Nat
  BY ElementOfSeq, LenProperties DEF TypeOK
<1>2. Cardinality(CopiesOf(Waiting, d)) \in Nat
  BY WaitingType, CopiesFinite
<1> QED  BY <1>1, <1>2 DEF Owed

LEMMA OwedSame ==
  ASSUME TypeOK, NEW d \in DOMAIN calls, calls'[d] = calls[d], Waiting' = Waiting
  PROVE  Owed(d)' <= Owed(d)
<1>1. Owed(d)' = Owed(d)
  BY DEF Owed, CopiesOf
<1> QED  BY <1>1, OwedType

LEMMA OwedPush ==
  ASSUME TypeOK, NEW d \in DOMAIN calls, calls'[d] = calls[d], NEW e \in Event,
         Waiting' = Waiting \/ Waiting' = Append(Waiting, e)
  PROVE  Owed(d)' <= Owed(d) + (IF e = Late(d) THEN 1 ELSE 0)
<1>1. calls[d] \in Nat /\ Cardinality(CopiesOf(Waiting, d)) \in Nat /\ Waiting \in Seq(Event)
  BY OwedType, WaitingType
<1>2. CASE Waiting' = Waiting
  BY <1>1, <1>2 DEF Owed
<1>3. CASE Waiting' = Append(Waiting, e)
  <2>1. Cardinality(CopiesOf(Append(Waiting, e), d))
          = Cardinality(CopiesOf(Waiting, d)) + (IF e = Late(d) THEN 1 ELSE 0)
    BY <1>1, CopiesAppend
  <2> QED  BY <1>1, <1>3, <2>1 DEF Owed
<1> QED  BY <1>2, <1>3

LEMMA OwedPop ==
  ASSUME TypeOK, NEW d \in DOMAIN calls, calls'[d] = calls[d],
         Waiting' = Waiting \/ (Waiting # <<>> /\ Waiting' = Tail(Waiting))
  PROVE  Owed(d)' <= Owed(d)
<1>1. calls[d] \in Nat /\ Cardinality(CopiesOf(Waiting, d)) \in Nat /\ Waiting \in Seq(Event)
  BY OwedType, WaitingType
<1>2. CASE Waiting' = Waiting
  BY <1>1, <1>2 DEF Owed
<1>3. CASE Waiting # <<>> /\ Waiting' = Tail(Waiting)
  <2>1. Cardinality(CopiesOf(Waiting, d))
          = Cardinality(CopiesOf(Tail(Waiting), d)) + (IF Head(Waiting) = Late(d) THEN 1 ELSE 0)
    BY <1>1, <1>3, CopiesTail
  <2>2. Tail(Waiting) \in Seq(Event)
    BY <1>1, <1>3, HeadTailProperties
  <2>3. Cardinality(CopiesOf(Tail(Waiting), d)) \in Nat
    BY <2>2, CopiesFinite
  <2> QED  BY <1>1, <1>3, <2>1, <2>3 DEF Owed
<1> QED  BY <1>2, <1>3

\* A dispatch counts the copy that it takes from those that wait.
LEMMA OwedTake ==
  ASSUME TypeOK, NEW d \in DOMAIN calls, Take
  PROVE  d \in DOMAIN calls' /\ Owed(d)' <= Owed(d)
<1>1. calls[d] \in Nat /\ queue \in Seq(Event) /\ queue # <<>> /\ calls \in Seq(Nat)
  BY OwedType DEF Take, TypeOK
<1>2. Waiting = queue /\ Waiting' = Tail(queue) /\ cur' = Head(queue)
  BY DEF Take, QueueAt, workVars, Waiting, InDispatch
<1>3. Cardinality(CopiesOf(queue, d))
        = Cardinality(CopiesOf(Tail(queue), d)) + (IF Head(queue) = Late(d) THEN 1 ELSE 0)
  BY <1>1, CopiesTail
<1>4. Cardinality(CopiesOf(Tail(queue), d)) \in Nat
  <2>1. Tail(queue) \in Seq(Event)
    BY <1>1, HeadTailProperties
  <2> QED  BY <2>1, CopiesFinite
<1>5. DOMAIN calls' = DOMAIN calls
  BY <1>1 DEF Take
<1>6. calls'[d] <= calls[d] + (IF Head(queue) = Late(d) THEN 1 ELSE 0)
  <2>1. Head(queue) \in Event
    BY <1>1, HeadTailProperties
  <2>2. CASE Head(queue) = Late(d)
    <3>1. cur'.late /\ cur'.id = d
      BY <1>2, <2>2 DEF Late
    <3>2. calls' = [calls EXCEPT ![d] = @ + 1]
      BY <3>1 DEF Take
    <3> QED  BY <1>1, <2>2, <3>2
  <2>3. CASE Head(queue) # Late(d)
    <3>1. ~(cur'.late /\ cur'.id = d)
      BY <1>2, <2>1, <2>3 DEF Late, Event
    <3>2. calls' = calls \/ calls' = [calls EXCEPT ![cur'.id] = @ + 1]
      BY DEF Take
    <3>3. calls'[d] = calls[d]
      BY <1>1, <3>1, <3>2 DEF Take
    <3> QED  BY <1>1, <2>3, <3>3
  <2> QED  BY <2>2, <2>3
<1>7. calls'[d] \in Nat
  <2>1. calls' = calls \/ (cur'.id \in DOMAIN calls /\ calls' = [calls EXCEPT ![cur'.id] = @ + 1])
    BY DEF Take
  <2>2. \A k \in DOMAIN calls : calls[k] \in Nat
    BY OwedType
  <2> QED  BY <1>1, <2>1, <2>2
<1> QED  BY <1>1, <1>2, <1>3, <1>4, <1>5, <1>6, <1>7 DEF Owed

\* The event the first loop is at is due, and pushed.
Pushes(d) == Age /\ d = delayed[it].id /\ delayed'[it].due

\* Only that push makes anything owed once more.
LEMMA OwedStep ==
  ASSUME TypeInv, [Next]_vars, NEW d \in DOMAIN calls, d # 0
  PROVE  /\ d \in DOMAIN calls'
         /\ \/ Owed(d)' <= Owed(d)
            \/ Pushes(d) /\ Owed(d)' <= Owed(d) + 1
<1> USE DEF TypeInv
<1>0. Owed(d) \in Nat
  BY OwedType
<1>1. CASE AddEvent
  <2>1. [id |-> nowAdded + 1, late |-> FALSE] \in Event
        /\ [id |-> nowAdded + 1, late |-> FALSE] # Late(d)
    BY DEF Event, TypeOK, Late
  <2>2. calls' = calls /\ (InDispatch' <=> InDispatch)
        /\ Push([id |-> nowAdded + 1, late |-> FALSE])
    BY <1>1 DEF AddEvent, threadVars, InDispatch
  <2>3. Owed(d)' <= Owed(d) + 0
    BY <2>1, <2>2, WaitingPush, OwedPush
  <2>4. Owed(d)' <= Owed(d)
    BY <1>0, <2>3
  <2> QED  BY <2>2, <2>4
<1>2. CASE AddDelayedEvent
  <2>1. calls' = Append(calls, 0) /\ Waiting' = Waiting
    BY <1>2 DEF AddDelayedEvent, threadVars, Waiting, InDispatch
  <2>2. calls'[d] = calls[d] /\ d \in DOMAIN calls'
    BY <2>1, AppendProperties, LenProperties DEF TypeOK
  <2> QED  BY <1>0, <2>1, <2>2, OwedSame
<1>3. CASE Age
  <2>1. PICK due \in BOOLEAN :
          /\ delayed' = [delayed EXCEPT ![it].due = due]
          /\ IF due THEN Push([id |-> delayed[it].id, late |-> TRUE])
                    ELSE UNCHANGED <<queue, broken>>
    BY <1>3 DEF Age
  <2>2. it \in 1 .. Len(delayed) /\ delayed[it] \in DelayedEvent
    BY <1>3 DEF Age, QueueAt, IteratorOK, TypeOK
  <2>3. calls' = calls /\ (InDispatch' <=> InDispatch)
    BY <1>3 DEF Age, QueueAt, histVars, InDispatch
  <2>4. delayed'[it].due <=> due
    BY <2>1, <2>2 DEF TypeOK, DelayedEvent
  <2>5. CASE due
    <3>1. [id |-> delayed[it].id, late |-> TRUE] \in Event
      BY <2>2 DEF Event, DelayedEvent
    <3>2. Owed(d)' <= Owed(d) + (IF Late(delayed[it].id) = Late(d) THEN 1 ELSE 0)
      BY <2>1, <2>3, <2>5, <3>1, WaitingPush, OwedPush DEF Late
    <3>3. Late(delayed[it].id) = Late(d) <=> delayed[it].id = d
      BY DEF Late
    <3>4. CASE delayed[it].id = d
      <4>1. Pushes(d)
        BY <1>3, <2>4, <2>5, <3>4 DEF Pushes
      <4>2. Owed(d)' <= Owed(d) + 1
        BY <3>2, <3>3, <3>4
      <4> QED  BY <2>3, <4>1, <4>2
    <3>5. CASE delayed[it].id # d
      <4>1. Owed(d)' <= Owed(d) + 0
        BY <3>2, <3>3, <3>5
      <4>2. Owed(d)' <= Owed(d)
        BY <1>0, <4>1
      <4> QED  BY <2>3, <4>2
    <3> QED  BY <3>4, <3>5
  <2>6. CASE ~due
    <3>1. Waiting' = Waiting
      BY <2>1, <2>3, <2>6 DEF Waiting
    <3> QED  BY <1>0, <2>3, <3>1, OwedSame
  <2> QED  BY <2>5, <2>6
<1>4. CASE AgeDangling
  <2>1. Garbage \in Event /\ Garbage # Late(d)
    BY DEF Garbage, Event, Late
  <2>2. calls' = calls /\ (InDispatch' <=> InDispatch)
    BY <1>4 DEF AgeDangling, QueueAt, histVars, InDispatch
  <2>3. Push(Garbage) \/ queue' = queue
    BY <1>4 DEF AgeDangling
  <2>4. CASE Push(Garbage)
    <3>1. Owed(d)' <= Owed(d) + 0
      BY <2>1, <2>2, <2>4, WaitingPush, OwedPush
    <3>2. Owed(d)' <= Owed(d)
      BY <1>0, <3>1
    <3> QED  BY <2>2, <3>2
  <2>5. CASE queue' = queue
    <3>1. Waiting' = Waiting
      BY <2>2, <2>5 DEF Waiting
    <3> QED  BY <1>0, <2>2, <3>1, OwedSame
  <2> QED  BY <2>3, <2>4, <2>5
<1>5. CASE Take
  BY <1>5, OwedTake
<1>6. CASE DrainPop \/ Pop
  <2>1. calls' = calls /\ PopFront /\ (InDispatch' => InDispatch)
    BY <1>6 DEF DrainPop, Pop, QueueAt, histVars, threadVars, InDispatch
  <2>2. Owed(d)' <= Owed(d)
    BY <2>1, WaitingPop, OwedPop
  <2> QED  BY <2>1, <2>2
<1>7. CASE TakeGarbage
  <2>1. calls' = calls /\ queue' = queue /\ queue = <<>>
    BY <1>7 DEF TakeGarbage, QueueAt, workVars
  <2>2. Waiting' = Waiting
    BY <2>1 DEF Waiting
  <2> QED  BY <2>1, <2>2, OwedSame
<1>8. CASE UNCHANGED <<calls, queue>> /\ (InDispatch' <=> InDispatch)
  <2>1. Waiting' = Waiting
    BY <1>8 DEF Waiting
  <2> QED  BY <1>0, <1>8, <2>1, OwedSame
<1> QED
  <2>1. CASE Main
    BY <2>1, <1>1, <1>2, <1>8 DEF Main, CreateThread, CreateThreadFails, RegisterThread,
       TestTerminate, Activity, EndIteration, PeekStatus, ResumeThread, Unload, Join,
       MainAt, IteratorOK, InDispatch, threadVars, workVars, histVars
  <2>2. CASE Signal \/ Terminating \/ SigContHandler \/ UNCHANGED vars
    BY <2>2, <1>6, <1>8 DEF Signal, Terminating, ClearDelayed, DrainTest, StopProcess,
       TerminatePeek, TerminateResume, SetTerminate, SigContHandler, InDispatch, threadVars,
       workVars, histVars, vars
  <2>3. CASE ProcessQueue
    BY <2>3, <1>3, <1>4, <1>5, <1>6, <1>7, <1>8 DEF ProcessQueue, TestProcess,
       UpdateDelayed, Reap, ReapDangling, CheckEmpty, MarkSuspended, EnterSigwait,
       SigwaitReturns, MarkActive, TakeNothing, CallbackReturns, CallbackFaults, QueueAt,
       InDispatch, threadVars, workVars, histVars
  <2> QED  BY <2>1, <2>2, <2>3 DEF Next

-----------------------------------------------------------------------------
(* How a step changes the list and the queue. *)

\* The list without the element the iterator points to.
LEMMA EraseElements ==
  ASSUME NEW S, NEW s \in Seq(S), NEW i \in 1 .. Len(s), NEW r,
         r = SubSeq(s, 1, i - 1) \o SubSeq(s, i + 1, Len(s))
  PROVE  /\ DOMAIN r = 1 .. (Len(s) - 1) /\ Len(r) = Len(s) - 1
         /\ \A j \in 1 .. (Len(s) - 1) : r[j] = IF j < i THEN s[j] ELSE s[j + 1]
<1> DEFINE a == SubSeq(s, 1, i - 1)
           b == SubSeq(s, i + 1, Len(s))
<1>1. Len(s) \in Nat /\ i \in Nat /\ i > 0 /\ i <= Len(s)
  BY LenProperties
<1>2. /\ a \in Seq(S) /\ Len(a) = i - 1
      /\ \A j \in 1 .. (i - 1) : a[j] = s[1 + j - 1]
  BY <1>1, SubSeqProperties
<1>3. /\ b \in Seq(S) /\ Len(b) = Len(s) - i
      /\ \A j \in 1 .. (Len(s) - i) : b[j] = s[(i + 1) + j - 1]
  BY <1>1, SubSeqProperties
<1> HIDE DEF a, b
<1>4. r = a \o b
  BY DEF a, b
<1>5. /\ a \o b \in Seq(S) /\ Len(a \o b) = Len(a) + Len(b)
      /\ \A j \in 1 .. (Len(a) + Len(b)) :
           (a \o b)[j] = IF j <= Len(a) THEN a[j] ELSE b[j - Len(a)]
  BY <1>2, <1>3, ConcatProperties
<1>6. r \in Seq(S) /\ Len(r) = Len(s) - 1
  <2>1. Len(a) + Len(b) = Len(s) - 1
    BY <1>1, <1>2, <1>3
  <2> QED  BY <1>4, <1>5, <2>1
<1>7. DOMAIN r = 1 .. (Len(s) - 1)
  BY <1>6, LenProperties
<1>8. ASSUME NEW j \in 1 .. (Len(s) - 1)
      PROVE  r[j] = IF j < i THEN s[j] ELSE s[j + 1]
  <2>1. j \in 1 .. (Len(a) + Len(b))
    BY <1>1, <1>2, <1>3
  <2>2. r[j] = IF j <= Len(a) THEN a[j] ELSE b[j - Len(a)]
    BY <1>4, <1>5, <2>1
  <2>3. CASE j < i
    <3>1. j \in 1 .. (i - 1) /\ 1 + j - 1 = j /\ j <= i - 1
      BY <1>1, <2>3
    <3>2. a[j] = s[j]
      BY <1>2, <3>1
    <3>3. r[j] = a[j]
      BY <1>2, <2>2, <3>1
    <3> QED  BY <2>3, <3>2, <3>3
  <2>4. CASE ~(j < i)
    <3>1. /\ j - (i - 1) \in 1 .. (Len(s) - i) /\ (i + 1) + (j - (i - 1)) - 1 = j + 1
          /\ ~(j <= i - 1)
      BY <1>1, <2>4
    <3>2. b[j - (i - 1)] = s[j + 1]
      BY <1>3, <3>1
    <3>3. r[j] = b[j - (i - 1)]
      BY <1>2, <2>2, <3>1
    <3> QED  BY <2>4, <3>2, <3>3
  <2> QED  BY <2>3, <2>4
<1> QED  BY <1>6, <1>7, <1>8

\* The first loop looks at one element, which is pushed if it is due.
LEMMA AgeShape ==
  ASSUME TypeInv, Age
  PROVE  /\ qpc = "age" /\ it \in 1 .. Len(delayed)
         /\ DOMAIN delayed' = DOMAIN delayed /\ DOMAIN delayed = 1 .. Len(delayed)
         /\ \A j \in DOMAIN delayed : j # it => delayed'[j] = delayed[j]
         /\ delayed'[it].id = delayed[it].id
         /\ delayed[it].due => delayed'[it].due
         /\ IF delayed'[it].due THEN Push(Late(delayed[it].id)) ELSE queue' = queue
         /\ \/ it < Len(delayed) /\ qpc' = "age" /\ it' = it + 1
            \/ it = Len(delayed) /\ qpc' = "reap" /\ it' = 1
<1>1. PICK due \in BOOLEAN :
        /\ delayed[it].due => due
        /\ delayed' = [delayed EXCEPT ![it].due = due]
        /\ IF due THEN Push([id |-> delayed[it].id, late |-> TRUE])
                  ELSE UNCHANGED <<queue, broken>>
  BY DEF Age
<1>2. /\ qpc = "age" /\ it \in 1 .. Len(delayed) /\ delayed[it] \in DelayedEvent
      /\ Len(delayed) \in Nat /\ DOMAIN delayed = 1 .. Len(delayed)
  BY LenProperties DEF Age, QueueAt, TypeInv, IteratorOK, TypeOK
<1>3. /\ DOMAIN delayed' = DOMAIN delayed /\ delayed'[it].id = delayed[it].id
      /\ delayed'[it].due = due
      /\ \A j \in DOMAIN delayed : j # it => delayed'[j] = delayed[j]
  BY <1>1, <1>2 DEF DelayedEvent
<1>4. IF it < Len(delayed) THEN qpc' = "age"  /\ it' = it + 1
                           ELSE qpc' = "reap" /\ it' = 1
  BY DEF Age
<1> QED  BY <1>1, <1>2, <1>3, <1>4 DEF Late

\* The second loop looks at one element, and erases it if it is due.
LEMMA ReapShape ==
  ASSUME TypeInv, Reap
  PROVE  /\ qpc = "reap" /\ it \in 1 .. Len(delayed)
         /\ DOMAIN delayed = 1 .. Len(delayed)
         /\ IF delayed[it].due
            THEN /\ DOMAIN delayed' = 1 .. (Len(delayed) - 1)
                 /\ \A j \in DOMAIN delayed' :
                      delayed'[j] = IF j < it THEN delayed[j] ELSE delayed[j + 1]
                 /\ \/ qpc' = "reap" /\ it' = 2
                    \/ qpc' = "check" /\ it' = 0 /\ Len(delayed) - 1 < 2
            ELSE /\ delayed' = delayed
                 /\ \/ qpc' = "reap" /\ it' = it + 1
                    \/ qpc' = "check" /\ it' = 0 /\ it = Len(delayed)
<1>1. /\ qpc = "reap" /\ it \in 1 .. Len(delayed) /\ Len(delayed) \in Nat
      /\ DOMAIN delayed = 1 .. Len(delayed)
  BY LenProperties DEF Reap, QueueAt, TypeInv, IteratorOK, TypeOK
<1> DEFINE rest == SubSeq(delayed, 1, it - 1) \o SubSeq(delayed, it + 1, Len(delayed))
<1>2. CASE delayed[it].due
  <2>1. /\ delayed' = rest
        /\ IF 2 <= Len(rest) THEN qpc' = "reap"  /\ it' = 2
                             ELSE qpc' = "check" /\ it' = 0
    BY <1>2 DEF Reap
  <2>2. /\ DOMAIN rest = 1 .. (Len(delayed) - 1) /\ Len(rest) = Len(delayed) - 1
        /\ \A j \in 1 .. (Len(delayed) - 1) :
             rest[j] = IF j < it THEN delayed[j] ELSE delayed[j + 1]
    BY <1>1, EraseElements DEF TypeInv, TypeOK
  <2> HIDE DEF rest
  <2>3. \/ qpc' = "reap" /\ it' = 2
        \/ qpc' = "check" /\ it' = 0 /\ Len(delayed) - 1 < 2
    BY <1>1, <2>1, <2>2
  <2> QED  BY <1>1, <1>2, <2>1, <2>2, <2>3
<1>3. CASE ~delayed[it].due
  <2>1. /\ delayed' = delayed
        /\ IF it + 1 <= Len(delayed) THEN qpc' = "reap"  /\ it' = it + 1
                                     ELSE qpc' = "check" /\ it' = 0
    BY <1>3 DEF Reap
  <2>2. \/ qpc' = "reap" /\ it' = it + 1
        \/ qpc' = "check" /\ it' = 0 /\ it = Len(delayed)
    <3>1. CASE it + 1 <= Len(delayed)
      BY <2>1, <3>1
    <3>2. CASE ~(it + 1 <= Len(delayed))
      <4>1. \A n \in Nat : \A i \in 1 .. n : i + 1 <= n \/ i = n
        OBVIOUS
      <4>2. it = Len(delayed)
        BY <1>1, <3>2, <4>1
      <4> QED  BY <2>1, <3>2, <4>2
    <3> QED  BY <3>1, <3>2
  <2> QED  BY <1>1, <1>3, <2>1, <2>2
<1> QED  BY <1>2, <1>3

\* The main thread puts a new one at the end.
LEMMA AddShape ==
  ASSUME TypeInv, AddDelayedEvent
  PROVE  /\ \E due \in {FALSE, ZeroDelay} :
              delayed'[Len(delayed) + 1] = [id |-> Len(calls) + 1, due |-> due]
         /\ DOMAIN delayed = 1 .. Len(delayed) /\ Len(delayed) \in Nat
         /\ DOMAIN delayed' = 1 .. (Len(delayed) + 1)
         /\ \A j \in DOMAIN delayed : delayed'[j] = delayed[j]
         /\ DOMAIN calls = 1 .. Len(calls) /\ Len(calls) \in Nat
         /\ DOMAIN calls' = 1 .. (Len(calls) + 1) /\ Len(calls') = Len(calls) + 1
         /\ calls'[Len(calls) + 1] = 0
         /\ \A d \in DOMAIN calls : calls'[d] = calls[d]
         /\ UNCHANGED <<queue, qpc, it, cur, stopping>>
<1>1. PICK due \in {FALSE, ZeroDelay} :
        delayed' = Append(delayed, [id |-> Len(calls) + 1, due |-> due])
  BY DEF AddDelayedEvent
<1>2. calls' = Append(calls, 0) /\ UNCHANGED <<queue, qpc, it, cur, stopping>>
  BY DEF AddDelayedEvent, threadVars
<1>3. delayed \in Seq(DelayedEvent) /\ calls \in Seq(Nat)
  BY DEF TypeInv, TypeOK
<1>4. [id |-> Len(calls) + 1, due |-> due] \in DelayedEvent
  <2>1. due \in BOOLEAN
    BY ZeroDelayAssumption
  <2> QED  BY <1>3, <2>1, LenProperties DEF DelayedEvent
<1>5. /\ DOMAIN delayed = 1 .. Len(delayed) /\ Len(delayed) \in Nat
      /\ DOMAIN delayed' = 1 .. (Len(delayed) + 1)
      /\ delayed'[Len(delayed) + 1] = [id |-> Len(calls) + 1, due |-> due]
      /\ \A j \in DOMAIN delayed : delayed'[j] = delayed[j]
  BY <1>1, <1>3, <1>4, AppendProperties, LenProperties
<1>6. /\ DOMAIN calls = 1 .. Len(calls) /\ Len(calls) \in Nat
      /\ DOMAIN calls' = 1 .. (Len(calls) + 1) /\ Len(calls') = Len(calls) + 1
      /\ calls'[Len(calls) + 1] = 0
      /\ \A d \in DOMAIN calls : calls'[d] = calls[d]
  BY <1>2, <1>3, AppendProperties, LenProperties
<1> QED  BY <1>2, <1>5, <1>6

\* What is in the queue after a push, and after a pop.
LEMMA PushElements ==
  ASSUME queue \in Seq(Event), NEW e \in Event, Push(e)
  PROVE  \A i \in DOMAIN queue' : queue'[i] = e \/ \E k \in DOMAIN queue : queue'[i] = queue[k]
<1>1. CASE broken
  BY <1>1 DEF Push
<1>2. CASE ~broken
  <2>1. queue' = Append(queue, e)
    BY <1>2 DEF Push
  <2>2. /\ DOMAIN queue = 1 .. Len(queue) /\ Len(queue) \in Nat
        /\ DOMAIN queue' = 1 .. (Len(queue) + 1) /\ queue'[Len(queue) + 1] = e
        /\ \A k \in 1 .. Len(queue) : queue'[k] = queue[k]
    BY <2>1, AppendProperties, LenProperties
  <2>3. \A i \in DOMAIN queue' : i = Len(queue) + 1 \/ i \in DOMAIN queue
    BY <2>2
  <2> QED  BY <2>2, <2>3
<1> QED  BY <1>1, <1>2

LEMMA PopElements ==
  ASSUME queue \in Seq(Event), PopFront
  PROVE  \A i \in DOMAIN queue' : \E k \in DOMAIN queue : queue'[i] = queue[k]
<1>1. CASE queue = <<>>
  BY <1>1 DEF PopFront
<1>2. CASE queue # <<>>
  <2>1. queue' = Tail(queue)
    BY <1>2 DEF PopFront
  <2>2. /\ DOMAIN queue = 1 .. Len(queue) /\ Len(queue) \in Nat \ {0}
        /\ DOMAIN queue' = 1 .. (Len(queue) - 1)
        /\ \A i \in 1 .. (Len(queue) - 1) : queue'[i] = queue[i + 1]
    BY <1>2, <2>1, HeadTailProperties, LenProperties, EmptySeq
  <2>3. \A i \in DOMAIN queue' : i + 1 \in DOMAIN queue
    BY <2>2
  <2> QED  BY <2>2, <2>3
<1> QED  BY <1>1, <1>2

\* The steps that leave the list, the iterator and the counts alone.
LEMMA ListFrame ==
  ASSUME TypeInv, [Next]_vars,
         ~AddDelayedEvent, ~UpdateDelayed, ~Age, ~AgeDangling, ~Reap, ~ReapDangling,
         ~ClearDelayed
  PROVE  /\ UNCHANGED <<delayed, it>> /\ Len(calls') = Len(calls)
         /\ DOMAIN calls' = DOMAIN calls
         /\ qpc' = qpc \/ (~InUpdateDelayed /\ ~InUpdateDelayed')
<1> USE DEF InUpdateDelayed, mainVars, handlerVars, workVars, threadVars, histVars
<1>1. CASE Take
  <2>1. UNCHANGED <<delayed, it>> /\ qpc = "take" /\ qpc' = "call"
    BY <1>1 DEF Take, QueueAt
  <2>2. calls \in Seq(Nat)
    BY DEF TypeInv, TypeOK
  <2>3. calls' = calls \/ \E n : calls' = [calls EXCEPT ![n] = @ + 1]
    BY <1>1 DEF Take
  <2> QED  BY <2>1, <2>2, <2>3
<1>2. CASE ~Take
  <2>1. UNCHANGED <<delayed, it, calls>>
    BY <1>2 DEF Next, Main, CreateThread, CreateThreadFails, RegisterThread, TestTerminate,
       Activity, EndIteration, AddEvent, PeekStatus, ResumeThread, Unload, Join, Signal,
       Terminating, DrainTest, DrainPop, StopProcess, TerminatePeek, TerminateResume,
       SetTerminate, SigContHandler, ProcessQueue, TestProcess, CheckEmpty, MarkSuspended,
       EnterSigwait, SigwaitReturns, MarkActive, TakeGarbage, TakeNothing, CallbackReturns,
       CallbackFaults, Pop, vars
  <2>2. qpc' = qpc \/ (~InUpdateDelayed /\ ~InUpdateDelayed')
    BY <1>2 DEF Next, Main, CreateThread, CreateThreadFails, RegisterThread, TestTerminate,
       Activity, EndIteration, AddEvent, PeekStatus, ResumeThread, Unload, Join, Signal,
       Terminating, DrainTest, DrainPop, StopProcess, TerminatePeek, TerminateResume,
       SetTerminate, SigContHandler, ProcessQueue, TestProcess, CheckEmpty, MarkSuspended,
       EnterSigwait, SigwaitReturns, MarkActive, TakeGarbage, TakeNothing, CallbackReturns,
       CallbackFaults, Pop, QueueAt, MainAt, TypeInv, IteratorOK, vars
  <2> QED  BY <2>1, <2>2
<1> QED  BY <1>1, <1>2

\* A stop is not taken back.
LEMMA StopStays == ASSUME [Next]_vars, stopping  PROVE stopping'
BY DEF Next, Main, CreateThread, CreateThreadFails, RegisterThread, TestTerminate,
   Activity, EndIteration, AddEvent, AddDelayedEvent, PeekStatus, ResumeThread,
   Unload, Join, Signal, Terminating, ClearDelayed, DrainTest, DrainPop,
   StopProcess, TerminatePeek, TerminateResume, SetTerminate, SigContHandler,
   ProcessQueue, TestProcess, UpdateDelayed, Age, AgeDangling, Reap, ReapDangling,
   CheckEmpty, MarkSuspended, EnterSigwait, SigwaitReturns, MarkActive, Take,
   TakeGarbage, TakeNothing, CallbackReturns, CallbackFaults, Pop, vars, mainVars,
   handlerVars, workVars, threadVars, histVars

\* Only these steps change the queue.
LEMMA QueueFrame ==
  ASSUME [Next]_vars, ~AddEvent, ~Age, ~AgeDangling, ~DrainPop, ~Pop
  PROVE  queue' = queue
BY DEF Next, Main, CreateThread, CreateThreadFails, RegisterThread, TestTerminate,
   Activity, EndIteration, AddDelayedEvent, PeekStatus, ResumeThread,
   Unload, Join, Signal, Terminating, ClearDelayed, DrainTest,
   StopProcess, TerminatePeek, TerminateResume, SetTerminate, SigContHandler,
   ProcessQueue, TestProcess, UpdateDelayed, Reap, ReapDangling,
   CheckEmpty, MarkSuspended, EnterSigwait, SigwaitReturns, MarkActive, Take,
   TakeGarbage, TakeNothing, CallbackReturns, CallbackFaults, vars, mainVars,
   handlerVars, workVars, threadVars, histVars

\* What a step can put into the queue.
LEMMA QueueElements ==
  ASSUME TypeInv, [Next]_vars, NEW i \in DOMAIN queue'
  PROVE  \/ \E k \in DOMAIN queue : queue'[i] = queue[k]
         \/ queue'[i] = [id |-> nowAdded + 1, late |-> FALSE]
         \/ Age /\ queue'[i] = Late(delayed[it].id)
         \/ AgeDangling /\ queue'[i] = Garbage
<1>1. queue \in Seq(Event) /\ nowAdded \in Nat
  BY DEF TypeInv, TypeOK
<1>2. CASE AddEvent
  <2>1. [id |-> nowAdded + 1, late |-> FALSE] \in Event
    BY <1>1 DEF Event
  <2> QED  BY <1>1, <1>2, <2>1, PushElements DEF AddEvent
<1>3. CASE Age
  <2>1. Late(delayed[it].id) \in Event
    <3>1. delayed[it] \in DelayedEvent
      BY <1>3, AgeShape DEF TypeInv, TypeOK
    <3> QED  BY <3>1 DEF Late, Event, DelayedEvent
  <2>2. queue' = queue \/ Push(Late(delayed[it].id))
    BY <1>3, AgeShape
  <2> QED  BY <1>1, <1>3, <2>1, <2>2, PushElements
<1>4. CASE AgeDangling
  <2>1. queue' = queue \/ Push(Garbage)
    BY <1>4 DEF AgeDangling
  <2>2. Garbage \in Event
    BY DEF Garbage, Event
  <2> QED  BY <1>1, <1>4, <2>1, <2>2, PushElements
<1>5. CASE DrainPop \/ Pop
  BY <1>1, <1>5, PopElements DEF DrainPop, Pop
<1>6. CASE queue' = queue
  BY <1>6
<1> QED  BY <1>2, <1>3, <1>4, <1>5, <1>6, QueueFrame

-----------------------------------------------------------------------------
(* The numbers of delayed events. *)

LEMMA IdsStep ==
  ASSUME TypeInv, FlagsInv, IdsInv, [Next]_vars
  PROVE  IdsInv'
<1> DEFINE ListIds ==
             /\ \A i \in DOMAIN delayed : delayed[i].id \in 1 .. Len(calls)
             /\ \A i, j \in DOMAIN delayed : delayed[i].id = delayed[j].id => i = j
<1>1. queue \in Seq(Event) /\ nowAdded \in Nat /\ Len(calls) \in Nat
  BY LenProperties DEF TypeInv, TypeOK
<1>2. Len(calls') \in Nat /\ Len(calls) <= Len(calls')
      /\ ListIds'
  <2>1. CASE AddDelayedEvent
    <3>1. Len(calls') = Len(calls) + 1
      BY <2>1, AddShape
    <3>2. ASSUME NEW i \in DOMAIN delayed'
          PROVE  \/ i \in DOMAIN delayed /\ delayed'[i] = delayed[i]
                 \/ i = Len(delayed) + 1 /\ delayed'[i].id = Len(calls) + 1
      BY <2>1, <3>2, AddShape
    <3>3. ListIds'
      BY <1>1, <3>1, <3>2 DEF IdsInv
    <3> QED  BY <1>1, <3>1, <3>3
  <2>2. CASE Age
    <3>1. calls' = calls
      BY <2>2 DEF Age, histVars
    <3>2. DOMAIN delayed' = DOMAIN delayed
          /\ \A j \in DOMAIN delayed : delayed'[j].id = delayed[j].id
      BY <2>2, AgeShape
    <3>3. ListIds'
      BY <3>1, <3>2 DEF IdsInv
    <3> QED  BY <1>1, <3>1, <3>3
  <2>3. CASE Reap
    <3>1. calls' = calls
      BY <2>3 DEF Reap, histVars
    <3>2. CASE delayed[it].due
      <4> DEFINE old(j) == IF j < it THEN j ELSE j + 1
      <4>1. it \in Nat /\ Len(delayed) \in Nat
        BY LenProperties DEF TypeInv, TypeOK
      <4>2. \A j \in DOMAIN delayed' : old(j) \in DOMAIN delayed
                                       /\ delayed'[j] = delayed[old(j)]
        BY <2>3, <3>2, <4>1, ReapShape
      <4>3. \A i, j \in DOMAIN delayed' : old(i) = old(j) => i = j
        BY <2>3, <3>2, <4>1, ReapShape
      <4> HIDE DEF old
      <4>4. ListIds'
        BY <3>1, <4>2, <4>3 DEF IdsInv
      <4> QED  BY <1>1, <3>1, <4>4
    <3>3. CASE ~delayed[it].due
      <4>1. delayed' = delayed
        BY <2>3, <3>3, ReapShape
      <4> QED  BY <1>1, <3>1, <4>1 DEF IdsInv
    <3> QED  BY <3>2, <3>3
  <2>4. CASE ClearDelayed
    BY <1>1, <2>4 DEF ClearDelayed, histVars
  <2>5. CASE UpdateDelayed \/ AgeDangling \/ ReapDangling
    <3>1. delayed' = delayed /\ calls' = calls
      BY <2>5 DEF UpdateDelayed, AgeDangling, ReapDangling, workVars, histVars
    <3> QED  BY <1>1, <3>1 DEF IdsInv
  <2>6. CASE delayed' = delayed /\ Len(calls') = Len(calls)
    BY <1>1, <2>6 DEF IdsInv
  <2> QED  BY <2>1, <2>2, <2>3, <2>4, <2>5, <2>6, ListFrame
<1>3. ASSUME NEW i \in DOMAIN queue'
      PROVE  /\ queue'[i].late => queue'[i].id <= Len(calls')
             /\ ~stopping' => queue'[i].id # 0
  <2>1. CASE \E k \in DOMAIN queue : queue'[i] = queue[k]
    <3>1. PICK k \in DOMAIN queue : queue'[i] = queue[k]
      BY <2>1
    <3>2. queue[k].id \in Nat
      BY <1>1, EventIds
    <3> QED  BY <1>1, <1>2, <3>1, <3>2, StopStays DEF IdsInv
  <2>2. CASE queue'[i] = [id |-> nowAdded + 1, late |-> FALSE]
    BY <1>1, <2>2
  <2>3. CASE Age /\ queue'[i] = Late(delayed[it].id)
    <3>1. delayed[it].id \in 1 .. Len(calls)
      BY <2>3, AgeShape DEF IdsInv
    <3> QED  BY <1>1, <1>2, <2>3, <3>1 DEF Late
  <2>4. CASE AgeDangling /\ queue'[i] = Garbage
    <3>1. stopping
      BY <2>4 DEF AgeDangling, QueueAt, FlagsInv, InUpdateDelayed
    <3> QED  BY <1>2, <2>4, <3>1, StopStays DEF Garbage
  <2> QED  BY <2>1, <2>2, <2>3, <2>4, <1>3, QueueElements
<1> QED  BY <1>2, <1>3 DEF IdsInv

-----------------------------------------------------------------------------
(* At most two dispatches. *)

LEMMA WaitingElements ==
  ASSUME TypeOK, NEW i \in DOMAIN Waiting
  PROVE  \E k \in DOMAIN queue : Waiting[i] = queue[k]
<1>1. queue \in Seq(Event)
  BY DEF TypeOK
<1>2. CASE Waiting = queue
  BY <1>2
<1>3. CASE queue # <<>> /\ Waiting = Tail(queue)
  <2>1. /\ DOMAIN queue = 1 .. Len(queue) /\ Len(queue) \in Nat \ {0}
        /\ DOMAIN Waiting = 1 .. (Len(queue) - 1)
        /\ \A k \in 1 .. (Len(queue) - 1) : Waiting[k] = queue[k + 1]
    BY <1>1, <1>3, HeadTailProperties, LenProperties, EmptySeq
  <2>2. i + 1 \in DOMAIN queue
    BY <2>1
  <2> QED  BY <2>1, <2>2
<1> QED  BY <1>2, <1>3 DEF Waiting

\* OwedType, of the next state.
LEMMA OwedNext ==
  ASSUME TypeOK', NEW d \in DOMAIN calls'
  PROVE  Owed(d)' \in Nat
<1>1. calls'[d] \in Nat
  BY ElementOfSeq, LenProperties DEF TypeOK
<1>2. Waiting' \in Seq(Event)
  BY HeadTailProperties DEF TypeOK, Waiting
<1>3. Cardinality(CopiesOf(Waiting', d)) \in Nat
  BY <1>2, CopiesFinite
<1> QED  BY <1>1, <1>3 DEF Owed, CopiesOf

\* Nothing is owed of an event that has just been posted.
LEMMA OwedAdded ==
  ASSUME TypeInv, IdsInv, AddDelayedEvent, NEW n, n = Len(calls) + 1
  PROVE  Owed(n)' = 0
<1>1. Len(calls) \in Nat /\ calls'[n] = 0 /\ Waiting' = Waiting /\ queue \in Seq(Event)
  BY AddShape DEF Waiting, InDispatch, TypeInv, TypeOK
<1>2. ASSUME NEW i \in DOMAIN Waiting, Waiting[i] = Late(n)  PROVE FALSE
  <2>1. PICK k \in DOMAIN queue : Waiting[i] = queue[k]
    BY <1>2, WaitingElements DEF TypeInv
  <2>2. n <= Len(calls)
    BY <1>2, <2>1 DEF IdsInv, Late
  <2> QED  BY <1>1, <2>2
<1>3. CopiesOf(Waiting', n) = {}
  BY <1>1, <1>2 DEF CopiesOf
<1>4. Owed(n)' = 0 + Cardinality({})
  BY <1>1, <1>3 DEF Owed, CopiesOf
<1> QED  BY <1>4, FS_EmptySet

LEMMA TwiceStep ==
  ASSUME TypeInv, IdsInv, TwiceInv, [Next]_vars
  PROVE  TwiceInv'
<1>1. /\ DOMAIN calls = 1 .. Len(calls) /\ Len(calls) \in Nat /\ it \in Nat
      /\ DOMAIN delayed = 1 .. Len(delayed) /\ Len(delayed) \in Nat
      /\ TypeOK'
  BY TypeStep, LenProperties DEF TypeInv, TypeOK
<1>2. ASSUME NEW d \in DOMAIN calls
      PROVE  /\ d \in DOMAIN calls' /\ Owed(d) \in Nat /\ Owed(d)' \in Nat
             /\ \/ Owed(d)' <= Owed(d)
                \/ Pushes(d) /\ Owed(d)' <= Owed(d) + 1
  <2>1. d # 0
    BY <1>1
  <2>2. /\ d \in DOMAIN calls'
        /\ Owed(d)' <= Owed(d) \/ (Pushes(d) /\ Owed(d)' <= Owed(d) + 1)
    BY <1>2, <2>1, OwedStep
  <2>3. Owed(d)' \in Nat
    BY <1>1, <2>2, OwedNext
  <2>4. Owed(d) \in Nat
    BY <1>2, OwedType DEF TypeInv
  <2> QED  BY <2>2, <2>3, <2>4
<1>3. \A j \in DOMAIN delayed : delayed[j].id \in DOMAIN calls
  BY <1>1 DEF IdsInv
<1>4. ASSUME NEW d \in DOMAIN calls'  PROVE Owed(d)' <= 2
  <2>1. CASE d \in DOMAIN calls /\ Owed(d)' <= Owed(d)
    <3>1. Owed(d) <= 2
      BY <2>1 DEF TwiceInv
    <3> QED  BY <1>2, <2>1, <3>1
  <2>2. CASE Pushes(d) /\ Owed(d)' <= Owed(d) + 1
    <3>1. /\ qpc = "age" /\ it \in DOMAIN delayed /\ d = delayed[it].id
      BY <2>2, AgeShape DEF Pushes
    <3>2. Limit(it) <= 1
      BY <1>1, <3>1 DEF Limit
    <3>3. Owed(d) \in Nat /\ Owed(d)' \in Nat
      BY <1>2, <1>3, <3>1
    <3>4. Owed(d) <= IF delayed[it].due THEN Limit(it) ELSE 0
      BY <3>1 DEF TwiceInv
    <3>5. Limit(it) \in Nat
      BY DEF Limit
    <3>6. Owed(d) <= 1
      BY <3>2, <3>3, <3>4, <3>5
    <3> QED  BY <2>2, <3>3, <3>6
  <2>3. CASE d \notin DOMAIN calls
    <3>1. AddDelayedEvent
      <4>1. CASE Age \/ Reap \/ UpdateDelayed \/ AgeDangling \/ ReapDangling \/ ClearDelayed
        BY <2>3, <4>1 DEF Age, Reap, UpdateDelayed, AgeDangling, ReapDangling, ClearDelayed,
           histVars
      <4> QED  BY <2>3, <4>1, ListFrame
    <3>2. d = Len(calls) + 1
      BY <1>1, <2>3, <3>1, AddShape
    <3>3. Owed(d)' = 0
      BY <3>1, <3>2, OwedAdded
    <3> QED  BY <3>3
  <2> QED  BY <1>2, <2>1, <2>2, <2>3
<1>5. ASSUME NEW k \in DOMAIN delayed, NEW d, d = delayed[k].id
      PROVE  /\ Limit(k) \in Nat /\ Owed(d) \in Nat /\ Owed(d)' \in Nat
             /\ Owed(d) <= IF delayed[k].due THEN Limit(k) ELSE 0
             /\ ~Pushes(d) => Owed(d)' <= Owed(d)
             /\ Owed(d)' <= Owed(d) + 1
  <2>1. d \in DOMAIN calls
    BY <1>3, <1>5
  <2>2. Owed(d) <= IF delayed[k].due THEN Limit(k) ELSE 0
    BY <1>5 DEF TwiceInv
  <2>3. Limit(k) \in Nat
    BY DEF Limit
  <2> QED  BY <1>2, <2>1, <2>2, <2>3
<1>6. ASSUME NEW j \in DOMAIN delayed', NEW d, d = delayed'[j].id
      PROVE  Owed(d)' <= IF delayed'[j].due THEN Limit(j)' ELSE 0
  <2>0. Limit(j)' \in Nat
    BY DEF Limit
  <2>1. CASE AddDelayedEvent
    <3>1. CASE j = Len(delayed) + 1
      <4>1. d = Len(calls) + 1
        BY <1>6, <2>1, <3>1, AddShape
      <4>2. Owed(d)' = 0
        BY <2>1, <4>1, OwedAdded
      <4> QED  BY <2>0, <4>2
    <3>2. CASE j \in DOMAIN delayed
      <4>1. delayed'[j] = delayed[j] /\ it' = it /\ qpc' = qpc
        BY <2>1, <3>2, AddShape
      <4>2. Limit(j)' = Limit(j)
        BY <4>1 DEF Limit
      <4>3. ~Pushes(d)
        <5> SUFFICES ASSUME Age  PROVE FALSE
          BY DEF Pushes
        <5>1. qpc = "age" /\ (qpc' = "reap" \/ it' = it + 1)
          BY AgeShape
        <5> QED  BY <1>1, <4>1, <5>1
      <4> QED  BY <1>5, <1>6, <2>0, <3>2, <4>1, <4>2, <4>3
    <3> QED  BY <1>1, <1>6, <2>1, <3>1, <3>2, AddShape
  <2>2. CASE UpdateDelayed
    <3>1. delayed' = delayed /\ Limit(j)' = Limit(j) /\ ~Pushes(d)
      BY <1>1, <1>6, <2>2 DEF UpdateDelayed, workVars, QueueAt, Limit, Pushes, Age
    <3> QED  BY <1>5, <1>6, <2>0, <3>1
  <2>3. CASE Age
    <3>0. j \in DOMAIN delayed /\ d = delayed[j].id
      BY <1>6, <2>3, AgeShape
    <3>3. /\ qpc = "age" /\ it \in Nat /\ it # 0 /\ j \in Nat
          /\ \/ qpc' = "age" /\ it' = it + 1
             \/ qpc' = "reap" /\ it' = 1 /\ j <= it
      <4>1. /\ qpc = "age" /\ it \in 1 .. Len(delayed)
            /\ \/ qpc' = "age" /\ it' = it + 1
               \/ qpc' = "reap" /\ it' = 1 /\ it = Len(delayed)
        BY <2>3, AgeShape
      <4>2. j \in 1 .. Len(delayed)
        BY <1>1, <3>0
      <4>3. \A n \in Nat : \A i \in 1 .. n : i \in Nat /\ i # 0 /\ i <= n
        OBVIOUS
      <4>4. it \in Nat /\ it # 0 /\ j \in Nat /\ j <= Len(delayed)
        BY <1>1, <4>1, <4>2, <4>3
      <4> QED  BY <4>1, <4>4
    <3>1. CASE j = it
      <4>1. Limit(j)' = Limit(j) + 1
        BY <3>1, <3>3 DEF Limit
      <4>2. CASE delayed'[j].due
        <5>1. Owed(d) <= Limit(j)
          <6>1. /\ Limit(j) \in Nat
                /\ Owed(d) <= IF delayed[j].due THEN Limit(j) ELSE 0
            BY <1>5, <3>0
          <6>2. 0 <= Limit(j)
            BY <6>1
          <6> QED  BY <1>5, <3>0, <6>1, <6>2
        <5>2. /\ Limit(j) \in Nat /\ Owed(d) \in Nat /\ Owed(d)' \in Nat
              /\ Owed(d)' <= Owed(d) + 1
          BY <1>5, <3>0
        <5> QED  BY <4>1, <4>2, <5>1, <5>2
      <4>3. CASE ~delayed'[j].due
        <5>1. ~Pushes(d) /\ ~delayed[j].due
          BY <2>3, <3>1, <4>3, AgeShape DEF Pushes
        <5> QED  BY <1>5, <3>0, <4>3, <5>1
      <4> QED  BY <4>2, <4>3
    <3>2. CASE j # it
      <4>1. delayed'[j] = delayed[j]
        BY <2>3, <3>0, <3>2, AgeShape
      <4>2. ~Pushes(d)
        BY <2>3, <3>0, <3>2, AgeShape DEF Pushes, IdsInv
      <4>3. Limit(j)' = Limit(j)
        BY <3>2, <3>3 DEF Limit
      <4> QED  BY <1>5, <3>0, <4>1, <4>2, <4>3
    <3> QED  BY <3>1, <3>2
  <2>4. CASE Reap
    <3>0. ~Pushes(d)
      BY <2>4, ReapShape DEF Pushes, Age, QueueAt
    <3>1. CASE delayed[it].due
      <4>1. PICK k \in DOMAIN delayed : /\ k = IF j < it THEN j ELSE j + 1
                                        /\ delayed'[j] = delayed[k]
        BY <1>1, <1>6, <2>4, <3>1, ReapShape
      <4>2. Limit(k) <= Limit(j)'
        BY <1>1, <1>6, <2>4, <3>1, <4>1, ReapShape DEF Limit
      <4> QED  BY <1>5, <1>6, <2>0, <3>0, <4>1, <4>2
    <3>2. CASE ~delayed[it].due
      <4>1. delayed' = delayed
        BY <2>4, <3>2, ReapShape
      <4>2. CASE j = it
        BY <1>5, <1>6, <3>0, <3>2, <4>1, <4>2
      <4>3. CASE j # it
        <5>1. /\ qpc = "reap" /\ it \in Nat /\ it # 0 /\ j \in Nat /\ j # 0
              /\ \/ qpc' = "reap" /\ it' = it + 1
                 \/ qpc' = "check" /\ it' = 0 /\ j <= it
          <6>1. /\ qpc = "reap" /\ it \in 1 .. Len(delayed)
                /\ \/ qpc' = "reap" /\ it' = it + 1
                   \/ qpc' = "check" /\ it' = 0 /\ it = Len(delayed)
            BY <2>4, <3>2, ReapShape
          <6>2. j \in 1 .. Len(delayed)
            BY <1>1, <1>6, <4>1
          <6>3. \A n \in Nat : \A i \in 1 .. n : i \in Nat /\ i # 0 /\ i <= n
            OBVIOUS
          <6>4. it \in Nat /\ it # 0 /\ j \in Nat /\ j # 0 /\ j <= Len(delayed)
            BY <1>1, <6>1, <6>2, <6>3
          <6> QED  BY <6>1, <6>4
        <5>2. Limit(j) <= Limit(j)'
          BY <4>3, <5>1 DEF Limit
        <5>3. /\ Limit(j) \in Nat /\ Owed(d) \in Nat /\ Owed(d)' \in Nat
              /\ Owed(d) <= IF delayed[j].due THEN Limit(j) ELSE 0
              /\ Owed(d)' <= Owed(d)
          BY <1>5, <1>6, <3>0, <4>1
        <5> QED  BY <2>0, <4>1, <5>2, <5>3
      <4> QED  BY <4>2, <4>3
    <3> QED  BY <3>1, <3>2
  <2>5. CASE ClearDelayed
    BY <1>6, <2>5 DEF ClearDelayed
  <2>6. CASE AgeDangling \/ ReapDangling
    <3>1. delayed' = delayed /\ ~Pushes(d)
      BY <2>6 DEF AgeDangling, ReapDangling, workVars, Pushes, Age
    <3>2. Limit(j) <= Limit(j)'
      BY <1>1, <1>6, <2>6, <3>1 DEF AgeDangling, ReapDangling, QueueAt, Limit
    <3> QED  BY <1>5, <1>6, <2>0, <3>1, <3>2
  <2>7. CASE /\ ~AddDelayedEvent /\ ~UpdateDelayed /\ ~Age /\ ~AgeDangling
             /\ ~Reap /\ ~ReapDangling /\ ~ClearDelayed
    <3>1. UNCHANGED <<delayed, it>>
          /\ (qpc' = qpc \/ (~InUpdateDelayed /\ ~InUpdateDelayed'))
      BY <2>7, ListFrame
    <3>2. Limit(j)' = Limit(j) /\ ~Pushes(d)
      BY <2>7, <3>1 DEF Limit, InUpdateDelayed, Pushes
    <3> QED  BY <1>5, <1>6, <2>0, <3>1, <3>2
  <2> QED  BY <2>1, <2>2, <2>3, <2>4, <2>5, <2>6, <2>7
<1> QED  BY <1>4, <1>6 DEF TwiceInv, Owed

\* No delayed event is dispatched more than twice, whatever the delays and however
\* the stop cuts into UpdateDelayed.
THEOREM AtMostTwice == Spec => []DelayedAtMostTwice
<1>1. Init => IdsInv /\ TwiceInv
  BY DEF Init, IdsInv, TwiceInv
<1>2. IInv /\ (IdsInv /\ TwiceInv) /\ [Next]_vars => (IdsInv /\ TwiceInv)'
  BY IdsStep, TwiceStep DEF IInv
<1>3. TypeInv /\ TwiceInv => DelayedAtMostTwice
  <2> SUFFICES ASSUME TypeInv, TwiceInv, NEW d \in DOMAIN calls  PROVE calls[d] <= 2
    BY DEF DelayedAtMostTwice
  <2>1. /\ calls[d] \in Nat /\ Cardinality(CopiesOf(Waiting, d)) \in Nat
        /\ Owed(d) = calls[d] + Cardinality(CopiesOf(Waiting, d)) /\ Owed(d) <= 2
    BY OwedType DEF TypeInv, TwiceInv, Owed
  <2> QED  BY <2>1
<1>4. IInv => TypeInv
  BY DEF IInv
<1> QED  BY <1>1, <1>2, <1>3, <1>4, Invariance, PTL DEF Spec

-----------------------------------------------------------------------------
(* Before the stop nothing is lost. *)

\* A dispatch is never forgotten.
LEMMA CallsGrow ==
  ASSUME TypeInv, [Next]_vars, NEW d \in DOMAIN calls
  PROVE  /\ d \in DOMAIN calls' /\ calls[d] \in Nat /\ calls'[d] \in Nat
         /\ calls[d] <= calls'[d]
<1>1. calls \in Seq(Nat) /\ \A k \in DOMAIN calls : calls[k] \in Nat
  BY OwedType DEF TypeInv, TypeOK
<1>2. CASE AddDelayedEvent
  BY <1>1, <1>2, AddShape
<1>3. CASE Take
  <2>1. \/ calls' = calls
        \/ cur'.id \in DOMAIN calls /\ calls' = [calls EXCEPT ![cur'.id] = @ + 1]
    BY <1>3 DEF Take
  <2>2. CASE calls' = calls
    BY <1>1, <2>2
  <2>3. CASE cur'.id \in DOMAIN calls /\ calls' = [calls EXCEPT ![cur'.id] = @ + 1]
    <3>1. DOMAIN calls' = DOMAIN calls
      BY <2>3
    <3>2. calls'[d] = IF d = cur'.id THEN calls[d] + 1 ELSE calls[d]
      BY <2>3
    <3>3. calls[d] \in Nat
      BY <1>1
    <3> QED  BY <3>1, <3>2, <3>3
  <2> QED  BY <2>1, <2>2, <2>3
<1>4. CASE ~AddDelayedEvent /\ ~Take
  <2>1. calls' = calls
    BY <1>4 DEF Next, Main, CreateThread, CreateThreadFails, RegisterThread, TestTerminate,
       Activity, EndIteration, AddEvent, PeekStatus, ResumeThread, Unload, Join, Signal,
       Terminating, ClearDelayed, DrainTest, DrainPop, StopProcess, TerminatePeek,
       TerminateResume, SetTerminate, SigContHandler, ProcessQueue, TestProcess,
       UpdateDelayed, Age, AgeDangling, Reap, ReapDangling, CheckEmpty, MarkSuspended,
       EnterSigwait, SigwaitReturns, MarkActive, TakeGarbage, TakeNothing, CallbackReturns,
       CallbackFaults, Pop, vars, mainVars, handlerVars, workVars, threadVars, histVars
  <2> QED  BY <1>1, <2>1
<1> QED  BY <1>2, <1>3, <1>4

\* A push to a queue that is not broken keeps what is in it, and adds the event.
LEMMA PushKeeps ==
  ASSUME queue \in Seq(Event), ~broken, NEW e \in Event, Push(e)
  PROVE  /\ \E i \in DOMAIN queue' : queue'[i] = e
         /\ \A k \in DOMAIN queue : \E i \in DOMAIN queue' : queue'[i] = queue[k]
<1>1. queue' = Append(queue, e)
  BY DEF Push
<1>2. /\ DOMAIN queue = 1 .. Len(queue) /\ Len(queue) \in Nat
      /\ DOMAIN queue' = 1 .. (Len(queue) + 1) /\ queue'[Len(queue) + 1] = e
      /\ \A k \in 1 .. Len(queue) : queue'[k] = queue[k]
  BY <1>1, AppendProperties, LenProperties
<1>3. Len(queue) + 1 \in DOMAIN queue' /\ \A k \in DOMAIN queue : k \in DOMAIN queue'
  BY <1>2
<1> QED  BY <1>2, <1>3

\* What the stop alone makes possible.
LEMMA Undisturbed ==
  ASSUME IInv, ~stopping
  PROVE  /\ ~broken /\ ~ClearDelayed /\ ~DrainPop /\ ~AgeDangling /\ ~ReapDangling
         /\ ~TakeGarbage
<1>1. hpc = "idle" /\ ~broken /\ ~(InUpdateDelayed /\ it = 0)
  BY DEF IInv, FlagsInv, QueueInv, BrokenInv
<1> QED  BY <1>1 DEF ClearDelayed, DrainPop, HandlerAt, AgeDangling, ReapDangling,
            TakeGarbage, QueueAt, InUpdateDelayed

\* What has been dispatched or waits in the queue stays so: the pop after a callback
\* takes the event of that callback.
LEMMA PlacedStays ==
  ASSUME IInv, KeptInv, [Next]_vars, ~stopping, NEW d \in DOMAIN calls, Placed(d)
  PROVE  Placed(d)'
<1> USE DEF IInv
<1>1. /\ d \in DOMAIN calls' /\ calls[d] \in Nat /\ calls'[d] \in Nat
      /\ calls[d] <= calls'[d]
  BY CallsGrow
<1>2. CASE calls[d] > 0
  BY <1>1, <1>2 DEF Placed
<1>3. CASE \E k \in DOMAIN queue : queue[k] = Late(d)
  <2>1. PICK k \in DOMAIN queue : queue[k] = Late(d)
    BY <1>3
  <2>2. queue \in Seq(Event) /\ ~broken /\ nowAdded \in Nat
    BY Undisturbed DEF TypeInv, TypeOK
  <2>3. CASE AddEvent
    <3>1. [id |-> nowAdded + 1, late |-> FALSE] \in Event
      BY <2>2 DEF Event
    <3>2. \E i \in DOMAIN queue' : queue'[i] = queue[k]
      BY <2>1, <2>2, <2>3, <3>1, PushKeeps DEF AddEvent
    <3> QED  BY <2>1, <3>2 DEF Placed
  <2>4. CASE Age
    <3>1. Late(delayed[it].id) \in Event
      <4>1. delayed[it] \in DelayedEvent
        BY <2>4, AgeShape DEF TypeInv, TypeOK
      <4> QED  BY <4>1 DEF Late, Event, DelayedEvent
    <3>2. queue' = queue \/ Push(Late(delayed[it].id))
      BY <2>4, AgeShape
    <3>3. \E i \in DOMAIN queue' : queue'[i] = queue[k]
      BY <2>1, <2>2, <3>1, <3>2, PushKeeps
    <3> QED  BY <2>1, <3>3 DEF Placed
  <2>5. CASE Pop
    <3>1. /\ queue # <<>> /\ Head(queue) = cur /\ InDispatch
          /\ queue' = Tail(queue)
      BY <2>5 DEF Pop, PopFront, QueueAt, InDispatch, QueueInv, CurrentInv
    <3>2. /\ DOMAIN queue = 1 .. Len(queue) /\ Len(queue) \in Nat \ {0}
          /\ Head(queue) = queue[1]
          /\ DOMAIN queue' = 1 .. (Len(queue) - 1)
          /\ \A i \in 1 .. (Len(queue) - 1) : queue'[i] = queue[i + 1]
      BY <2>2, <3>1, HeadTailProperties, LenProperties, EmptySeq
    <3>3. CASE k = 1
      <4>1. cur = Late(d)
        BY <2>1, <3>1, <3>2, <3>3
      <4>2. calls[d] > 0
        BY <3>1, <4>1 DEF KeptInv, Late
      <4> QED  BY <1>2, <4>2
    <3>4. CASE k # 1
      <4>1. k - 1 \in DOMAIN queue' /\ queue'[k - 1] = queue[k]
        BY <2>1, <3>2, <3>4
      <4> QED  BY <2>1, <4>1 DEF Placed
    <3> QED  BY <3>3, <3>4
  <2>6. CASE queue' = queue
    BY <2>1, <2>6 DEF Placed
  <2> QED  BY <2>3, <2>4, <2>5, <2>6, QueueFrame, Undisturbed
<1> QED  BY <1>2, <1>3 DEF Placed

LEMMA KeptStep ==
  ASSUME ZeroDelay = FALSE, IInv, IdsInv, KeptInv, [Next]_vars
  PROVE  KeptInv'
<1> SUFFICES ASSUME ~stopping'
             PROVE  /\ InDispatch' /\ cur'.late
                         => cur'.id \in DOMAIN calls' /\ calls'[cur'.id] > 0
                    /\ \A i \in DOMAIN delayed' :
                         delayed'[i].due => \A d : d = delayed'[i].id => Placed(d)'
                    /\ \A d \in DOMAIN calls' :
                         Placed(d)' \/ \E i \in DOMAIN delayed' : delayed'[i].id = d
  BY DEF KeptInv, Placed
<1>1. /\ ~stopping /\ TypeInv /\ queue \in Seq(Event) /\ calls \in Seq(Nat)
      /\ DOMAIN calls = 1 .. Len(calls) /\ Len(calls) \in Nat
      /\ DOMAIN delayed = 1 .. Len(delayed) /\ Len(delayed) \in Nat
  BY StopStays, LenProperties DEF IInv, TypeInv, TypeOK
<1>2. ~broken /\ ~ClearDelayed /\ ~AgeDangling /\ ~ReapDangling /\ ~TakeGarbage
  BY <1>1, Undisturbed
<1>3. ASSUME NEW d \in DOMAIN calls, Placed(d)  PROVE Placed(d)'
  BY <1>1, <1>3, PlacedStays
<1>4. /\ \A i \in DOMAIN delayed : delayed[i].id \in DOMAIN calls
      /\ \A i \in DOMAIN delayed : delayed[i].due => Placed(delayed[i].id)
      /\ \A d \in DOMAIN calls : Placed(d) \/ \E i \in DOMAIN delayed : delayed[i].id = d
  BY <1>1 DEF IdsInv, KeptInv
<1>5. ASSUME InDispatch', cur'.late
      PROVE  cur'.id \in DOMAIN calls' /\ calls'[cur'.id] > 0
  <2>1. CASE Take
    <3>1. /\ cur' = Head(queue) /\ queue # <<>> /\ 1 \in DOMAIN queue /\ Head(queue) = queue[1]
      BY <1>1, <2>1, LenProperties, EmptySeq DEF Take
    <3>2. queue[1] \in Event
      BY <1>1, <3>1, ElementOfSeq, LenProperties
    <3>3. cur'.id \in DOMAIN calls
      BY <1>1, <1>5, <3>1, <3>2 DEF IdsInv, Event
    <3>4. calls' = [calls EXCEPT ![cur'.id] = @ + 1]
      BY <1>5, <2>1, <3>3 DEF Take
    <3>5. calls[cur'.id] \in Nat
      BY <1>1, <3>3, CallsGrow
    <3> QED  BY <1>1, <3>3, <3>4, <3>5
  <2>2. CASE ~Take
    <3>1. InDispatch /\ cur' = cur
      BY <1>2, <1>5, <2>2 DEF InDispatch, Next, Main, CreateThread, CreateThreadFails,
         RegisterThread, TestTerminate, Activity, EndIteration, AddEvent, AddDelayedEvent,
         PeekStatus, ResumeThread, Unload, Join, Signal, Terminating, DrainTest, DrainPop,
         StopProcess, TerminatePeek, TerminateResume, SetTerminate, SigContHandler,
         ProcessQueue, TestProcess, UpdateDelayed, Age, Reap, CheckEmpty, MarkSuspended,
         EnterSigwait, SigwaitReturns, MarkActive, TakeNothing, CallbackReturns,
         CallbackFaults, Pop, QueueAt, vars, mainVars, handlerVars, workVars, threadVars
    <3>2. cur.id \in DOMAIN calls /\ calls[cur.id] > 0
      BY <1>1, <1>5, <3>1 DEF KeptInv
    <3> QED  BY <1>1, <3>1, <3>2, CallsGrow
  <2> QED  BY <2>1, <2>2
<1>6. ASSUME NEW i \in DOMAIN delayed', delayed'[i].due, NEW d, d = delayed'[i].id
      PROVE  Placed(d)'
  <2>1. CASE AddDelayedEvent
    <3>1. ~delayed'[Len(delayed) + 1].due
      BY <1>1, <2>1, AddShape
    <3>2. i \in DOMAIN delayed /\ delayed'[i] = delayed[i]
      <4>1. i \in 1 .. (Len(delayed) + 1)
        BY <1>1, <1>6, <2>1, AddShape
      <4>2. i \in DOMAIN delayed
        BY <1>1, <1>6, <3>1, <4>1
      <4> QED  BY <1>1, <2>1, <4>2, AddShape
    <3> QED  BY <1>3, <1>4, <1>6, <3>2
  <2>2. CASE Age
    <3>1. i \in DOMAIN delayed /\ d = delayed[i].id
      BY <1>1, <1>6, <2>2, AgeShape
    <3>2. CASE i = it
      <4>1. Push(Late(d))
        BY <1>1, <1>6, <2>2, <3>1, <3>2, AgeShape
      <4>2. Late(d) \in Event
        BY <1>1, <1>4, <3>1 DEF Late, Event
      <4>3. \E k \in DOMAIN queue' : queue'[k] = Late(d)
        BY <1>1, <1>2, <4>1, <4>2, PushKeeps
      <4> QED  BY <4>3 DEF Placed
    <3>3. CASE i # it
      <4>1. delayed'[i] = delayed[i]
        BY <1>1, <2>2, <3>1, <3>3, AgeShape
      <4> QED  BY <1>3, <1>4, <1>6, <3>1, <4>1
    <3> QED  BY <3>2, <3>3
  <2>3. CASE Reap
    <3>1. \E k \in DOMAIN delayed : delayed'[i] = delayed[k]
      <4>1. CASE delayed[it].due
        <5>1. i \in 1 .. (Len(delayed) - 1)
              /\ delayed'[i] = IF i < it THEN delayed[i] ELSE delayed[i + 1]
          BY <1>1, <1>6, <2>3, <4>1, ReapShape
        <5>2. i \in DOMAIN delayed /\ i + 1 \in DOMAIN delayed
          BY <1>1, <5>1
        <5> QED  BY <5>1, <5>2
      <4>2. CASE ~delayed[it].due
        BY <1>1, <1>6, <2>3, <4>2, ReapShape
      <4> QED  BY <4>1, <4>2
    <3> QED  BY <1>3, <1>4, <1>6, <3>1
  <2>4. CASE UpdateDelayed
    <3>1. delayed' = delayed
      BY <2>4 DEF UpdateDelayed, workVars
    <3> QED  BY <1>3, <1>4, <1>6, <3>1
  <2>5. CASE delayed' = delayed
    BY <1>3, <1>4, <1>6, <2>5
  <2> QED  BY <1>1, <1>2, <2>1, <2>2, <2>3, <2>4, <2>5, ListFrame
<1>7. ASSUME NEW d \in DOMAIN calls'
      PROVE  Placed(d)' \/ \E i \in DOMAIN delayed' : delayed'[i].id = d
  <2>1. CASE d \notin DOMAIN calls
    <3>1. AddDelayedEvent
      <4>1. CASE Age \/ Reap \/ UpdateDelayed
        BY <1>7, <2>1, <4>1 DEF Age, Reap, UpdateDelayed, histVars
      <4> QED  BY <1>1, <1>2, <1>7, <2>1, <4>1, ListFrame
    <3>2. d = Len(calls) + 1
      BY <1>1, <1>7, <2>1, <3>1, AddShape
    <3>3. Len(delayed) + 1 \in DOMAIN delayed' /\ delayed'[Len(delayed) + 1].id = d
      BY <1>1, <3>1, <3>2, AddShape
    <3> QED  BY <3>3
  <2>2. CASE d \in DOMAIN calls /\ ~Placed(d)
    <3>1. PICK k \in DOMAIN delayed : delayed[k].id = d
      BY <1>4, <2>2
    <3>2. ~delayed[k].due
      BY <1>4, <2>2, <3>1
    <3>3. CASE AddDelayedEvent
      BY <1>1, <3>1, <3>3, AddShape
    <3>4. CASE Age
      <4>1. k \in DOMAIN delayed' /\ delayed'[k].id = d
        BY <1>1, <3>1, <3>4, AgeShape
      <4> QED  BY <4>1
    <3>5. CASE Reap
      <4>1. CASE delayed[it].due
        <5> DEFINE m == IF k < it THEN k ELSE k - 1
        <5>1. k # it /\ it \in DOMAIN delayed
          BY <1>1, <3>2, <3>5, <4>1, ReapShape
        <5>2. m \in 1 .. (Len(delayed) - 1) /\ (IF m < it THEN m ELSE m + 1) = k
          BY <1>1, <3>1, <5>1
        <5>3. m \in DOMAIN delayed' /\ delayed'[m] = delayed[k]
          BY <1>1, <3>5, <4>1, <5>2, ReapShape
        <5> QED  BY <3>1, <5>3
      <4>2. CASE ~delayed[it].due
        BY <1>1, <3>1, <3>5, <4>2, ReapShape
      <4> QED  BY <4>1, <4>2
    <3>6. CASE UpdateDelayed
      BY <3>1, <3>6 DEF UpdateDelayed, workVars
    <3>7. CASE delayed' = delayed
      BY <3>1, <3>7
    <3> QED  BY <1>1, <1>2, <3>3, <3>4, <3>5, <3>6, <3>7, ListFrame
  <2> QED  BY <1>3, <2>1, <2>2
<1> QED  BY <1>5, <1>6, <1>7

\* When no delay is zero, no delayed event is lost between UpdateDelayed's two loops,
\* or anywhere else, before the stop.
THEOREM NoneLost == ASSUME ZeroDelay = FALSE  PROVE Spec => []DelayedKept
<1>1. Init => IdsInv /\ KeptInv
  BY DEF Init, IdsInv, KeptInv, InDispatch
<1>2. IInv /\ (IdsInv /\ KeptInv) /\ [Next]_vars => (IdsInv /\ KeptInv)'
  BY IdsStep, KeptStep DEF IInv
<1>3. TypeInv /\ KeptInv => DelayedKept
  <2> SUFFICES ASSUME TypeInv, KeptInv, ~stopping, NEW d \in DOMAIN calls
               PROVE  \/ calls[d] > 0
                      \/ \E i \in DOMAIN delayed : delayed[i].id = d
                      \/ \E i \in DOMAIN queue : queue[i] = [id |-> d, late |-> TRUE]
    BY DEF DelayedKept
  <2> QED  BY DEF KeptInv, Placed, Late
<1>4. IInv => TypeInv
  BY DEF IInv
<1> QED  BY <1>1, <1>2, <1>3, <1>4, Invariance, PTL DEF Spec
=============================================================================
