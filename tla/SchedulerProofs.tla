-------------------------- MODULE SchedulerProofs ---------------------------
(***************************************************************************)
(* Proofs about Scheduler, for every set of events and every clock: the    *)
(* inductive invariant, the safety invariants it implies, and that the     *)
(* scheduler implements TimerService.                                      *)
(***************************************************************************)
EXTENDS Scheduler, TLAPS

USE SchedulerAssumption DEF SchedulerAssumption, Instant, Forever, PC

\* The inductive invariant: the four invariants support one another (a heap
\* that holds an event twice would break the refinement, for instance).
IInv == TypeOK /\ QueuedFlagAgrees /\ NoMissedWakeup /\ StopNotMissed

LEMMA InitInv == Init => IInv
<1> SUFFICES ASSUME Init PROVE IInv
  OBVIOUS
<1> USE DEF Init
<1>1. TypeOK
  <2>1. qued \in [Event -> BOOLEAN] /\ cancelled \in [Event -> BOOLEAN]
    BY Zenon
  <2>2. time \in [Event -> Instant] /\ queue \in [Event -> Nat] /\ 0 \in Instant
    OBVIOUS
  <2>3. deadline \in Instant \cup {Forever} /\ calls \in 0 .. MaxCalls
    OBVIOUS
  <2>4. cancelling \in SUBSET Event /\ pc \in PC /\ now = 0
    OBVIOUS
  <2>5. stop \in BOOLEAN /\ notified \in BOOLEAN /\ stopping \in BOOLEAN
    BY Zenon
  <2>6. current \in Event \cup {NoEvent} /\ ((current # NoEvent) <=> (pc = "run"))
    OBVIOUS
  <2> HIDE DEF Init, Instant, Forever, PC
  <2> QED BY <2>1, <2>2, <2>3, <2>4, <2>5, <2>6 DEF TypeOK
<1>2. QueuedFlagAgrees
  <2>1. ASSUME NEW e \in Event PROVE queue[e] = 0 /\ qued[e] = FALSE
    OBVIOUS
  <2> QED BY <2>1 DEF QueuedFlagAgrees
<1>3. NoMissedWakeup /\ StopNotMissed
  BY DEF NoMissedWakeup, StopNotMissed
<1> QED BY <1>1, <1>2, <1>3 DEF IInv

\* Every step of run() preserves the inductive invariant.
LEMMA RunInv == ASSUME IInv, Run PROVE IInv'
<1> USE DEF IInv, TypeOK, QueuedFlagAgrees, NoMissedWakeup, StopNotMissed, Queued
<1>1. CASE RunStart
  BY <1>1 DEF RunStart, heapVars, callerVars
<1>2. CASE LoopExit
  BY <1>2 DEF LoopExit, heapVars, callerVars
<1>3. CASE LoopBody
  BY <1>3 DEF LoopBody, heapVars, callerVars
<1>4. CASE WaitEmpty
  BY <1>4 DEF WaitEmpty, StartWait, heapVars, callerVars
<1>5. CASE WaitUntil
  <2>1. PICK e \in Event : Top(e) /\ now < time[e] /\ StartWait(time[e])
    BY <1>5 DEF WaitUntil
  <2>2. TypeOK' /\ QueuedFlagAgrees'
    BY <1>5, <2>1 DEF WaitUntil, StartWait, heapVars, callerVars
  <2>3. NoMissedWakeup'
    BY <2>1 DEF StartWait, Top, heapVars
  <2>4. StopNotMissed'
    BY <1>5, <2>1 DEF WaitUntil, StartWait, callerVars
  <2> QED BY <2>2, <2>3, <2>4
<1>6. ASSUME NEW e \in Event, Pop(e) PROVE IInv'
  <2> USE <1>6 DEF Pop, callerVars
  <2>1. qued[e] /\ queue[e] = 1
    BY DEF Top
  <2>2. QueuedFlagAgrees'
    BY <2>1
  <2>3. pc' \in {"loop", "run"} /\ (current' # NoEvent <=> pc' = "run") /\ current' \in Event \cup {NoEvent}
    OBVIOUS
  <2>4. TypeOK'
    BY <2>1, <2>3
  <2> QED BY <2>2, <2>3, <2>4
<1>7. CASE CallbackReturn
  BY <1>7 DEF CallbackReturn, heapVars, callerVars
<1>8. CASE Wake
  BY <1>8 DEF Wake, heapVars, callerVars
<1> QED BY <1>1, <1>2, <1>3, <1>4, <1>5, <1>6, <1>7, <1>8 DEF Run

\* So does every step of a caller.
LEMMA CallInv == ASSUME IInv, Call PROVE IInv'
<1> USE DEF IInv, TypeOK, QueuedFlagAgrees, NoMissedWakeup, StopNotMissed, Queued, runnerVars
<1>1. ASSUME NEW e \in Event, NEW t \in Instant, Schedule(e, t) PROVE IInv'
  <2> USE <1>1 DEF Schedule, MaySchedule
  <2>1. TypeOK'
    <3>1. UNCHANGED <<now, stop, pc, deadline, current, cancelling, stopping>>
      OBVIOUS
    <3>2. time' \in [Event -> Instant] /\ queue' \in [Event -> Nat] /\ calls' \in 0 .. MaxCalls
      OBVIOUS
    <3>3. qued' \in [Event -> BOOLEAN] /\ cancelled' \in [Event -> BOOLEAN]
      BY Zenon
    <3>4. notified' \in BOOLEAN
      BY DEF NotifyOne
    <3> QED BY <3>1, <3>2, <3>3, <3>4
  <2>2. QueuedFlagAgrees'
    <3>1. ~qued[e] /\ queue[e] = 0
      OBVIOUS
    <3>2. ASSUME NEW f \in Event PROVE queue'[f] = IF qued'[f] THEN 1 ELSE 0
      BY <3>1
    <3> QED BY <3>2
  <2>3. NoMissedWakeup'
    <3> SUFFICES ASSUME pc = "wait", ~notified', NEW f \in Event, queue'[f] > 0
                 PROVE deadline <= time'[f]
      OBVIOUS
    <3>1. ~IsEarliest(e, t) /\ ~notified
      BY DEF NotifyOne
    <3>2. PICK g \in Event \ {e} : Queued(g) /\ ~(t <= time[g])
      BY <3>1 DEF IsEarliest
    <3>3. deadline <= time[g] /\ time[g] < t
      BY <3>1, <3>2
    <3>4. CASE f = e
      BY <3>3, <3>4
    <3>5. CASE f # e
      BY <3>1, <3>5
    <3> QED BY <3>4, <3>5
  <2>4. StopNotMissed'
    BY DEF NotifyOne
  <2> QED BY <2>1, <2>2, <2>3, <2>4
<1>2. ASSUME NEW e \in Event, CancelTest(e) PROVE IInv'
  BY <1>2 DEF CancelTest, heapVars
<1>3. ASSUME NEW e \in Event, CancelSet(e) PROVE IInv'
  BY <1>3 DEF CancelSet, heapVars
<1>4. CASE Clear
  <2> USE <1>4 DEF Clear, ClearFlags, callerVars
  <2>1. ASSUME NEW e \in Event PROVE queue'[e] = 0 /\ ~qued'[e]
    <3>1. qued[e] => queue[e] > 0
      OBVIOUS
    <3>2. qued'[e] = (qued[e] /\ ~(queue[e] > 0))
      BY Zenon
    <3>3. queue'[e] = 0
      OBVIOUS
    <3> QED BY <3>1, <3>2, <3>3
  <2>2. qued' \in [Event -> BOOLEAN]
    BY Zenon
  <2>3. QueuedFlagAgrees' /\ NoMissedWakeup'
    BY <2>1
  <2>4. TypeOK' /\ StopNotMissed'
    BY <2>2
  <2> QED BY <2>3, <2>4
<1>5. CASE StopSet
  BY <1>5 DEF StopSet, heapVars
<1>6. CASE StopNotify
  BY <1>6 DEF StopNotify, MayNotifyStop, NotifyOne, Locked, heapVars
<1> QED BY <1>1, <1>2, <1>3, <1>4, <1>5, <1>6 DEF Call

LEMMA StepInv == IInv /\ [Next]_vars => IInv'
<1> SUFFICES ASSUME IInv, [Next]_vars PROVE IInv'
  OBVIOUS
<1> USE DEF IInv, TypeOK, QueuedFlagAgrees, NoMissedWakeup, StopNotMissed, Queued
<1>1. CASE Run
  BY <1>1, RunInv
<1>2. CASE Call
  BY <1>2, CallInv
<1>3. CASE SpuriousWake
  BY <1>3 DEF SpuriousWake, heapVars, callerVars
<1>4. CASE Tick
  BY <1>4 DEF Tick, heapVars, runnerVars, callerVars
<1>5. CASE UNCHANGED vars
  BY <1>5 DEF vars
<1> QED BY <1>1, <1>2, <1>3, <1>4, <1>5 DEF Next

LEMMA Invariance == Spec => []IInv
  BY InitInv, StepInv, PTL DEF Spec

\* The types of Scheduler hold in every reachable state.
THEOREM Typing == Spec => []TypeOK
  BY Invariance, PTL DEF IInv

\* The heap and the _qued flags never disagree, however schedule(), clear() and
\* the runner interleave.
THEOREM FlagsAgree == Spec => []QueuedFlagAgrees
  BY Invariance, PTL DEF IInv

\* The runner never sleeps past an event: the test `te <= top' of schedule() is
\* enough to interrupt every wait that must be shortened.
THEOREM WakeupsKept == Spec => []NoMissedWakeup
  BY Invariance, PTL DEF IInv

\* A stop() that finds run() past its test of _stop still has its notification
\* to send: setting _stop without the lock is harmless once run() has begun.
THEOREM StopKept == Spec => []StopNotMissed
  BY Invariance, PTL DEF IInv

-----------------------------------------------------------------------------
(* Refinement *)

LEMMA InitMaps == Init => Service!Init
  BY DEF Init, Service!Init, Service!Unarmed, Armed, Queued

\* Popping an event that was not cancelled fires its timer.
LEMMA PopFires ==
  ASSUME IInv, NEW e \in Event, Pop(e), ~cancelled[e]
  PROVE  Service!Fire(e)
<1> USE DEF IInv, TypeOK, QueuedFlagAgrees
<1>1. current = NoEvent /\ current' = e /\ now' = now /\ pc # "done" /\ pc' # "done"
  BY DEF Pop
<1>2. queue[e] = 1 /\ Armed[e] = time[e] /\ time[e] <= now
  BY DEF Pop, Top, Armed, Queued
<1>3. \A f \in Event : Armed[e] <= Armed[f]
  BY <1>2 DEF Pop, Top, Armed, Queued
<1>4. queue' = [queue EXCEPT ![e] = 0] /\ UNCHANGED <<time, cancelled>>
  BY <1>2 DEF Pop
<1>5. Armed' = [Armed EXCEPT ![e] = Forever]
  <2>1. ASSUME NEW f \in Event, f # e PROVE Armed'[f] = Armed[f]
    BY <2>1, <1>4 DEF Armed, Queued
  <2>2. Armed'[e] = Forever
    BY <1>4 DEF Armed, Queued
  <2>3. Armed' = [f \in Event |-> Armed'[f]] /\ Armed = [f \in Event |-> Armed[f]]
    BY Zenon DEF Armed
  <2> QED BY <2>1, <2>2, <2>3
<1> QED BY <1>1, <1>2, <1>3, <1>5 DEF Service!Fire, Service!Unarmed

\* A successful schedule() arms the timer: _qued was clear, so the event was in
\* the heap no more, and a cancellation of its previous life is forgotten.
LEMMA ScheduleArms ==
  ASSUME IInv, NEW e \in Event, NEW t \in Instant, Schedule(e, t)
  PROVE  Service!Arm(e, t)
<1> USE DEF IInv, TypeOK, QueuedFlagAgrees
<1>1. queue[e] = 0 /\ Armed[e] = Forever
  BY DEF Schedule, MaySchedule, Armed, Queued
<1>2. Armed' = [Armed EXCEPT ![e] = t]
  <2>1. ASSUME NEW f \in Event, f # e PROVE Armed'[f] = Armed[f]
    BY <2>1 DEF Schedule, Armed, Queued
  <2>2. Armed'[e] = t
    BY <1>1 DEF Schedule, Armed, Queued
  <2>3. Armed' = [f \in Event |-> Armed'[f]] /\ Armed = [f \in Event |-> Armed[f]]
    BY Zenon DEF Armed
  <2> QED BY <2>1, <2>2, <2>3
<1>3. UNCHANGED <<now, current, pc>>
  BY DEF Schedule, runnerVars
<1> QED BY <1>1, <1>2, <1>3 DEF Service!Arm, Service!Unarmed

\* Setting _cancelled withdraws the timer, if it is armed.
LEMMA CancelWithdraws ==
  ASSUME IInv, NEW e \in Event, CancelSet(e)
  PROVE  Service!Withdraw({e})
<1> USE DEF IInv, TypeOK
<1>1. Armed' = [f \in Event |-> IF f \in {e} THEN Forever ELSE Armed[f]]
  BY DEF CancelSet, Armed, Queued, heapVars
<1>2. UNCHANGED <<now, current, pc>>
  BY DEF CancelSet, runnerVars
<1> QED BY <1>1, <1>2 DEF Service!Withdraw, Service!Unarmed

LEMMA ClearWithdraws == ASSUME IInv, Clear PROVE Service!Withdraw(Event)
<1> USE DEF IInv, TypeOK
<1>1. Armed' = [f \in Event |-> IF f \in Event THEN Forever ELSE Armed[f]]
  BY DEF Clear, Armed, Queued
<1>2. UNCHANGED <<now, current, pc>>
  BY DEF Clear, runnerVars
<1> QED BY <1>1, <1>2 DEF Service!Withdraw, Service!Unarmed

LEMMA StepMaps == IInv /\ [Next]_vars => [Service!Next]_(Service!vars)
<1> SUFFICES ASSUME IInv, [Next]_vars PROVE Service!Next \/ UNCHANGED Service!vars
  OBVIOUS
<1> DEFINE Same == UNCHANGED <<now, Armed, current, pc # "done">>
<1>a. Same => UNCHANGED Service!vars
  BY DEF Service!vars
<1>1. CASE Run
  <2>1. CASE RunStart \/ LoopBody \/ WaitEmpty \/ WaitUntil \/ Wake
    <3>1. UNCHANGED <<now, time, cancelled, queue, current>> /\ pc # "done" /\ pc' # "done"
      BY <2>1 DEF RunStart, LoopBody, WaitEmpty, WaitUntil, Wake, StartWait, heapVars
    <3> QED BY <3>1, <1>a DEF Armed, Queued
  <2>2. CASE LoopExit
    BY <2>2 DEF LoopExit, heapVars, Armed, Queued, IInv, TypeOK, Service!Next, Service!Close
  <2>3. ASSUME NEW e \in Event, Pop(e), ~cancelled[e] PROVE Service!Next
    BY <2>3, PopFires DEF Service!Next
  <2>4. ASSUME NEW e \in Event, Pop(e), cancelled[e] PROVE Same
    <3>1. UNCHANGED <<now, time, cancelled, current>> /\ pc # "done" /\ pc' # "done"
      BY <2>4 DEF Pop, IInv, TypeOK
    <3>2. Armed' = Armed
      BY <2>4, <3>1 DEF Pop, Armed, Queued, IInv, TypeOK
    <3> QED BY <3>1, <3>2
  <2>5. CASE CallbackReturn
    BY <2>5 DEF CallbackReturn, heapVars, Armed, Queued, Service!Next, Service!Finish
  <2> QED BY <1>1, <1>a, <2>1, <2>2, <2>3, <2>4, <2>5 DEF Run
<1>2. CASE Call
  <2>1. ASSUME NEW e \in Event, NEW t \in Instant, Schedule(e, t) PROVE Service!Next
    BY <2>1, ScheduleArms DEF Service!Next
  <2>2. ASSUME NEW e \in Event, CancelSet(e) PROVE Service!Next
    BY <2>2, CancelWithdraws DEF Service!Next
  <2>3. CASE Clear
    BY <2>3, ClearWithdraws DEF Service!Next
  <2>4. CASE StopSet \/ StopNotify \/ \E e \in Event : CancelTest(e)
    BY <2>4, <1>a DEF StopSet, StopNotify, CancelTest, heapVars, runnerVars, Armed, Queued
  <2> QED BY <1>2, <2>1, <2>2, <2>3, <2>4 DEF Call
<1>3. CASE SpuriousWake
  BY <1>3, <1>a DEF SpuriousWake, heapVars, Armed, Queued
<1>4. CASE Tick
  BY <1>4 DEF Tick, heapVars, runnerVars, Armed, Queued, Service!Next, Service!Tick
<1>5. CASE UNCHANGED vars
  BY <1>5, <1>a DEF vars, Armed, Queued
<1> QED BY <1>1, <1>2, <1>3, <1>4, <1>5 DEF Next

\* The scheduler implements the timer service: an event runs at most once per
\* successful schedule(), not before its time, in the order of the times, never
\* after its cancellation and never beside another callback.
THEOREM Refinement == Spec => ImplementsTimerService
  BY InitMaps, StepMaps, Invariance, PTL DEF Spec, ImplementsTimerService, Service!Spec
=============================================================================
