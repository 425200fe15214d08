----------------------------- MODULE Scheduler ------------------------------
(***************************************************************************)
(* The timer thread of include/scheduler.h.  One thread executes run();    *)
(* any other thread, and the callback that run() is executing, may call    *)
(* schedule(), clear(), TimedEvent::cancel() and stop().                   *)
(*                                                                         *)
(* The mutex _exclude is held across steps by the runner only, while it is *)
(* at "loop" or "body"; every other critical section is one action that    *)
(* needs ~Locked.  cancel() takes no lock: its test and its assignment are *)
(* two actions.  stop() writes _stop before it takes the lock: two actions *)
(* too.                                                                    *)
(***************************************************************************)
EXTENDS Integers, FiniteSets

CONSTANTS
    Event,      \* the TimedEvents
    NoEvent,    \* run() is executing no callback
    MaxTime,    \* the clock stops here: a bound of the model
    MaxCalls    \* schedule() succeeds at most this often: a bound of the model

ASSUME SchedulerAssumption ==
    /\ NoEvent \notin Event
    /\ MaxTime \in Nat
    /\ MaxCalls \in Nat

VARIABLES
    now,        \* Clock::now()
    time,       \* time[e]: the Time base of the event's data
    qued,       \* qued[e]: _qued is not null
    cancelled,  \* cancelled[e]: _cancelled
    queue,      \* queue[e]: how often e is in the heap _queue
    stop,       \* _stop
    pc,         \* where the thread that executes run() is
    deadline,   \* until when that thread waits, Forever in an untimed wait
    notified,   \* that thread was notified while it waited
    current,    \* the event whose callback run() is executing
    cancelling, \* the events of the cancel() calls that found _qued set
    stopping,   \* a stop() call has set _stop and not yet taken the lock
    calls       \* successful schedule() calls, up to MaxCalls

vars == <<now, time, qued, cancelled, queue, stop, pc, deadline, notified,
          current, cancelling, stopping, calls>>

heapVars   == <<time, qued, queue>>
runnerVars == <<pc, deadline, current>>
callerVars == <<cancelling, stopping, calls>>

Instant == 0 .. MaxTime
Forever == MaxTime + 1

\* The runner holds _exclude between two of its steps.
Locked == pc \in {"loop", "body"}

Queued(e) == queue[e] > 0

\* Mutant of Top: the heap may be empty.
TopOfEmpty(e) == \A f \in Event : Queued(f) => time[e] <= time[f]

\* _queue.top(): the comparator TimedEventGreater makes the heap a min-heap.
Top(e) == Queued(e) /\ \A f \in Event : Queued(f) => time[e] <= time[f]

Init ==
    /\ now = 0
    /\ time = [e \in Event |-> 0]
    /\ qued = [e \in Event |-> FALSE]
    /\ cancelled = [e \in Event |-> FALSE]
    /\ queue = [e \in Event |-> 0]
    /\ stop \in BOOLEAN             \* the constructor leaves _stop unset
    /\ pc = "start"
    /\ deadline = Forever
    /\ notified = FALSE
    /\ current = NoEvent
    /\ cancelling = {}
    /\ stopping = FALSE
    /\ calls = 0

-----------------------------------------------------------------------------
(* run() *)

RunStart ==
    /\ pc = "start"
    /\ stop' = FALSE
    /\ pc' = "loop"
    /\ UNCHANGED <<now, heapVars, cancelled, deadline, notified, current, callerVars>>

LoopExit ==
    /\ pc = "loop" /\ stop
    /\ pc' = "done"
    /\ UNCHANGED <<now, heapVars, cancelled, stop, deadline, notified, current, callerVars>>

LoopBody ==
    /\ pc = "loop" /\ ~stop
    /\ pc' = "body"
    /\ UNCHANGED <<now, heapVars, cancelled, stop, deadline, notified, current, callerVars>>

\* Both waits release _exclude and start to listen in one step.
StartWait(until) ==
    /\ pc' = "wait"
    /\ deadline' = until
    /\ notified' = FALSE
    /\ UNCHANGED <<now, heapVars, cancelled, stop, current, callerVars>>

WaitEmpty ==
    /\ pc = "body"
    /\ \A e \in Event : ~Queued(e)
    /\ StartWait(Forever)

WaitUntil ==
    /\ pc = "body"
    /\ \E e \in Event : Top(e) /\ now < time[e] /\ StartWait(time[e])

Pop(e) ==
    /\ pc = "body"
    /\ Top(e)
    /\ time[e] <= now
    /\ queue' = [queue EXCEPT ![e] = @ - 1]
    /\ qued' = [qued EXCEPT ![e] = FALSE]
    /\ IF cancelled[e]
         THEN pc' = "loop" /\ current' = NoEvent
         ELSE pc' = "run" /\ current' = e
    /\ UNCHANGED <<now, time, cancelled, stop, deadline, notified, callerVars>>

\* The callback has returned and run() has the lock again.
CallbackReturn ==
    /\ pc = "run"
    /\ pc' = "loop"
    /\ current' = NoEvent
    /\ UNCHANGED <<now, heapVars, cancelled, stop, deadline, notified, callerVars>>

\* The wait ends because of a notification or at its deadline.
Wake ==
    /\ pc = "wait"
    /\ notified \/ deadline <= now
    /\ pc' = "loop"
    /\ UNCHANGED <<now, heapVars, cancelled, stop, deadline, notified, current, callerVars>>

\* A condition variable may wake its waiter for no reason.
SpuriousWake ==
    /\ pc = "wait"
    /\ pc' = "loop"
    /\ UNCHANGED <<now, heapVars, cancelled, stop, deadline, notified, current, callerVars>>

-----------------------------------------------------------------------------
(* The callers *)

\* Mutant of IsEarliest: a strict comparison with the top, which may be e itself.
NeverEarliest(e, t) == FALSE

\* The new event is no later than the top of the heap it was just pushed on.
IsEarliest(e, t) == \A f \in Event \ {e} : Queued(f) => t <= time[f]

\* Mutant of NotifyOne: the call is missing.
NoNotification == UNCHANGED notified

\* notify_one(): without a waiter it has no effect.
NotifyOne == notified' = (notified \/ pc = "wait")

\* Mutant of MaySchedule: _qued is not tested.
ScheduleAgain(e) == TRUE

\* schedule() refuses an event that is already in the heap.
MaySchedule(e) == ~qued[e]

Schedule(e, t) ==
    /\ ~Locked
    /\ MaySchedule(e)
    /\ calls < MaxCalls
    /\ qued' = [qued EXCEPT ![e] = TRUE]
    /\ cancelled' = [cancelled EXCEPT ![e] = FALSE]
    /\ time' = [time EXCEPT ![e] = t]
    /\ queue' = [queue EXCEPT ![e] = @ + 1]
    /\ IF IsEarliest(e, t) THEN NotifyOne ELSE UNCHANGED notified
    /\ calls' = calls + 1
    /\ UNCHANGED <<now, stop, runnerVars, cancelling, stopping>>

\* cancel() reads _qued ...
CancelTest(e) ==
    /\ e \notin cancelling
    /\ qued[e]
    /\ cancelling' = cancelling \cup {e}
    /\ UNCHANGED <<now, heapVars, cancelled, stop, runnerVars, notified, stopping, calls>>

\* ... and sets _cancelled, whatever happened to the event in between.
CancelSet(e) ==
    /\ e \in cancelling
    /\ cancelled' = [cancelled EXCEPT ![e] = TRUE]
    /\ cancelling' = cancelling \ {e}
    /\ UNCHANGED <<now, heapVars, stop, runnerVars, notified, stopping, calls>>

\* Mutant of ClearFlags: the heap is emptied, the flags are not.
ClearHeapOnly == UNCHANGED qued

\* What clear() does to the flags of the events it pops.
ClearFlags == qued' = [e \in Event |-> qued[e] /\ ~Queued(e)]

Clear ==
    /\ ~Locked
    /\ queue' = [e \in Event |-> 0]
    /\ ClearFlags
    /\ UNCHANGED <<now, time, cancelled, stop, runnerVars, notified, callerVars>>

StopSet ==
    /\ ~stopping
    /\ stop' = TRUE
    /\ stopping' = TRUE
    /\ UNCHANGED <<now, heapVars, cancelled, runnerVars, notified, cancelling, calls>>

\* Mutant of MayNotifyStop: stop() notifies without the lock.
NotifyStopUnlocked == stopping

\* stop() notifies under the lock.
MayNotifyStop == stopping /\ ~Locked

StopNotify ==
    /\ MayNotifyStop
    /\ stopping' = FALSE
    /\ NotifyOne
    /\ UNCHANGED <<now, heapVars, cancelled, stop, runnerVars, cancelling, calls>>

Tick ==
    /\ now < MaxTime
    /\ now' = now + 1
    /\ UNCHANGED <<heapVars, cancelled, stop, runnerVars, notified, callerVars>>

-----------------------------------------------------------------------------

Run ==
    \/ RunStart \/ LoopExit \/ LoopBody
    \/ WaitEmpty \/ WaitUntil \/ (\E e \in Event : Pop(e))
    \/ CallbackReturn \/ Wake

Call ==
    \/ \E e \in Event, t \in Instant : Schedule(e, t)
    \/ \E e \in Event : CancelTest(e)
    \/ \E e \in Event : CancelSet(e)
    \/ Clear
    \/ StopSet
    \/ StopNotify

Next == Run \/ SpuriousWake \/ Call \/ Tick

Spec == Init /\ [][Next]_vars

\* The runner is scheduled by the kernel, callbacks return, a stop() that was
\* begun goes on, and time passes.
FairSpec == Spec /\ WF_vars(Run) /\ WF_vars(StopNotify) /\ WF_vars(Tick)

-----------------------------------------------------------------------------
(* Properties *)

PC == {"start", "loop", "body", "wait", "run", "done"}

\* Every variable has its type; run() executes a callback exactly at "run".
TypeOK ==
    /\ now \in Instant
    /\ time \in [Event -> Instant]
    /\ qued \in [Event -> BOOLEAN]
    /\ cancelled \in [Event -> BOOLEAN]
    /\ queue \in [Event -> Nat]
    /\ stop \in BOOLEAN
    /\ pc \in PC
    /\ deadline \in Instant \cup {Forever}
    /\ notified \in BOOLEAN
    /\ current \in Event \cup {NoEvent}
    /\ cancelling \in SUBSET Event
    /\ stopping \in BOOLEAN
    /\ calls \in 0 .. MaxCalls
    /\ (current # NoEvent) <=> (pc = "run")

\* An event is in the heap at most once, exactly when its _qued is set: neither
\* schedule() nor clear() nor the runner lets the flag and the heap disagree.
QueuedFlagAgrees == \A e \in Event : queue[e] = IF qued[e] THEN 1 ELSE 0

\* While the runner waits and has not been notified, its deadline is not after
\* any event of the heap: an earlier event always interrupted the wait.
NoMissedWakeup ==
    (pc = "wait" /\ ~notified) =>
        \A e \in Event : Queued(e) => deadline <= time[e]

\* A runner that passed the test of _stop before stop() set it, and one that is
\* waiting, still has the notification of that stop() ahead of it: a stop
\* request cannot fall between the test and the wait.
StopNotMissed ==
    (stop /\ (pc = "body" \/ (pc = "wait" /\ ~notified))) => stopping

\* The timer service that the scheduler's callers see.
Armed == [e \in Event |-> IF Queued(e) /\ ~cancelled[e] THEN time[e] ELSE Forever]

Service == INSTANCE TimerService WITH
    armed <- Armed, running <- current, open <- (pc # "done")

\* The scheduler implements the timer service: no event runs early, out of
\* order, twice, after its cancellation or beside another callback.
ImplementsTimerService == Service!Spec

\* Every event that is queued and not cancelled is eventually run, cancelled or
\* cleared, unless run() returns.
EventuallyServed == Service!Served

\* A stop() that comes after run() has begun makes run() return.
StopTerminates == (stop /\ pc # "start") ~> (pc = "done")
=============================================================================
