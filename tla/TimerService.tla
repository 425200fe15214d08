---------------------------- MODULE TimerService ----------------------------
(***************************************************************************)
(* What a timer service promises its callers, without the mutex, the       *)
(* condition variable and the heap of include/scheduler.h: a timer is      *)
(* armed for an instant, may be withdrawn, and is fired once, no earlier   *)
(* than its instant, in the order of the instants, one callback at a time, *)
(* until the service closes.                                               *)
(***************************************************************************)
EXTENDS Integers

CONSTANTS
    Event,      \* the timers
    NoEvent,    \* no callback is running
    MaxTime     \* the clock stops here: a bound of the model

VARIABLES
    now,        \* the clock
    armed,      \* armed[e]: the instant e is armed for, or Unarmed
    running,    \* the timer whose callback is being executed
    open        \* the service has not closed

vars == <<now, armed, running, open>>

Unarmed == MaxTime + 1

Init ==
    /\ now = 0
    /\ armed = [e \in Event |-> Unarmed]
    /\ running = NoEvent
    /\ open = TRUE

Arm(e, t) ==
    /\ armed[e] = Unarmed
    /\ armed' = [armed EXCEPT ![e] = t]
    /\ UNCHANGED <<now, running, open>>

Withdraw(S) ==
    /\ armed' = [e \in Event |-> IF e \in S THEN Unarmed ELSE armed[e]]
    /\ UNCHANGED <<now, running, open>>

Fire(e) ==
    /\ open
    /\ running = NoEvent
    /\ armed[e] <= now
    /\ \A f \in Event : armed[e] <= armed[f]
    /\ armed' = [armed EXCEPT ![e] = Unarmed]
    /\ running' = e
    /\ UNCHANGED <<now, open>>

Finish ==
    /\ running' = NoEvent
    /\ UNCHANGED <<now, armed, open>>

Close ==
    /\ running = NoEvent
    /\ open' = FALSE
    /\ UNCHANGED <<now, armed, running>>

Tick ==
    /\ now < MaxTime
    /\ now' = now + 1
    /\ UNCHANGED <<armed, running, open>>

Next ==
    \/ \E e \in Event, t \in 0 .. MaxTime : Arm(e, t)
    \/ \E S \in SUBSET Event : Withdraw(S)
    \/ \E e \in Event : Fire(e)
    \/ Finish
    \/ Close
    \/ Tick

Spec == Init /\ [][Next]_vars

\* An armed timer is eventually fired or withdrawn, unless the service closes.
Served == \A e \in Event : armed[e] # Unarmed ~> (armed[e] = Unarmed \/ ~open)
=============================================================================
