------------------------ MODULE ConfigurationService ------------------------
(***************************************************************************)
(* What reload() and refresh() promise the connections that use the data   *)
(* of the domains, without objects, events, failure counts and clocks: a   *)
(* configuration is prepared once, each domain of it is tried exactly once *)
(* before it is published, and it replaces an older one only.  From then   *)
(* on a timer renews the domains of the published configuration, one at a  *)
(* time; what it began may still end after the next publication, but it    *)
(* begins nothing for a configuration that was superseded.                 *)
(***************************************************************************)
EXTENDS Integers

CONSTANTS
    Conf,       \* the configurations, numbered in the order of their reading
    Domain,     \* the names of the mail domains
    MayThrow    \* an attempt may end without any effect

VARIABLES
    published,  \* the configuration that new connections use, 0 if there is none
    draft,      \* the one that is being prepared, 0 if none is
    untried,    \* the domains of the draft that were not tried to the end
    data,       \* data[c][n]: what configuration c has of domain n
    renewing    \* the <<c, n>> that the timer renews: one or none

vars == <<published, draft, untried, data, renewing>>

Untouched == [n \in Domain |-> "new"]

Init ==
    /\ published = 0
    /\ draft = 0
    /\ untried = {}
    /\ data = [c \in Conf |-> Untouched]
    /\ renewing = {}

\* An attempt to load n ends: with a list, without one, or by an exception.
Attempted(c, n) ==
    \/ \E outcome \in {"loaded", "failed"} : data' = [data EXCEPT ![c][n] = outcome]
    \/ MayThrow /\ UNCHANGED data

Prepare(c) ==
    /\ draft = 0
    /\ c > published /\ data[c] = Untouched
    /\ draft' = c
    /\ untried' = Domain
    /\ UNCHANGED <<published, data, renewing>>

Try(n) ==
    /\ draft # 0 /\ n \in untried
    /\ Attempted(draft, n)
    /\ untried' = untried \ {n}
    /\ UNCHANGED <<published, draft, renewing>>

Publish ==
    /\ draft # 0 /\ untried = {}
    /\ published' = draft
    /\ draft' = 0
    /\ UNCHANGED <<untried, data, renewing>>

Renew(n) ==
    /\ published # 0 /\ renewing = {}
    /\ renewing' = {<<published, n>>}
    /\ UNCHANGED <<published, draft, untried, data>>

Renewed(c, n) ==
    /\ renewing = {<<c, n>>}
    /\ Attempted(c, n)
    /\ renewing' = {}
    /\ UNCHANGED <<published, draft, untried>>

Next ==
    \/ \E c \in Conf : Prepare(c)
    \/ \E n \in Domain : Try(n)
    \/ Publish
    \/ \E n \in Domain : Renew(n)
    \/ \E c \in Conf, n \in Domain : Renewed(c, n)

Spec == Init /\ [][Next]_vars
=============================================================================
