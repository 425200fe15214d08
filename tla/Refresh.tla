------------------------------ MODULE Refresh -------------------------------
(***************************************************************************)
(* How a configuration and the data of its domains are replaced while the  *)
(* milter runs.  Globals::reload() reads a new Configuration, loads every  *)
(* domain of it, and publishes it as Globals::conf.  Domain::refresh()     *)
(* leaves behind a timer event (domainRefresher) for the next refresh, or  *)
(* for the next retry when the load failed; the scheduler thread runs it.  *)
(*                                                                         *)
(* Two threads call Domain::refresh(): "reload" (main() first, the SIGUSR1 *)
(* thread later) and "sched".  The timer queue is the one TimerService     *)
(* describes: here an event carries the time that is left before it is     *)
(* due, so the clock needs no bound.                                       *)
(***************************************************************************)
EXTENDS Integers, Sequences

CONSTANTS
    Domain,         \* the names of the configured mail domains
    Object,         \* identities of the Domain objects of one name
    MaxConf,        \* reload() is called this often: a bound of the model
    RefreshSec,     \* RefreshSec[n]: refresh_sec of domain n
    Retries,        \* Retries[n]: retries of domain n, see RetryPeriods
    RetrySec,       \* RetrySec[n]: retry_sec of domain n
    ShortMax,       \* the largest short, 32767 in the code
    CloneMayFail    \* the copy made by refresh() may throw

ASSUME RefreshAssumption ==
    /\ Object # {}
    /\ \A o \in Object : \E p \in Object : p # o     \* two objects can coexist
    /\ MaxConf \in Nat
    /\ RefreshSec \in [Domain -> Nat]
    /\ RetrySec \in [Domain -> Nat]
    /\ Retries \in [Domain -> Seq(Nat \ {0})]
    /\ ShortMax \in Nat \ {0}
    /\ \A n \in Domain : Len(Retries[n]) <= ShortMax
    /\ CloneMayFail \in BOOLEAN

VARIABLES
    conf,       \* Globals::conf, the published Configuration, 0 if NULL
    nconf,      \* the last Configuration that reload() has created
    domains,    \* domains[c][n]: the Domain object in the map of c
    queue,      \* the domainRefresher events of the scheduler
    reloader,   \* where the thread that reloads is
    todo,       \* the domains its loop has still to refresh
    work,       \* work[th]: the refresh() call that th is executing
    lost,       \* history: <<c, n>> that were left without an event
    waited      \* history: time spent in retry periods, by <<c, n>>

vars == <<conf, nconf, domains, queue, reloader, todo, work, lost, waited>>

Conf == 1 .. MaxConf
Thread == {"reload", "sched"}

\* A Domain just built by Configuration::get(): failure_count is -1.
NewDomain == [obj |-> CHOOSE o \in Object : TRUE, failure_count |-> -1, loaded |-> FALSE]

\* The thread is not inside refresh().
NoWork == [stage |-> "none"]

Init ==
    /\ conf = 0
    /\ nconf = 0
    /\ domains = [c \in Conf |-> [n \in Domain |-> NewDomain]]
    /\ queue = {}
    /\ reloader = "idle"
    /\ todo = {}
    /\ work = [th \in Thread |-> NoWork]
    /\ lost = {}
    /\ waited = [c \in Conf |-> [n \in Domain |-> 0]]

-----------------------------------------------------------------------------
(* Domain::refresh() *)

Event(c, n, o, t) == [conf |-> c, name |-> n, obj |-> o, left |-> t]

\* Scheduling with a null delay is what the code avoids: it means `never'.
Scheduled(c, n, o, t) == IF t = 0 THEN {} ELSE {Event(c, n, o, t)}

\* unsigned short cnt = failure_count < 0? 0: failure_count
Count(fc) == IF fc < 0 THEN 0 ELSE fc

\* Mutants of Failed: no wrap at all; a wrap to 0.
FailedUnbounded(cnt) == cnt + 1
FailedToZero(cnt) == (cnt + 1) % (ShortMax + 1)

\* failure_count = cnt + 1, a short
Failed(cnt) == IF cnt = ShortMax THEN -ShortMax - 1 ELSE cnt + 1

\* Mutants of Delay: nothing after the list; the count read after its increment.
DelayListOnly(n, cnt) == IF cnt < Len(Retries[n]) THEN Retries[n][cnt + 1] ELSE 0
DelayNext(n, cnt) == IF cnt + 1 < Len(Retries[n]) THEN Retries[n][cnt + 2] ELSE RetrySec[n]

\* The delay before the retry that follows failure number cnt, from 0.
Delay(n, cnt) == IF cnt < Len(Retries[n]) THEN Retries[n][cnt + 1] ELSE RetrySec[n]

\* refresh() is entered for object o.  It throws at once if failure_count is -2,
\* but load_loaders(), which sets -2, throws too, so no configuration with such a
\* domain outlives Configuration::get().
StartWork(th, c, n, o) ==
    work' = [work EXCEPT ![th] =
                [stage |-> "load", conf |-> c, name |-> n, self |-> o]]

EndWork(th) == work' = [work EXCEPT ![th] = NoWork]

\* std::make_shared or the copy of the sources throws, before the try block:
\* the exception leaves refresh() with no event scheduled.
CloneFails(th) ==
    /\ CloneMayFail
    /\ work[th].stage = "load"
    /\ lost' = lost \cup {<<work[th].conf, work[th].name>>}
    /\ EndWork(th)
    /\ UNCHANGED <<conf, nconf, domains, queue, reloader, todo, waited>>

\* load_data() throws: the clone is discarded, the failure is counted in the
\* old object, which is still the one in the map (RefreshesCurrent), and the
\* retry is scheduled for the old object.
LoadFails(th) ==
    /\ work[th].stage = "load"
    /\ LET c == work[th].conf
           n == work[th].name
           cnt == Count(domains[c][n].failure_count)
       IN /\ domains' = [domains EXCEPT ![c][n].failure_count = Failed(cnt)]
          /\ queue' = queue \cup Scheduled(c, n, work[th].self, Delay(n, cnt))
          /\ waited' = [waited EXCEPT ![c][n] =
                           IF Failed(cnt) \in 1 .. Len(Retries[n]) THEN @ ELSE 0]
    /\ EndWork(th)
    /\ UNCHANGED <<conf, nconf, reloader, todo, lost>>

\* The identity of the clone: no pointer to another Domain compares equal.
Fresh(c, n) == CHOOSE o \in Object :
    /\ o # domains[c][n].obj
    /\ \A ev \in queue : ev.conf = c /\ ev.name = n => ev.obj # o

\* load_data() succeeds: the next refresh is scheduled for the clone, which
\* the caller has still to put in the map.
LoadOk(th) ==
    /\ work[th].stage = "load"
    /\ LET c == work[th].conf
           n == work[th].name
           o == Fresh(c, n)
       IN /\ queue' = queue \cup Scheduled(c, n, o, RefreshSec[n])
          /\ work' = [work EXCEPT ![th] =
                         [stage |-> "assign", conf |-> c, name |-> n,
                          self |-> @.self, clone |-> o]]
    /\ UNCHANGED <<conf, nconf, domains, reloader, todo, lost, waited>>

\* (*it).second = dom->refresh(...), in reload() and in domainRefresher().
Assign(th) ==
    /\ work[th].stage = "assign"
    /\ LET c == work[th].conf
           n == work[th].name
       IN /\ domains' = [domains EXCEPT ![c][n] =
                            [obj |-> work[th].clone, failure_count |-> 0, loaded |-> TRUE]]
          /\ waited' = [waited EXCEPT ![c][n] = 0]
    /\ EndWork(th)
    /\ UNCHANGED <<conf, nconf, queue, reloader, todo, lost>>

-----------------------------------------------------------------------------
(* Globals::reload() *)

\* Configuration::get() succeeds.
ReloadGet ==
    /\ reloader = "idle" /\ nconf < MaxConf
    /\ nconf' = nconf + 1
    /\ reloader' = "loop"
    /\ todo' = Domain
    /\ UNCHANGED <<conf, domains, queue, work, lost, waited>>

\* It throws, or a loader cannot be loaded: the published configuration stays,
\* and without one main() gives up.
ReloadGetFails ==
    /\ reloader = "idle" /\ nconf < MaxConf
    /\ nconf' = nconf + 1
    /\ reloader' = IF conf = 0 THEN "exit" ELSE "idle"
    /\ UNCHANGED <<conf, domains, queue, todo, work, lost, waited>>

NextDomain(n) ==
    /\ reloader = "loop" /\ work["reload"].stage = "none"
    /\ n \in todo
    /\ todo' = todo \ {n}
    /\ StartWork("reload", nconf, n, domains[nconf][n].obj)
    /\ UNCHANGED <<conf, nconf, domains, queue, reloader, lost, waited>>

\* Mutant of AllTried: the domains that are left are ignored.
AllTriedButLeft == work["reload"].stage = "none"

\* The loop over the domains is over.
AllTried == todo = {} /\ work["reload"].stage = "none"

Publish ==
    /\ reloader = "loop"
    /\ AllTried
    /\ conf' = nconf
    /\ reloader' = "idle"
    /\ UNCHANGED <<nconf, domains, queue, todo, work, lost, waited>>

-----------------------------------------------------------------------------
(* domainRefresher(), run by the scheduler thread when its event is due *)

\* Mutants of Current: no test at all; the object only.
CurrentAlways(ev) == TRUE
CurrentObject(ev) == domains[ev.conf][ev.name].obj = ev.obj

\* The event belongs to the published configuration and to a current object.
Current(ev) == ev.conf = conf /\ domains[ev.conf][ev.name].obj = ev.obj

Due(ev) == work["sched"].stage = "none" /\ ev.left = 0

\* A history note: the event of a configuration that is not published yet is
\* dropped like that of a superseded one, and nothing will replace it.
LostWith(ev) == IF ev.conf > conf THEN {<<ev.conf, ev.name>>} ELSE {}

FireOutdated(ev) ==
    /\ Due(ev) /\ ~Current(ev)
    /\ queue' = queue \ {ev}
    /\ lost' = lost \cup LostWith(ev)
    /\ UNCHANGED <<conf, nconf, domains, reloader, todo, work, waited>>

FireCurrent(ev) ==
    /\ Due(ev) /\ Current(ev)
    /\ queue' = queue \ {ev}
    /\ StartWork("sched", ev.conf, ev.name, ev.obj)
    /\ UNCHANGED <<conf, nconf, domains, reloader, todo, lost, waited>>

\* One second passes.
Tick ==
    /\ \E ev \in queue : ev.left > 0
    /\ queue' = {[ev EXCEPT !.left = IF @ > 0 THEN @ - 1 ELSE 0] : ev \in queue}
    /\ waited' = [c \in Conf |-> [n \in Domain |->
          IF /\ domains[c][n].failure_count \in 1 .. Len(Retries[n])
             /\ \E ev \in queue : ev.conf = c /\ ev.name = n /\ ev.left > 0
             /\ \A th \in Thread : work[th].stage = "none" \/ work[th].conf # c \/ work[th].name # n
          THEN waited[c][n] + 1 ELSE waited[c][n]]]
    /\ UNCHANGED <<conf, nconf, domains, reloader, todo, work, lost>>

-----------------------------------------------------------------------------

Refreshing(th) == CloneFails(th) \/ LoadFails(th) \/ LoadOk(th) \/ Assign(th)

Reloading == (\E n \in Domain : NextDomain(n)) \/ Publish

Next ==
    \/ \E th \in Thread : CloneFails(th)
    \/ \E th \in Thread : LoadFails(th)
    \/ \E th \in Thread : LoadOk(th)
    \/ \E th \in Thread : Assign(th)
    \/ ReloadGet
    \/ ReloadGetFails
    \/ \E n \in Domain : NextDomain(n)
    \/ Publish
    \/ \E ev \in queue : FireOutdated(ev)
    \/ \E ev \in queue : FireCurrent(ev)
    \/ Tick

Spec == Init /\ [][Next]_vars

\* Time passes, the kernel runs both threads, every load ends, and the heap
\* serves an event that is due before the events scheduled after it; a domain
\* that is loaded again and again loads in the end.
FairSpec ==
    /\ Spec
    /\ WF_vars(Tick)
    /\ WF_vars(Reloading)
    /\ \A th \in Thread : WF_vars(Refreshing(th))
    /\ \A th \in Thread, n \in Domain : SF_vars(LoadOk(th) /\ work[th].name = n)
    /\ \A c \in Conf, n \in Domain :
          SF_vars(\E ev \in queue : /\ ev.conf = c /\ ev.name = n
                                    /\ FireOutdated(ev) \/ FireCurrent(ev))

-----------------------------------------------------------------------------
(* Properties *)

FailureCount == {-1} \cup (-ShortMax - 1 .. ShortMax)

Events == [conf : Conf, name : Domain, obj : Object, left : Nat]

Works ==
    {NoWork}
        \cup [stage : {"load"}, conf : Conf, name : Domain, self : Object]
        \cup [stage : {"assign"}, conf : Conf, name : Domain, self : Object, clone : Object]

\* Every variable has its type.
TypeOK ==
    /\ conf \in 0 .. MaxConf
    /\ nconf \in 0 .. MaxConf
    /\ domains \in [Conf -> [Domain ->
          [obj : Object, failure_count : FailureCount, loaded : BOOLEAN]]]
    /\ queue \in SUBSET Events
    /\ reloader \in {"idle", "loop", "exit"}
    /\ todo \in SUBSET Domain
    /\ work \in [Thread -> Works]
    /\ lost \in SUBSET (Conf \X Domain)
    /\ waited \in [Conf -> [Domain -> Nat]]

Pending(c, n) ==
    \E ev \in queue : ev.conf = c /\ ev.name = n /\ ev.obj = domains[c][n].obj

WorksOn(th, c, n) == work[th].stage # "none" /\ work[th].conf = c /\ work[th].name = n

InProgress(c, n) == \E th \in Thread : WorksOn(th, c, n)

\* The configuration file asks for another refresh or retry of the domain.
Expects(c, n) ==
    LET fc == domains[c][n].failure_count IN
    CASE fc = 0     -> RefreshSec[n] > 0
      [] fc = -1    -> TRUE
      [] OTHER      -> fc \in 1 .. Len(Retries[n]) \/ RetrySec[n] > 0

\* A domain of the published configuration that must be refreshed or retried has
\* its event in the queue, or is being refreshed, or lost its event in one of
\* the two known ways: it was due before its configuration was published, or the
\* copy of the domain failed.
ChainKept ==
    conf # 0 => \A n \in Domain :
        Expects(conf, n) => \/ Pending(conf, n)
                            \/ InProgress(conf, n)
                            \/ <<conf, n>> \in lost

\* The same without the excuse: undervest.conf.5 promises a refresh every
\* `refresh' seconds and a retry after each failure.
ChainAlive ==
    conf # 0 => \A n \in Domain :
        Expects(conf, n) => Pending(conf, n) \/ InProgress(conf, n)

\* A domain has at most one event, at most one thread refreshes it, and while it
\* is refreshed it has no event but that of the clone that is about to replace
\* it: refreshes of one domain never overlap, multiply or overtake one another.
OneChain ==
    /\ \A e, f \in queue : e.conf = f.conf /\ e.name = f.name => e = f
    /\ \A ev \in queue, th \in Thread : WorksOn(th, ev.conf, ev.name) =>
          work[th].stage = "assign" /\ ev.obj = work[th].clone
    /\ \A c \in Conf, n \in Domain :
          ~(WorksOn("reload", c, n) /\ WorksOn("sched", c, n))

\* A domain filters (failure_count is 0) only with a complete list of addresses:
\* neither a failed load nor the wrap of the failure count may enable it.
FilterOnlyLoaded ==
    \A c \in Conf, n \in Domain :
        domains[c][n].failure_count = 0 => domains[c][n].loaded

\* No configuration is published before every domain of it was tried: the milter
\* never meets a domain in its initial state, unless its copy failed.
PublishedTried ==
    conf # 0 => \A n \in Domain :
        domains[conf][n].failure_count = -1 => <<conf, n>> \in lost

\* Elapsed[k]: the time of retry k when no load takes any time.
Elapsed(n) ==
    LET sum[k \in 0 .. Len(Retries[n])] == IF k = 0 THEN 0 ELSE sum[k - 1] + Retries[n][k]
    IN sum

\* The event that follows failure k is due when the retry periods up to the k-th
\* have passed since the initial failure, not counting the loads themselves: no
\* period of the list is skipped or used twice.
RetriesOnSchedule ==
    \A ev \in queue :
        LET fc == domains[ev.conf][ev.name].failure_count
        IN (/\ ev.obj = domains[ev.conf][ev.name].obj
            /\ fc \in 1 .. Len(Retries[ev.name]))
           => waited[ev.conf][ev.name] + ev.left = Elapsed(ev.name)[fc]

\* The object that a refresh is going to replace, or whose failures it counts, is
\* still the one in the map: no result of a refresh overwrites a newer one, and
\* no failure is counted in an object that nobody uses.
RefreshesCurrent ==
    \A th \in Thread : work[th].stage # "none" =>
        domains[work[th].conf][work[th].name].obj = work[th].self

\* A domain whose data could not be loaded filters again once its source is back,
\* unless a reload supersedes it, its event is lost, or retries are disabled.
Recovers ==
    \A c \in Conf, n \in Domain :
        (conf = c /\ domains[c][n].failure_count # 0) ~>
            \/ domains[c][n].failure_count = 0
            \/ conf # c
            \/ <<c, n>> \in lost
            \/ ~Expects(c, n)

\* The events of a superseded configuration die out, and with them the last
\* references to it: it does not go on refreshing beside its successor.
SupersededDrains ==
    \A c \in Conf : (conf > c) ~> [](\A ev \in queue : ev.conf # c)

-----------------------------------------------------------------------------
(* Refinement *)

\* What the connections see of failure_count: 0 filters, -1 was never tried.
Seen(fc) == IF fc = 0 THEN "loaded" ELSE IF fc = -1 THEN "new" ELSE "failed"

Draft == IF reloader = "loop" THEN nconf ELSE 0

Outstanding == todo \cup {n \in Domain : WorksOn("reload", nconf, n)}

Data == [c \in Conf |-> [n \in Domain |-> Seen(domains[c][n].failure_count)]]

Renewing == {p \in Conf \X Domain : WorksOn("sched", p[1], p[2])}

Service == INSTANCE ConfigurationService WITH
    MayThrow  <- CloneMayFail,
    published <- conf,
    draft     <- Draft,
    untried   <- Outstanding,
    data      <- Data,
    renewing  <- Renewing

\* Every domain of a configuration is tried exactly once before it is published,
\* a refresh begins for the published configuration only, no two overlap, and a
\* domain that was tried never looks untried again, not even when its failure
\* count wraps: whatever the two threads and the clock do, the connections see a
\* ConfigurationService.
ImplementsConfigurationService == Service!Spec
=============================================================================
