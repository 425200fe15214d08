--------------------------- MODULE RefreshProofs ----------------------------
(***************************************************************************)
(* Proofs about Refresh, for any domains, periods and number of reloads.   *)
(***************************************************************************)
EXTENDS Refresh, OrderLemmas, TLAPS

\* reload() is filling the map of configuration c.
Loading(c) == reloader = "loop" /\ c = nconf

\* c is published, or may be published later.
Live(c) == c = conf \/ Loading(c)

\* reload() has not come to domain n of c yet.
Untried(c, n) == Loading(c) /\ n \in todo

\* Which configurations the two threads and the events may belong to: the
\* scheduler thread never works for one that is not published, the reloading
\* thread for no other; an object is replaced by the thread that works on it.
Ownership ==
    /\ conf <= nconf
    /\ reloader = "loop" => conf < nconf
    /\ work["reload"].stage # "none" =>
          Loading(work["reload"].conf) /\ work["reload"].name \notin todo
    /\ work["sched"].stage # "none" => work["sched"].conf <= conf
    /\ \A ev \in queue :
          /\ ev.conf <= conf \/ Loading(ev.conf)
          /\ ~Untried(ev.conf, ev.name)
          /\ ev.obj = domains[ev.conf][ev.name].obj \/ InProgress(ev.conf, ev.name)

\* ChainKept for every configuration that is or may be published.
KeptIn(c, n) ==
    Expects(c, n) => Pending(c, n) \/ InProgress(c, n) \/ <<c, n>> \in lost

Kept == \A c \in Conf, n \in Domain : Live(c) => Untried(c, n) \/ KeptIn(c, n)

\* The clone that is about to be put in the map has its event already.
HasEvent(th) ==
    \E ev \in queue : /\ ev.conf = work[th].conf /\ ev.name = work[th].name
                      /\ ev.obj = work[th].clone

CloneKept ==
    \A th \in Thread :
        (work[th].stage = "assign" /\ Live(work[th].conf) /\ RefreshSec[work[th].name] > 0)
            => HasEvent(th) \/ <<work[th].conf, work[th].name>> \in lost

\* PublishedTried, likewise.
Tried ==
    \A c \in Conf, n \in Domain :
        (Live(c) /\ domains[c][n].failure_count = -1) =>
            Untried(c, n) \/ WorksOn("reload", c, n) \/ <<c, n>> \in lost

IInv ==
    /\ TypeOK /\ OneChain /\ FilterOnlyLoaded /\ RefreshesCurrent
    /\ Ownership /\ Kept /\ CloneKept /\ Tried

-----------------------------------------------------------------------------
(* Types *)

LEMMA WorkType ==
  ASSUME TypeOK, NEW th \in Thread, work[th].stage # "none"
  PROVE  /\ work[th].stage \in {"load", "assign"}
         /\ work[th].conf \in Conf
         /\ work[th].name \in Domain
         /\ work[th].self \in Object
         /\ work[th].stage = "assign" => work[th].clone \in Object
  BY DEF TypeOK, Works, NoWork

LEMMA CountType ==
  ASSUME NEW fc \in FailureCount
  PROVE  /\ Count(fc) \in 0 .. ShortMax
         /\ Failed(Count(fc)) \in FailureCount
         /\ Failed(Count(fc)) # 0
         /\ Failed(Count(fc)) # -1
         /\ Failed(Count(fc)) > 0 => Failed(Count(fc)) = Count(fc) + 1
         /\ Failed(Count(fc)) < 0 => Count(fc) = ShortMax
  BY RefreshAssumption DEF RefreshAssumption, Count, Failed, FailureCount

LEMMA DelayType ==
  ASSUME NEW n \in Domain, NEW cnt \in 0 .. ShortMax
  PROVE  /\ Delay(n, cnt) \in Nat
         /\ cnt < Len(Retries[n]) => Delay(n, cnt) > 0
         /\ cnt >= Len(Retries[n]) => Delay(n, cnt) = RetrySec[n]
         /\ cnt = ShortMax => Delay(n, cnt) = RetrySec[n]
         /\ Len(Retries[n]) \in Nat
<1>1. Retries[n] \in Seq(Nat \ {0}) /\ RetrySec[n] \in Nat /\ Len(Retries[n]) <= ShortMax /\ ShortMax \in Nat
  BY RefreshAssumption DEF RefreshAssumption
<1>2. CASE cnt < Len(Retries[n])
  <2>1. cnt + 1 \in 1 .. Len(Retries[n])
    BY <1>1, <1>2
  <2>2. Retries[n][cnt + 1] \in Nat \ {0}
    BY <1>1, <2>1
  <2> QED BY <1>1, <1>2, <2>2 DEF Delay
<1>3. CASE ~(cnt < Len(Retries[n]))
  BY <1>1, <1>3 DEF Delay
<1> QED BY <1>2, <1>3

\* Two objects can coexist, so there is always a fresh identity for a clone of a
\* domain that has no event.
LEMMA FreshType ==
  ASSUME TypeOK, NEW c \in Conf, NEW n \in Domain,
         \A ev \in queue : ~(ev.conf = c /\ ev.name = n)
  PROVE  Fresh(c, n) \in Object
<1>1. domains[c][n].obj \in Object
  BY DEF TypeOK
<1>2. \E o \in Object : o # domains[c][n].obj
  BY <1>1, RefreshAssumption DEF RefreshAssumption
<1>3. \E o \in Object : /\ o # domains[c][n].obj
                        /\ \A ev \in queue : ev.conf = c /\ ev.name = n => ev.obj # o
  BY <1>2
<1> QED BY <1>3 DEF Fresh

LEMMA InitInv == Init => IInv
<1> SUFFICES ASSUME Init PROVE IInv
  OBVIOUS
<1> USE DEF Init
<1>1. NewDomain \in [obj : Object, failure_count : FailureCount, loaded : BOOLEAN]
  BY RefreshAssumption DEF RefreshAssumption, NewDomain, FailureCount
<1>2. TypeOK
  BY <1>1, RefreshAssumption DEF RefreshAssumption, TypeOK, Works
<1>3. \A th \in Thread : work[th].stage = "none"
  BY DEF NoWork
<1>4. OneChain /\ RefreshesCurrent /\ Ownership /\ CloneKept
  BY <1>3 DEF OneChain, RefreshesCurrent, Ownership, CloneKept, WorksOn, Thread
<1>5. FilterOnlyLoaded
  BY DEF FilterOnlyLoaded, NewDomain
<1>6. \A c \in Conf : ~Live(c)
  BY RefreshAssumption DEF RefreshAssumption, Live, Loading, Conf
<1> QED BY <1>2, <1>4, <1>5, <1>6 DEF IInv, Kept, Tried

-----------------------------------------------------------------------------
(* Globals::reload() *)

LEMMA ReloadGetInv == ASSUME IInv, ReloadGet PROVE IInv'
<1> USE DEF IInv, ReloadGet
<1>1. TypeOK'
  BY RefreshAssumption DEF RefreshAssumption, TypeOK
<1>2. OneChain' /\ FilterOnlyLoaded' /\ RefreshesCurrent'
  BY DEF OneChain, FilterOnlyLoaded, RefreshesCurrent, WorksOn
<1>3. work["reload"].stage = "none" /\ conf <= nconf /\ conf \in Int /\ nconf \in Int
  BY DEF Ownership, Loading, TypeOK
<1>4. \A ev \in queue : ev.conf <= conf /\ ev.conf \in Conf
  BY DEF Ownership, Loading, TypeOK, Events
<1>5. Ownership'
  BY <1>3, <1>4 DEF Ownership, Loading, Untried, InProgress, WorksOn, TypeOK, Conf
<1>6. \A c \in Conf, n \in Domain : Live(c)' => (c = conf /\ Live(c)) \/ Untried(c, n)'
  BY <1>3 DEF Live, Loading, Untried
<1>7. \A c \in Conf, n \in Domain : ~Untried(c, n)
  BY DEF Untried, Loading
<1>8. Kept' /\ Tried'
  BY <1>6, <1>7 DEF Kept, Tried, KeptIn, Expects, Pending, InProgress, WorksOn
<1>9. CloneKept'
  <2>1. \A th \in Thread : work[th].stage = "assign" => th = "sched" /\ work[th].conf <= conf
    BY <1>3 DEF Thread, Ownership
  <2>2. \A th \in Thread : work[th].stage = "assign" /\ Live(work[th].conf)' => Live(work[th].conf)
    BY <1>3, <2>1, WorkType DEF Live, Loading, Conf
  <2> QED BY <2>2 DEF CloneKept, HasEvent
<1> QED BY <1>1, <1>2, <1>5, <1>8, <1>9

LEMMA ReloadGetFailsInv == ASSUME IInv, ReloadGetFails PROVE IInv'
<1> USE DEF IInv, ReloadGetFails
<1>1. TypeOK'
  BY RefreshAssumption DEF RefreshAssumption, TypeOK
<1>2. OneChain' /\ FilterOnlyLoaded' /\ RefreshesCurrent'
  BY DEF OneChain, FilterOnlyLoaded, RefreshesCurrent, WorksOn
<1>3. work["reload"].stage = "none" /\ conf <= nconf /\ conf \in Int /\ nconf \in Int
  BY DEF Ownership, Loading, TypeOK
<1>4. \A c \in Conf : ~Loading(c) /\ ~Loading(c)' /\ (Live(c)' => Live(c))
  BY DEF Loading, Live
<1>5. \A c \in Conf, n \in Domain : ~Untried(c, n) /\ ~Untried(c, n)'
  BY <1>4 DEF Untried
<1>6. Ownership'
  <2>1. \A ev \in queue : ev.conf \in Conf /\ ev.name \in Domain
    BY DEF TypeOK, Events
  <2> QED BY <1>3, <1>4, <1>5, <2>1 DEF Ownership, InProgress, WorksOn
<1>7. Kept' /\ Tried'
  BY <1>4, <1>5 DEF Kept, Tried, KeptIn, Expects, Pending, InProgress, WorksOn
<1>8. CloneKept'
  BY <1>4, WorkType DEF CloneKept, HasEvent
<1> QED BY <1>1, <1>2, <1>6, <1>7, <1>8

LEMMA NextDomainInv == ASSUME IInv, NEW n \in Domain, NextDomain(n) PROVE IInv'
<1> USE DEF IInv, NextDomain, StartWork
<1>1. nconf \in Conf /\ conf < nconf /\ Untried(nconf, n) /\ "reload" \in Thread
  BY DEF Ownership, TypeOK, Conf, Untried, Loading, Thread
<1>2. work'["reload"] = [stage |-> "load", conf |-> nconf, name |-> n, self |-> domains[nconf][n].obj]
  BY <1>1 DEF TypeOK
<1>3. \A th \in Thread : th # "reload" => th = "sched" /\ work'[th] = work[th]
  BY <1>1 DEF TypeOK, Thread
<1>4. domains[nconf][n].obj \in Object
  BY <1>1 DEF TypeOK
<1>5. TypeOK'
  <2>1. work'["reload"] \in Works
    BY <1>1, <1>2, <1>4 DEF Works
  <2> QED BY <2>1 DEF TypeOK
<1>6. \A c \in Conf, m \in Domain : WorksOn("sched", c, m)' <=> WorksOn("sched", c, m)
  BY <1>3 DEF WorksOn, Thread
<1>7. \A c \in Conf, m \in Domain :
        /\ ~WorksOn("reload", c, m)
        /\ WorksOn("reload", c, m)' <=> (c = nconf /\ m = n)
  BY <1>2 DEF WorksOn
<1>8. \A m \in Domain : ~WorksOn("sched", nconf, m)
  BY <1>1 DEF WorksOn, Ownership, TypeOK, Thread
<1>9. \A ev \in queue : ev.conf \in Conf /\ ev.name \in Domain /\ ~(ev.conf = nconf /\ ev.name = n)
  BY <1>1 DEF TypeOK, Events, Ownership
<1>10. OneChain'
  <2>1. ASSUME NEW ev \in queue, NEW th \in Thread, WorksOn(th, ev.conf, ev.name)'
        PROVE  work'[th].stage = "assign" /\ ev.obj = work'[th].clone
    <3>1. th = "sched"
      BY <2>1, <1>3, <1>7, <1>9
    <3> QED BY <2>1, <3>1, <1>3, <1>6, <1>9 DEF OneChain
  <2> QED BY <2>1, <1>6, <1>7, <1>8 DEF OneChain
<1>11. \A c \in Conf, m \in Domain : InProgress(c, m) => InProgress(c, m)'
  BY <1>6, <1>7 DEF InProgress, Thread
<1>12. Ownership'
  BY <1>1, <1>2, <1>3, <1>9, <1>11 DEF Ownership, Untried, Loading, Thread
<1>13. \A c \in Conf, m \in Domain :
         Untried(c, m) => Untried(c, m)' \/ (WorksOn("reload", c, m)' /\ InProgress(c, m)')
  BY <1>7 DEF Untried, Loading, InProgress, Thread
<1>14. Kept'
  BY <1>11, <1>13 DEF Kept, Live, Loading, KeptIn, Expects, Pending
<1>15. Tried'
  BY <1>7, <1>13 DEF Tried, Live, Loading
<1>16. CloneKept'
  BY <1>2, <1>3 DEF CloneKept, HasEvent, Live, Loading
<1>17. FilterOnlyLoaded' /\ RefreshesCurrent'
  BY <1>2, <1>3 DEF FilterOnlyLoaded, RefreshesCurrent
<1> QED BY <1>5, <1>10, <1>12, <1>14, <1>15, <1>16, <1>17

LEMMA PublishInv == ASSUME IInv, Publish PROVE IInv'
<1> USE DEF IInv, Publish, AllTried
<1>1. TypeOK' /\ OneChain' /\ FilterOnlyLoaded' /\ RefreshesCurrent'
  BY DEF TypeOK, OneChain, FilterOnlyLoaded, RefreshesCurrent, WorksOn
<1>2. conf < nconf /\ conf' = nconf /\ conf \in Int /\ nconf \in Int
  BY DEF Ownership, TypeOK
<1>3. \A c \in Conf : Live(c)' <=> Loading(c)
  BY <1>2 DEF Live, Loading
<1>4. \A c \in Conf, n \in Domain : ~Untried(c, n) /\ ~Untried(c, n)' /\ ~WorksOn("reload", c, n)
  BY DEF Untried, Loading, WorksOn
<1>5. \A ev \in queue : ev.conf \in Conf /\ ev.name \in Domain /\ ev.conf <= nconf
  <2>1. \A ev \in queue : ev.conf \in Conf /\ ev.name \in Domain
    BY DEF TypeOK, Events
  <2>2. \A ev \in queue : ev.conf <= conf \/ ev.conf = nconf
    BY DEF Ownership, Loading
  <2> QED BY <1>2, <2>1, <2>2 DEF Conf
<1>6. work["sched"].stage # "none" => work["sched"].conf <= nconf
  BY <1>2, WorkType DEF Ownership, Thread, Conf
<1>7. Ownership'
  BY <1>2, <1>4, <1>5, <1>6 DEF Ownership, InProgress, WorksOn, Loading
<1>8. Kept' /\ Tried'
  BY <1>3, <1>4 DEF Kept, Tried, Live, KeptIn, Expects, Pending, InProgress, WorksOn
<1>9. CloneKept'
  BY <1>3, WorkType DEF CloneKept, HasEvent, Live
<1> QED BY <1>1, <1>7, <1>8, <1>9

-----------------------------------------------------------------------------
(* Domain::refresh() *)

\* What the four steps of a refresh have in common: th ends its work on <<c, n>>
\* or goes on to the assignment, the other thread works on something else.
LEMMA OthersWork ==
  ASSUME IInv, NEW th \in Thread, work[th].stage # "none",
         NEW c, NEW n, c = work[th].conf, n = work[th].name
  PROVE  /\ c \in Conf /\ n \in Domain
         /\ Live(c) \/ c < conf
         /\ ~Untried(c, n)
         /\ \A oth \in Thread : oth # th => ~WorksOn(oth, c, n)
<1> USE DEF IInv
<1>1. c \in Conf /\ n \in Domain
  BY WorkType
<1>2. Live(c) \/ c < conf
  BY <1>1 DEF Ownership, Thread, Live, Loading, TypeOK, Conf
<1>3. ~Untried(c, n)
  BY <1>1 DEF Ownership, Thread, Untried, Loading, TypeOK, Conf
<1>4. \A oth \in Thread : oth # th => ~WorksOn(oth, c, n)
  BY <1>1 DEF OneChain, Thread, WorksOn
<1> QED BY <1>1, <1>2, <1>3, <1>4

LEMMA CloneFailsInv == ASSUME IInv, NEW th \in Thread, CloneFails(th) PROVE IInv'
<1> USE DEF IInv, CloneFails, EndWork
<1> DEFINE c == work[th].conf
           n == work[th].name
<1>1. work[th].stage = "load" /\ work[th].stage # "none"
  OBVIOUS
<1>2. /\ c \in Conf /\ n \in Domain /\ ~Untried(c, n)
      /\ \A oth \in Thread : oth # th => ~WorksOn(oth, c, n)
  BY <1>1, OthersWork
<1>3. /\ work'[th].stage = "none"
      /\ \A oth \in Thread : oth # th => work'[oth] = work[oth]
  BY DEF TypeOK, NoWork
<1>4. TypeOK'
  <2>1. lost' \in SUBSET (Conf \X Domain)
    BY <1>2 DEF TypeOK
  <2>2. work' \in [Thread -> Works]
    BY DEF TypeOK, Works
  <2> QED BY <2>1, <2>2 DEF TypeOK
<1>5. \A oth \in Thread, d \in Conf, m \in Domain :
        WorksOn(oth, d, m)' <=> (WorksOn(oth, d, m) /\ oth # th)
  BY <1>3 DEF WorksOn
<1>6. \A ev \in queue : ev.conf \in Conf /\ ev.name \in Domain
  BY DEF TypeOK, Events
<1>7. OneChain'
  BY <1>3, <1>5, <1>6 DEF OneChain, Thread
<1>8. \A d \in Conf, m \in Domain : InProgress(d, m) => InProgress(d, m)' \/ (d = c /\ m = n)
  BY <1>5 DEF InProgress, WorksOn
<1>9. \A ev \in queue : ~(ev.conf = c /\ ev.name = n)
  BY <1>1, <1>6 DEF OneChain, WorksOn
<1>10. Ownership'
  <2>1. \A ev \in queue : ev.obj = domains[ev.conf][ev.name].obj \/ InProgress(ev.conf, ev.name)'
    BY <1>6, <1>8, <1>9 DEF Ownership
  <2>2. \A oth \in Thread : work'[oth].stage # "none" => work'[oth] = work[oth]
    BY <1>3
  <2> QED BY <2>1, <2>2 DEF Ownership, Untried, Loading, Thread
<1>11. <<c, n>> \in lost' /\ lost \subseteq lost'
  OBVIOUS
<1>12. Kept'
  BY <1>8, <1>11 DEF Kept, Live, Loading, Untried, KeptIn, Expects, Pending
<1>13. Tried'
  BY <1>2, <1>5, <1>11 DEF Tried, Live, Loading, Untried, WorksOn, Thread
<1>14. CloneKept'
  BY <1>3, <1>11 DEF CloneKept, HasEvent, Live, Loading
<1>15. FilterOnlyLoaded' /\ RefreshesCurrent'
  BY <1>3 DEF FilterOnlyLoaded, RefreshesCurrent
<1> QED BY <1>4, <1>7, <1>10, <1>12, <1>13, <1>14, <1>15

LEMMA LoadFailsInv == ASSUME IInv, NEW th \in Thread, LoadFails(th) PROVE IInv'
<1> USE DEF IInv
<1>1. work[th].stage = "load" /\ work[th].stage # "none"
  BY DEF LoadFails
<1>a. PICK c \in Conf, n \in Domain, o \in Object :
        c = work[th].conf /\ n = work[th].name /\ o = work[th].self
  BY <1>1, WorkType
<1>2. /\ ~Untried(c, n)
      /\ Live(c) \/ c < conf
      /\ \A oth \in Thread : oth # th => ~WorksOn(oth, c, n)
  BY <1>1, <1>a, OthersWork
<1>3. /\ work'[th].stage = "none"
      /\ \A oth \in Thread : oth # th => work'[oth] = work[oth]
  BY DEF LoadFails, EndWork, TypeOK, NoWork
<1>b. o = domains[c][n].obj /\ domains[c][n].failure_count \in FailureCount
  BY <1>1, <1>a DEF TypeOK, RefreshesCurrent
<1>c. PICK cnt \in 0 .. ShortMax : cnt = Count(domains[c][n].failure_count)
  BY <1>b, CountType
<1>4. /\ Failed(cnt) \in FailureCount
      /\ Failed(cnt) # 0 /\ Failed(cnt) # -1
      /\ Failed(cnt) > 0 => Failed(cnt) = cnt + 1
      /\ Failed(cnt) < 0 => cnt = ShortMax
  BY <1>b, <1>c, CountType
<1>5. /\ Delay(n, cnt) \in Nat
      /\ cnt < Len(Retries[n]) => Delay(n, cnt) > 0
      /\ cnt >= Len(Retries[n]) => Delay(n, cnt) = RetrySec[n]
      /\ cnt = ShortMax => Delay(n, cnt) = RetrySec[n]
      /\ Len(Retries[n]) \in Nat
  BY DelayType
<1>6. domains' = [domains EXCEPT ![c][n].failure_count = Failed(cnt)]
  BY <1>a, <1>c DEF LoadFails
<1>7. queue' = queue \cup Scheduled(c, n, o, Delay(n, cnt))
  BY <1>a, <1>c DEF LoadFails
<1>8. UNCHANGED <<conf, nconf, reloader, todo, lost>>
  BY DEF LoadFails
<1>9. /\ domains'[c][n].obj = o
      /\ domains'[c][n].failure_count = Failed(cnt)
      /\ domains'[c][n].loaded = domains[c][n].loaded
      /\ \A d \in Conf, m \in Domain : ~(d = c /\ m = n) => domains'[d][m] = domains[d][m]
      /\ \A d \in Conf, m \in Domain : domains'[d][m].obj = domains[d][m].obj
  BY <1>b, <1>6 DEF TypeOK
<1>10. TypeOK'
  <2>1. domains' \in [Conf -> [Domain ->
          [obj : Object, failure_count : FailureCount, loaded : BOOLEAN]]]
    <3> DEFINE R == [obj : Object, failure_count : FailureCount, loaded : BOOLEAN]
    <3>1. [domains[c][n] EXCEPT !.failure_count = Failed(cnt)] \in R
      BY <1>4 DEF TypeOK
    <3>2. [domains[c] EXCEPT ![n] = [domains[c][n] EXCEPT !.failure_count = Failed(cnt)]] \in [Domain -> R]
      BY <3>1 DEF TypeOK
    <3> QED BY <1>6, <3>2 DEF TypeOK
  <2>2. queue' \in SUBSET Events
    BY <1>2, <1>4, <1>5, <1>7 DEF TypeOK, Events, Scheduled, Event
  <2>3. work' \in [Thread -> Works]
    BY DEF LoadFails, EndWork, TypeOK, Works
  <2>4. waited' \in [Conf -> [Domain -> Nat]]
    <3>1. waited' = [waited EXCEPT ![c][n] =
                         IF Failed(cnt) \in 1 .. Len(Retries[n]) THEN @ ELSE 0]
      BY <1>a, <1>c DEF LoadFails
    <3> QED BY <3>1 DEF TypeOK
  <2> QED BY <1>8, <2>1, <2>2, <2>3, <2>4 DEF TypeOK
<1>11. \A oth \in Thread, d \in Conf, m \in Domain :
        WorksOn(oth, d, m)' <=> (WorksOn(oth, d, m) /\ oth # th)
  BY <1>3 DEF WorksOn
<1>12. \A ev \in queue : ev.conf \in Conf /\ ev.name \in Domain /\ ~(ev.conf = c /\ ev.name = n)
  BY <1>1, <1>a DEF TypeOK, Events, OneChain, WorksOn
<1>13. \A ev \in queue' : ev \in queue \/ (ev.conf = c /\ ev.name = n /\ ev.obj = o /\ ev = Event(c, n, o, Delay(n, cnt)))
  BY <1>7 DEF Scheduled, Event
<1>14. OneChain'
  <2>1. \A e, f \in queue' : e.conf = f.conf /\ e.name = f.name => e = f
    BY <1>12, <1>13 DEF OneChain
  <2>2. \A oth \in Thread : ~WorksOn(oth, c, n)'
    <3>1. ~WorksOn(th, c, n)'
      BY <1>3 DEF WorksOn
    <3> QED BY <1>2, <1>11, <3>1
  <2>3. ASSUME NEW ev \in queue', NEW oth \in Thread, WorksOn(oth, ev.conf, ev.name)'
        PROVE  work'[oth].stage = "assign" /\ ev.obj = work'[oth].clone
    <3>1. ev \in queue
      BY <1>13, <2>2, <2>3
    <3>2. WorksOn(oth, ev.conf, ev.name) /\ oth # th
      BY <1>11, <1>12, <2>3, <3>1
    <3> QED BY <1>3, <3>1, <3>2 DEF OneChain
  <2> QED BY <1>11, <2>1, <2>3 DEF OneChain, Thread
<1>15. \A d \in Conf, m \in Domain : ~(d = c /\ m = n) => (InProgress(d, m)' <=> InProgress(d, m))
  BY <1>a, <1>11 DEF InProgress, WorksOn
<1>16. \A d \in Conf, m \in Domain : (Untried(d, m)' <=> Untried(d, m)) /\ (Live(d)' <=> Live(d)) /\ (Loading(d)' <=> Loading(d))
  BY <1>8 DEF Untried, Live, Loading
<1>17. Ownership'
  <2>1. ASSUME NEW ev \in queue' PROVE
          /\ ev.conf <= conf \/ Loading(ev.conf)
          /\ ~Untried(ev.conf, ev.name)
          /\ ev.obj = domains'[ev.conf][ev.name].obj \/ InProgress(ev.conf, ev.name)'
    <3>1. CASE ev \in queue
      BY <1>9, <1>12, <1>15, <3>1 DEF Ownership
    <3>2. CASE ev.conf = c /\ ev.name = n /\ ev.obj = o
      BY <1>2, <1>9, <3>2 DEF Live, TypeOK, Conf
    <3> QED BY <1>13, <3>1, <3>2
  <2>2. \A oth \in Thread : work'[oth].stage # "none" => work'[oth] = work[oth]
    BY <1>3
  <2> QED BY <1>8, <2>1, <2>2 DEF Ownership, Untried, Loading, Thread
<1>18. KeptIn(c, n)'
  <2>1. Expects(c, n)' => Delay(n, cnt) > 0
    BY <1>4, <1>5, <1>9 DEF Expects, FailureCount
  <2>2. Delay(n, cnt) > 0 => Event(c, n, o, Delay(n, cnt)) \in queue'
    BY <1>5, <1>7 DEF Scheduled
  <2>3. Delay(n, cnt) > 0 => Pending(c, n)'
    BY <1>9, <2>2 DEF Pending, Event
  <2> QED BY <2>1, <2>3 DEF KeptIn
<1>19. ASSUME NEW d \in Conf, NEW m \in Domain, ~(d = c /\ m = n), KeptIn(d, m)
       PROVE  KeptIn(d, m)'
  <2>1. Expects(d, m)' <=> Expects(d, m)
    BY <1>9, <1>19 DEF Expects
  <2>2. Pending(d, m) => Pending(d, m)'
    BY <1>7, <1>9, <1>19 DEF Pending
  <2> QED BY <1>8, <1>15, <1>19, <2>1, <2>2 DEF KeptIn
<1>20. Kept'
  BY <1>16, <1>18, <1>19 DEF Kept
<1>21. Tried'
  <2>1. domains'[c][n].failure_count # -1
    BY <1>4, <1>9
  <2>2. ASSUME NEW d \in Conf, NEW m \in Domain, ~(d = c /\ m = n), WorksOn("reload", d, m)
        PROVE  WorksOn("reload", d, m)'
    BY <1>a, <1>11, <2>2 DEF WorksOn, Thread
  <2> QED BY <1>8, <1>9, <1>16, <2>1, <2>2 DEF Tried
<1>22. CloneKept'
  <2>1. \A oth \in Thread : work'[oth].stage = "assign" => work'[oth] = work[oth] /\ oth # th
    BY <1>3
  <2>2. \A oth \in Thread : work'[oth].stage = "assign" => work[oth].conf \in Conf /\ work[oth].name \in Domain
    BY <2>1, WorkType
  <2>3. queue \subseteq queue'
    BY <1>7
  <2> QED BY <1>8, <1>16, <2>1, <2>2, <2>3 DEF CloneKept, HasEvent
<1>23. FilterOnlyLoaded'
  BY <1>4, <1>9 DEF FilterOnlyLoaded
<1>24. RefreshesCurrent'
  <2> SUFFICES ASSUME NEW oth \in Thread, work'[oth].stage # "none"
               PROVE  domains'[work'[oth].conf][work'[oth].name].obj = work'[oth].self
    BY DEF RefreshesCurrent
  <2>1. oth # th /\ work'[oth] = work[oth] /\ work[oth].stage # "none"
    BY <1>3
  <2>2. PICK d \in Conf, m \in Domain : d = work[oth].conf /\ m = work[oth].name
    BY <2>1, WorkType
  <2>3. ~(d = c /\ m = n)
    BY <1>2, <2>1, <2>2 DEF WorksOn
  <2> QED BY <1>9, <2>1, <2>2, <2>3 DEF RefreshesCurrent
<1> QED BY <1>10, <1>14, <1>17, <1>20, <1>21, <1>22, <1>23, <1>24

LEMMA LoadOkInv == ASSUME IInv, NEW th \in Thread, LoadOk(th) PROVE IInv'
<1> USE DEF IInv
<1> DEFINE c == work[th].conf
           n == work[th].name
           o == Fresh(c, n)
<1>1. work[th].stage = "load" /\ work[th].stage # "none"
  BY DEF LoadOk
<1>2. /\ c \in Conf /\ n \in Domain /\ ~Untried(c, n)
      /\ Live(c) \/ c < conf
      /\ \A oth \in Thread : oth # th => ~WorksOn(oth, c, n)
  BY <1>1, OthersWork
<1>3. \A ev \in queue : ev.conf \in Conf /\ ev.name \in Domain /\ ~(ev.conf = c /\ ev.name = n)
  BY <1>1 DEF TypeOK, Events, OneChain, WorksOn
<1>4. o \in Object
  BY <1>2, <1>3, FreshType
<1>5. queue' = queue \cup Scheduled(c, n, o, RefreshSec[n]) /\ RefreshSec[n] \in Nat
  BY <1>2, RefreshAssumption DEF RefreshAssumption, LoadOk
<1>6. /\ work'[th] = [stage |-> "assign", conf |-> c, name |-> n,
                       self |-> work[th].self, clone |-> o]
      /\ \A oth \in Thread : oth # th => work'[oth] = work[oth]
  BY DEF LoadOk, TypeOK
<1>7. UNCHANGED <<conf, nconf, domains, reloader, todo, lost, waited>>
  BY DEF LoadOk
<1>8. work' \in [Thread -> Works]
  <2>1. [stage |-> "assign", conf |-> c, name |-> n,
                       self |-> work[th].self, clone |-> o] \in Works
    BY <1>1, <1>2, <1>4, WorkType DEF Works
  <2> QED BY <2>1 DEF LoadOk, TypeOK
<1> HIDE DEF o
<1>9. TypeOK'
  <2>1. queue' \in SUBSET Events
    BY <1>2, <1>4, <1>5 DEF TypeOK, Events, Scheduled, Event
  <2> QED BY <1>7, <1>8, <2>1 DEF TypeOK
<1>10. \A oth \in Thread, d \in Conf, m \in Domain : WorksOn(oth, d, m)' <=> WorksOn(oth, d, m)
  BY <1>1, <1>6 DEF WorksOn
<1>11. \A d \in Conf, m \in Domain : InProgress(d, m)' <=> InProgress(d, m)
  BY <1>10 DEF InProgress
<1>12. \A ev \in queue' : ev \in queue \/ (ev.conf = c /\ ev.name = n /\ ev.obj = o /\ ev = Event(c, n, o, RefreshSec[n]))
  BY <1>5 DEF Scheduled, Event
<1>13. OneChain'
  <2>1. \A e, f \in queue' : e.conf = f.conf /\ e.name = f.name => e = f
    BY <1>3, <1>12 DEF OneChain
  <2>2. ASSUME NEW ev \in queue', NEW oth \in Thread, WorksOn(oth, ev.conf, ev.name)'
        PROVE  work'[oth].stage = "assign" /\ ev.obj = work'[oth].clone
    <3>1. CASE ev \in queue
      <4>1. WorksOn(oth, ev.conf, ev.name)
        BY <1>3, <1>10, <2>2, <3>1
      <4>2. oth # th
        BY <1>3, <3>1, <4>1 DEF WorksOn
      <4> QED BY <1>6, <3>1, <4>1, <4>2 DEF OneChain
    <3>2. CASE ev.conf = c /\ ev.name = n /\ ev.obj = o
      <4>1. WorksOn(oth, c, n)
        BY <1>2, <1>10, <2>2, <3>2
      <4> QED BY <1>2, <1>6, <3>2, <4>1
    <3> QED BY <1>12, <3>1, <3>2
  <2>3. \A d \in Conf, m \in Domain : ~(WorksOn("reload", d, m)' /\ WorksOn("sched", d, m)')
    BY <1>10 DEF OneChain, Thread
  <2> QED BY <2>1, <2>2, <2>3 DEF OneChain
<1>14. \A d \in Conf, m \in Domain : (Untried(d, m)' <=> Untried(d, m)) /\ (Live(d)' <=> Live(d)) /\ (Loading(d)' <=> Loading(d))
  BY <1>7 DEF Untried, Live, Loading
<1>15. InProgress(c, n)
  BY <1>1 DEF InProgress, WorksOn
<1>16. Ownership'
  <2>1. ASSUME NEW ev \in queue' PROVE
          /\ ev.conf <= conf \/ Loading(ev.conf)
          /\ ~Untried(ev.conf, ev.name)
          /\ ev.obj = domains[ev.conf][ev.name].obj \/ InProgress(ev.conf, ev.name)'
    <3>1. CASE ev \in queue
      BY <1>3, <1>11, <3>1 DEF Ownership
    <3>2. CASE ev.conf = c /\ ev.name = n /\ ev.obj = o
      BY <1>2, <1>11, <1>15, <3>2 DEF Live, TypeOK, Conf
    <3> QED BY <1>12, <3>1, <3>2
  <2>2. \A oth \in Thread : /\ work'[oth].stage # "none" <=> work[oth].stage # "none"
                            /\ work'[oth].stage # "none" => work'[oth].conf = work[oth].conf
                            /\ work'[oth].stage # "none" => work'[oth].name = work[oth].name
                            /\ work'[oth].stage = "load" => work'[oth] = work[oth]
    BY <1>1, <1>6
  <2> QED BY <1>7, <2>1, <2>2 DEF Ownership, Untried, Loading, Thread
<1>17. Kept'
  BY <1>5, <1>7, <1>11, <1>14 DEF Kept, KeptIn, Expects, Pending
<1>18. Tried'
  BY <1>7, <1>10, <1>14 DEF Tried, Thread
<1>19. CloneKept'
  <2>1. RefreshSec[n] > 0 => Event(c, n, o, RefreshSec[n]) \in queue'
    BY <1>5 DEF Scheduled
  <2>2. RefreshSec[n] > 0 => HasEvent(th)'
    BY <1>6, <2>1 DEF HasEvent, Event
  <2>3. ASSUME NEW oth \in Thread, oth # th, work[oth].stage = "assign", HasEvent(oth)
        PROVE  HasEvent(oth)'
    BY <1>5, <1>6, <2>3 DEF HasEvent
  <2>4. \A oth \in Thread : work[oth].stage = "assign" => work[oth].conf \in Conf /\ work[oth].name \in Domain
    BY WorkType
  <2> QED BY <1>6, <1>7, <1>14, <2>2, <2>3, <2>4 DEF CloneKept
<1>20. FilterOnlyLoaded' /\ RefreshesCurrent'
  BY <1>1, <1>6, <1>7 DEF FilterOnlyLoaded, RefreshesCurrent
<1> QED BY <1>9, <1>13, <1>16, <1>17, <1>18, <1>19, <1>20

LEMMA AssignInv == ASSUME IInv, NEW th \in Thread, Assign(th) PROVE IInv'
<1> USE DEF IInv
<1>1. work[th].stage = "assign" /\ work[th].stage # "none"
  BY DEF Assign
<1>2. PICK c \in Conf, n \in Domain, o \in Object :
        c = work[th].conf /\ n = work[th].name /\ o = work[th].clone
  BY <1>1, WorkType
<1>3. /\ ~Untried(c, n)
      /\ Live(c) \/ c < conf
      /\ \A oth \in Thread : oth # th => ~WorksOn(oth, c, n)
  BY <1>1, <1>2, OthersWork
<1>4. /\ work'[th].stage = "none"
      /\ \A oth \in Thread : oth # th => work'[oth] = work[oth]
  BY DEF Assign, EndWork, TypeOK, NoWork
<1>5. domains' = [domains EXCEPT ![c][n] = [obj |-> o, failure_count |-> 0, loaded |-> TRUE]]
  BY <1>2 DEF Assign
<1>6. /\ domains'[c][n].obj = o
      /\ domains'[c][n].failure_count = 0
      /\ domains'[c][n].loaded = TRUE
      /\ \A d \in Conf, m \in Domain : ~(d = c /\ m = n) => domains'[d][m] = domains[d][m]
  BY <1>5 DEF TypeOK
<1>7. UNCHANGED <<conf, nconf, queue, reloader, todo, lost>>
  BY DEF Assign
<1>8. TypeOK'
  <2> DEFINE R == [obj : Object, failure_count : FailureCount, loaded : BOOLEAN]
  <2>1. [obj |-> o, failure_count |-> 0, loaded |-> TRUE] \in R
    BY RefreshAssumption DEF RefreshAssumption, FailureCount
  <2>2. [domains[c] EXCEPT ![n] = [obj |-> o, failure_count |-> 0, loaded |-> TRUE]] \in [Domain -> R]
    BY <2>1 DEF TypeOK
  <2>3. domains' \in [Conf -> [Domain -> R]]
    BY <1>5, <2>2 DEF TypeOK
  <2>4. work' \in [Thread -> Works]
    BY DEF Assign, EndWork, TypeOK, Works
  <2>5. waited' \in [Conf -> [Domain -> Nat]]
    BY DEF Assign, TypeOK
  <2> QED BY <1>7, <2>3, <2>4, <2>5 DEF TypeOK
<1>9. \A oth \in Thread, d \in Conf, m \in Domain :
        WorksOn(oth, d, m)' <=> (WorksOn(oth, d, m) /\ oth # th)
  BY <1>4 DEF WorksOn
<1>10. \A ev \in queue : ev.conf \in Conf /\ ev.name \in Domain
  BY DEF TypeOK, Events
<1>11. OneChain'
  BY <1>4, <1>7, <1>9, <1>10 DEF OneChain, Thread
<1>12. \A d \in Conf, m \in Domain : ~(d = c /\ m = n) => (InProgress(d, m)' <=> InProgress(d, m))
  BY <1>2, <1>9 DEF InProgress, WorksOn
<1>13. \A d \in Conf, m \in Domain : (Untried(d, m)' <=> Untried(d, m)) /\ (Live(d)' <=> Live(d)) /\ (Loading(d)' <=> Loading(d))
  BY <1>7 DEF Untried, Live, Loading
<1>14. \A ev \in queue : ev.conf = c /\ ev.name = n => ev.obj = o
  BY <1>1, <1>2 DEF OneChain, WorksOn
<1>15. Ownership'
  <2>1. ASSUME NEW ev \in queue PROVE
          ev.obj = domains'[ev.conf][ev.name].obj \/ InProgress(ev.conf, ev.name)'
    BY <1>6, <1>10, <1>12, <1>14 DEF Ownership
  <2>2. \A oth \in Thread : work'[oth].stage # "none" => work'[oth] = work[oth] /\ oth # th
    BY <1>4
  <2> QED BY <1>7, <2>1, <2>2 DEF Ownership, Untried, Loading, Thread
<1>16. Live(c) => KeptIn(c, n)'
  <2>1. Expects(c, n)' => RefreshSec[n] > 0
    BY <1>6 DEF Expects
  <2>2. (Live(c) /\ RefreshSec[n] > 0) => HasEvent(th) \/ <<c, n>> \in lost
    BY <1>1, <1>2 DEF CloneKept
  <2>3. HasEvent(th) => Pending(c, n)'
    BY <1>2, <1>6, <1>7 DEF HasEvent, Pending
  <2> QED BY <1>7, <2>1, <2>2, <2>3 DEF KeptIn
<1>17. ASSUME NEW d \in Conf, NEW m \in Domain, ~(d = c /\ m = n), KeptIn(d, m)
       PROVE  KeptIn(d, m)'
  <2>1. Expects(d, m)' <=> Expects(d, m)
    BY <1>6, <1>17 DEF Expects
  <2>2. Pending(d, m) => Pending(d, m)'
    BY <1>6, <1>7, <1>17 DEF Pending
  <2> QED BY <1>7, <1>12, <1>17, <2>1, <2>2 DEF KeptIn
<1>18. Kept'
  BY <1>13, <1>16, <1>17 DEF Kept
<1>19. Tried'
  <2>1. ASSUME NEW d \in Conf, NEW m \in Domain, ~(d = c /\ m = n), WorksOn("reload", d, m)
        PROVE  WorksOn("reload", d, m)'
    BY <1>2, <1>9, <2>1 DEF WorksOn, Thread
  <2> QED BY <1>6, <1>7, <1>13, <2>1 DEF Tried
<1>20. CloneKept'
  <2>1. \A oth \in Thread : work'[oth].stage = "assign" => work'[oth] = work[oth] /\ oth # th
    BY <1>4
  <2>2. \A oth \in Thread : work'[oth].stage = "assign" => work[oth].conf \in Conf /\ work[oth].name \in Domain
    BY <2>1, WorkType
  <2> QED BY <1>7, <1>13, <2>1, <2>2 DEF CloneKept, HasEvent
<1>21. FilterOnlyLoaded'
  BY <1>6 DEF FilterOnlyLoaded
<1>22. RefreshesCurrent'
  <2> SUFFICES ASSUME NEW oth \in Thread, work'[oth].stage # "none"
               PROVE  domains'[work'[oth].conf][work'[oth].name].obj = work'[oth].self
    BY DEF RefreshesCurrent
  <2>1. oth # th /\ work'[oth] = work[oth] /\ work[oth].stage # "none"
    BY <1>4
  <2>2. PICK d \in Conf, m \in Domain : d = work[oth].conf /\ m = work[oth].name
    BY <2>1, WorkType
  <2>3. ~(d = c /\ m = n)
    BY <1>3, <2>1, <2>2 DEF WorksOn
  <2> QED BY <1>6, <2>1, <2>2, <2>3 DEF RefreshesCurrent
<1> QED BY <1>8, <1>11, <1>15, <1>18, <1>19, <1>20, <1>21, <1>22

-----------------------------------------------------------------------------
(* domainRefresher() and the clock *)

\* An event of the published configuration is never outdated when it fires:
\* its object can only be replaced by the scheduler thread itself.
LEMMA OutdatedElsewhere ==
  ASSUME IInv, NEW ev \in queue, Due(ev), ~Current(ev)
  PROVE  ev.conf # conf
<1> SUFFICES ASSUME ev.conf = conf PROVE FALSE
  OBVIOUS
<1> USE DEF IInv
<1>1. ev.conf \in Conf /\ ev.name \in Domain
  BY DEF TypeOK, Events
<1>2. InProgress(ev.conf, ev.name)
  BY DEF Current, Ownership
<1>3. WorksOn("reload", conf, ev.name)
  BY <1>2 DEF InProgress, Due, WorksOn, Thread
<1>4. conf = nconf /\ conf < nconf /\ conf \in Int
  BY <1>3 DEF WorksOn, Ownership, Loading, TypeOK
<1> QED BY <1>4

LEMMA FireOutdatedInv == ASSUME IInv, NEW ev \in queue, FireOutdated(ev) PROVE IInv'
<1> USE DEF IInv, FireOutdated
<1>1. ev.conf \in Conf /\ ev.name \in Domain /\ ev.conf # conf
  BY OutdatedElsewhere DEF TypeOK, Events
<1>2. /\ queue' = queue \ {ev}
      /\ lost' = lost \cup LostWith(ev)
      /\ UNCHANGED <<conf, nconf, domains, reloader, todo, work, waited>>
  OBVIOUS
<1>3. ev.conf > conf => <<ev.conf, ev.name>> \in lost'
  BY <1>2 DEF LostWith
<1>4. \A d \in Conf : Live(d) /\ d = ev.conf => d > conf
  BY <1>1 DEF Live, Loading, Ownership, TypeOK, Conf
<1>5. TypeOK'
  BY <1>1, <1>2 DEF TypeOK, LostWith
<1>6. OneChain' /\ FilterOnlyLoaded' /\ RefreshesCurrent'
  BY <1>2 DEF OneChain, FilterOnlyLoaded, RefreshesCurrent, WorksOn, Thread
<1>7. Ownership'
  BY <1>2 DEF Ownership, Loading, Untried, InProgress, WorksOn, Thread
<1>8. Kept'
  <2> SUFFICES ASSUME NEW d \in Conf, NEW m \in Domain, Live(d), KeptIn(d, m)
               PROVE  KeptIn(d, m)'
    BY <1>2 DEF Kept, Live, Loading, Untried
  <2>1. CASE d = ev.conf /\ m = ev.name
    BY <1>3, <1>4, <2>1 DEF KeptIn
  <2>2. CASE ~(d = ev.conf /\ m = ev.name)
    BY <1>2, <2>2 DEF KeptIn, Expects, Pending, InProgress, WorksOn
  <2> QED BY <2>1, <2>2
<1>9. Tried'
  BY <1>2 DEF Tried, Live, Loading, Untried, WorksOn
<1>10. CloneKept'
  <2> SUFFICES ASSUME NEW th \in Thread, work[th].stage = "assign", Live(work[th].conf),
                      HasEvent(th) \/ <<work[th].conf, work[th].name>> \in lost
               PROVE  HasEvent(th)' \/ <<work[th].conf, work[th].name>> \in lost'
    BY <1>2 DEF CloneKept, Live, Loading
  <2>1. work[th].conf \in Conf
    BY WorkType
  <2>2. CASE ev.conf = work[th].conf /\ ev.name = work[th].name
    BY <1>3, <1>4, <2>1, <2>2
  <2>3. CASE ~(ev.conf = work[th].conf /\ ev.name = work[th].name)
    BY <1>2, <2>3 DEF HasEvent
  <2> QED BY <2>2, <2>3
<1> QED BY <1>5, <1>6, <1>7, <1>8, <1>9, <1>10

LEMMA FireCurrentInv == ASSUME IInv, NEW ev \in queue, FireCurrent(ev) PROVE IInv'
<1> USE DEF IInv
<1>1. PICK c \in Conf, n \in Domain : c = ev.conf /\ n = ev.name
  BY DEF TypeOK, Events
<1>2. /\ c = conf /\ work["sched"].stage = "none" /\ queue' = queue \ {ev}
      /\ UNCHANGED <<conf, nconf, domains, reloader, todo, lost, waited>>
  BY <1>1 DEF FireCurrent, Due, Current
<1>a. ev.obj = domains[c][n].obj
  BY <1>1 DEF FireCurrent, Current
<1>3. /\ work'["sched"] = [stage |-> "load", conf |-> c, name |-> n, self |-> domains[c][n].obj]
      /\ work'["reload"] = work["reload"]
      /\ work' \in [Thread -> Works]
  <2>1. [stage |-> "load", conf |-> c, name |-> n, self |-> domains[c][n].obj] \in Works
    BY DEF TypeOK, Works
  <2> QED BY <1>1, <1>a, <2>1 DEF FireCurrent, StartWork, TypeOK, Thread
<1>4. TypeOK'
  BY <1>2, <1>3 DEF TypeOK
<1>5. \A d \in Conf, m \in Domain :
        /\ WorksOn("reload", d, m)' <=> WorksOn("reload", d, m)
        /\ ~WorksOn("sched", d, m)
        /\ WorksOn("sched", d, m)' <=> (d = c /\ m = n)
  BY <1>2, <1>3 DEF WorksOn
<1>6. \A m \in Domain : ~WorksOn("reload", c, m)
  BY <1>2 DEF WorksOn, Ownership, Loading, TypeOK, Conf
<1>7. \A f \in queue' : f \in queue /\ f.conf \in Conf /\ f.name \in Domain /\ ~(f.conf = c /\ f.name = n)
  BY <1>1, <1>2 DEF TypeOK, Events, OneChain
<1>8. OneChain'
  <2>1. ASSUME NEW f \in queue', NEW th \in Thread, WorksOn(th, f.conf, f.name)'
        PROVE  work'[th].stage = "assign" /\ f.obj = work'[th].clone
    <3>1. th = "reload" /\ WorksOn(th, f.conf, f.name)
      BY <1>5, <1>7, <2>1 DEF Thread
    <3> QED BY <1>3, <1>7, <3>1 DEF OneChain
  <2> QED BY <1>5, <1>6, <1>7, <2>1 DEF OneChain
<1>9. \A d \in Conf, m \in Domain : InProgress(d, m)' <=> (InProgress(d, m) \/ (d = c /\ m = n))
  BY <1>5 DEF InProgress, Thread
<1>10. \A d \in Conf, m \in Domain : (Untried(d, m)' <=> Untried(d, m)) /\ (Live(d)' <=> Live(d)) /\ (Loading(d)' <=> Loading(d))
  BY <1>2 DEF Untried, Live, Loading
<1>11. Ownership'
  <2>1. ASSUME NEW f \in queue' PROVE
          /\ f.conf <= conf \/ Loading(f.conf)
          /\ ~Untried(f.conf, f.name)
          /\ f.obj = domains[f.conf][f.name].obj \/ InProgress(f.conf, f.name)'
    BY <1>7, <1>9 DEF Ownership
  <2>2. conf \in Int /\ conf <= conf
    BY DEF TypeOK
  <2>4. work["reload"].stage # "none" =>
          Loading(work["reload"].conf) /\ work["reload"].name \notin todo
    BY DEF Ownership
  <2>5. conf <= nconf /\ (reloader = "loop" => conf < nconf)
    BY DEF Ownership
  <2>6. work'["sched"].conf = conf
    BY <1>2, <1>3
  <2> HIDE DEF IInv
  <2> QED BY <1>2, <1>3, <2>1, <2>2, <2>4, <2>5, <2>6 DEF Ownership, Untried, Loading
<1>12. Kept'
  <2>1. ASSUME NEW d \in Conf, NEW m \in Domain, KeptIn(d, m) PROVE KeptIn(d, m)'
    <3>1. CASE d = c /\ m = n
      BY <1>9, <3>1 DEF KeptIn
    <3>2. CASE ~(d = c /\ m = n)
      <4>1. Pending(d, m) => Pending(d, m)'
        BY <1>1, <1>2, <3>2 DEF Pending
      <4>2. Expects(d, m)' <=> Expects(d, m)
        BY <1>2 DEF Expects
      <4> QED BY <1>2, <1>9, <2>1, <4>1, <4>2 DEF KeptIn
    <3> QED BY <3>1, <3>2
  <2> QED BY <1>10, <2>1 DEF Kept
<1>13. Tried'
  BY <1>2, <1>5, <1>10 DEF Tried
<1>14. CloneKept'
  <2> SUFFICES ASSUME work["reload"].stage = "assign", Live(work["reload"].conf),
                      HasEvent("reload")
               PROVE  HasEvent("reload")'
    BY <1>2, <1>3 DEF CloneKept, Live, Loading, Thread, HasEvent
  <2>1. work["reload"].conf # c
    BY <1>2, WorkType DEF Ownership, Loading, TypeOK, Conf, Thread
  <2> QED BY <1>1, <1>2, <1>3, <2>1 DEF HasEvent
<1>15. FilterOnlyLoaded' /\ RefreshesCurrent'
  BY <1>2, <1>3 DEF FilterOnlyLoaded, RefreshesCurrent, Thread
<1> QED BY <1>4, <1>8, <1>11, <1>12, <1>13, <1>14, <1>15

\* The clock changes nothing but the time that is left.
LEMMA TickInv == ASSUME IInv, Tick PROVE IInv'
<1> USE DEF IInv
<1> DEFINE Later(ev) == [ev EXCEPT !.left = IF @ > 0 THEN @ - 1 ELSE 0]
<1>1. queue' = {Later(ev) : ev \in queue} /\ UNCHANGED <<conf, nconf, domains, reloader, todo, work, lost>>
  BY DEF Tick
<1>2. \A ev \in queue : /\ Later(ev) \in Events
                        /\ Later(ev).conf = ev.conf
                        /\ Later(ev).name = ev.name
                        /\ Later(ev).obj = ev.obj
  <2> SUFFICES ASSUME NEW ev \in queue
               PROVE  /\ Later(ev) \in Events
                      /\ Later(ev).conf = ev.conf
                      /\ Later(ev).name = ev.name
                      /\ Later(ev).obj = ev.obj
    OBVIOUS
  <2>1. ev \in Events /\ ev.left \in Nat
    BY DEF TypeOK, Events
  <2>2. (IF ev.left > 0 THEN ev.left - 1 ELSE 0) \in Nat
    BY <2>1
  <2> QED BY <2>1, <2>2 DEF Events
<1> HIDE DEF Later
<1>3. waited' \in [Conf -> [Domain -> Nat]]
  BY DEF Tick, TypeOK
<1>4. TypeOK'
  BY <1>1, <1>2, <1>3 DEF TypeOK
<1>5. OneChain'
  <2>1. \A e, f \in queue' : e.conf = f.conf /\ e.name = f.name => e = f
    BY <1>1, <1>2 DEF OneChain
  <2>2. \A ev \in queue', th \in Thread : WorksOn(th, ev.conf, ev.name) =>
          work[th].stage = "assign" /\ ev.obj = work[th].clone
    BY <1>1, <1>2 DEF OneChain
  <2> QED BY <1>1, <2>1, <2>2 DEF OneChain, WorksOn, Thread
<1>6. Ownership'
  <2>1. \A ev \in queue' :
          /\ ev.conf <= conf \/ Loading(ev.conf)
          /\ ~Untried(ev.conf, ev.name)
          /\ ev.obj = domains[ev.conf][ev.name].obj \/ InProgress(ev.conf, ev.name)
    BY <1>1, <1>2 DEF Ownership
  <2> QED BY <1>1, <2>1 DEF Ownership, Loading, Untried, InProgress, WorksOn, Thread
<1>7. \A d \in Conf, m \in Domain : Pending(d, m) => Pending(d, m)'
  BY <1>1, <1>2 DEF Pending
<1>8. Kept'
  BY <1>1, <1>7 DEF Kept, Live, Loading, Untried, KeptIn, Expects, InProgress, WorksOn
<1>9. \A th \in Thread : HasEvent(th) => HasEvent(th)'
  BY <1>1, <1>2 DEF HasEvent
<1>10. CloneKept'
  BY <1>1, <1>9 DEF CloneKept, Live, Loading
<1>11. Tried' /\ FilterOnlyLoaded' /\ RefreshesCurrent'
  BY <1>1 DEF Tried, FilterOnlyLoaded, RefreshesCurrent, Live, Loading, Untried, WorksOn
<1> QED BY <1>4, <1>5, <1>6, <1>8, <1>10, <1>11

-----------------------------------------------------------------------------
(* The time of the retries *)

\* The sums of the retry periods exist: the recursive function Elapsed(n) is
\* defined by its equation for a list of any length.
LEMMA ElapsedSum ==
  ASSUME NEW n \in Domain
  PROVE  Elapsed(n) = [k \in 0 .. Len(Retries[n]) |->
                          IF k = 0 THEN 0 ELSE Elapsed(n)[k - 1] + Retries[n][k]]
<1> DEFINE R == Retries[n]
           Sums(s, m) == s = [k \in 0 .. m |-> IF k = 0 THEN 0 ELSE s[k - 1] + R[k]]
           T == {m \in Nat : ~\E s : Sums(s, m)}
<1>1. Len(R) \in Nat
  BY RefreshAssumption DEF RefreshAssumption
<1>2. T = {}
  <2> SUFFICES ASSUME T # {} PROVE FALSE
    OBVIOUS
  <2>1. PICK m \in T : \A k \in T : m <= k
    BY LeastNumber
  <2>2. CASE m = 0
    <3>1. Sums([k \in 0 .. 0 |-> 0], 0)
      OBVIOUS
    <3> QED BY <2>1, <2>2, <3>1
  <2>3. CASE m # 0
    <3>1. m - 1 \in Nat /\ m - 1 \notin T
      BY <2>1, <2>3
    <3>2. PICK s : Sums(s, m - 1)
      BY <3>1
    <3> DEFINE u == [k \in 0 .. m |-> IF k = m THEN s[m - 1] + R[m] ELSE s[k]]
    <3>3. \A k \in 0 .. m : u[k] = IF k = 0 THEN 0 ELSE u[k - 1] + R[k]
      <4> SUFFICES ASSUME NEW k \in 0 .. m PROVE u[k] = IF k = 0 THEN 0 ELSE u[k - 1] + R[k]
        OBVIOUS
      <4>1. CASE k = m
        BY <2>1, <2>3, <4>1
      <4>2. CASE k # m
        <5>1. k \in 0 .. m - 1 /\ (k # 0 => k - 1 \in 0 .. m - 1 /\ k - 1 # m)
          BY <2>1, <4>2
        <5>2. s[k] = IF k = 0 THEN 0 ELSE s[k - 1] + R[k]
          BY <3>2, <5>1
        <5> QED BY <2>1, <4>2, <5>1, <5>2
      <4> QED BY <4>1, <4>2
    <3>4. Sums(u, m)
      BY <3>3
    <3> QED BY <2>1, <3>4
  <2> QED BY <2>2, <2>3
<1>3. \E s : Sums(s, Len(R))
  BY <1>1, <1>2
<1>4. Elapsed(n) = CHOOSE s : Sums(s, Len(R))
  BY DEF Elapsed
<1> HIDE DEF Sums
<1>5. Sums(Elapsed(n), Len(R))
  BY <1>3, <1>4
<1> QED BY <1>5 DEF Sums

LEMMA ElapsedStep ==
  ASSUME NEW n \in Domain, NEW k \in 0 .. Len(Retries[n])
  PROVE  /\ k = 0 => Elapsed(n)[k] = 0
         /\ k # 0 => Elapsed(n)[k] = Elapsed(n)[k - 1] + Retries[n][k]
  BY ElapsedSum

\* Nothing was loaded in a configuration that reload() has not come to.
Unstarted ==
    \A c \in Conf, n \in Domain :
        c > nconf \/ Untried(c, n) => domains[c][n].failure_count = -1

\* Time is counted in the periods of the list only.
WaitsInList ==
    \A c \in Conf, n \in Domain :
        domains[c][n].failure_count \notin 1 .. Len(Retries[n]) => waited[c][n] = 0

\* A retry starts when the periods before it have passed.
OnTime(th) ==
    work[th].stage = "load" =>
        LET c == work[th].conf
            n == work[th].name
            k == Count(domains[c][n].failure_count)
        IN k <= Len(Retries[n]) => waited[c][n] = Elapsed(n)[k]

LoadOnTime == \A th \in Thread : OnTime(th)

\* A clone that is not in the map yet is not the object it is going to replace.
NewClone ==
    \A th \in Thread : work[th].stage = "assign" =>
        work[th].clone # domains[work[th].conf][work[th].name].obj

Timed == Unstarted /\ WaitsInList /\ LoadOnTime /\ NewClone /\ RetriesOnSchedule

LEMMA InitTimed == Init => Timed
<1> SUFFICES ASSUME Init PROVE Timed
  OBVIOUS
<1> USE DEF Init
<1>1. Unstarted /\ WaitsInList
  BY DEF Unstarted, WaitsInList, NewDomain
<1>2. LoadOnTime /\ NewClone
  BY DEF LoadOnTime, OnTime, NewClone, NoWork
<1>3. RetriesOnSchedule
  BY DEF RetriesOnSchedule
<1> QED BY <1>1, <1>2, <1>3 DEF Timed

\* What a step has to leave alone to keep the parts that speak of domains only.
LEMMA SameTimed ==
  ASSUME IInv, Timed, UNCHANGED <<domains, waited>>, nconf' \in Int,
         \A c \in Conf, n \in Domain :
            c > nconf' \/ Untried(c, n)' => c > nconf \/ Untried(c, n)
  PROVE  Unstarted' /\ WaitsInList'
  BY DEF Timed, Unstarted, WaitsInList

LEMMA ReloadTimed ==
  ASSUME IInv, Timed,
         ReloadGet \/ ReloadGetFails \/ Publish \/ \E th \in Thread : CloneFails(th)
  PROVE  Timed'
<1>1. UNCHANGED <<domains, waited, queue>>
  BY DEF ReloadGet, ReloadGetFails, Publish, CloneFails
<1>2. \A th \in Thread : work'[th] = work[th] \/ work'[th].stage = "none"
  BY DEF ReloadGet, ReloadGetFails, Publish, CloneFails, EndWork, NoWork, IInv, TypeOK
<1>3. nconf \in Int /\ (nconf' = nconf \/ nconf' = nconf + 1)
  BY DEF ReloadGet, ReloadGetFails, Publish, CloneFails, IInv, TypeOK
<1>4. \A c \in Conf, n \in Domain :
         c > nconf' \/ Untried(c, n)' => c > nconf \/ Untried(c, n)
  BY <1>3 DEF ReloadGet, ReloadGetFails, Publish, CloneFails, Untried, Loading, Conf
<1>5. Unstarted' /\ WaitsInList'
  BY <1>1, <1>3, <1>4, SameTimed
<1>6. LoadOnTime' /\ NewClone' /\ RetriesOnSchedule'
  BY <1>1, <1>2 DEF Timed, LoadOnTime, OnTime, NewClone, RetriesOnSchedule
<1> QED BY <1>5, <1>6 DEF Timed

LEMMA NextDomainTimed ==
  ASSUME IInv, Timed, NEW n \in Domain, NextDomain(n)
  PROVE  Timed'
<1>1. /\ nconf \in Conf /\ Untried(nconf, n) /\ "reload" \in Thread
      /\ UNCHANGED <<conf, nconf, domains, queue, reloader, lost, waited>>
      /\ todo' \subseteq todo
  BY DEF IInv, Ownership, TypeOK, Conf, Untried, Loading, Thread, NextDomain
<1>2. /\ work'["reload"] = [stage |-> "load", conf |-> nconf, name |-> n,
                            self |-> domains[nconf][n].obj]
      /\ \A th \in Thread : th # "reload" => work'[th] = work[th]
  BY <1>1 DEF NextDomain, StartWork, IInv, TypeOK
<1>3. Unstarted' /\ WaitsInList'
  <2>1. \A c \in Conf, m \in Domain : Untried(c, m)' => Untried(c, m)
    BY <1>1 DEF Untried, Loading
  <2> QED BY <1>1, <2>1, SameTimed DEF Conf
<1>4. domains[nconf][n].failure_count = -1
  BY <1>1 DEF Timed, Unstarted
<1>5. Count(domains[nconf][n].failure_count) = 0 /\ waited[nconf][n] = 0
  BY <1>1, <1>4 DEF Timed, WaitsInList, Count
<1>6. Elapsed(n)[0] = 0
  <2>1. 0 \in 0 .. Len(Retries[n])
    BY RefreshAssumption DEF RefreshAssumption
  <2> QED BY <2>1, ElapsedStep
<1>7. LoadOnTime'
  <2>1. OnTime("reload")'
    BY <1>1, <1>2, <1>5, <1>6 DEF OnTime
  <2>2. \A th \in Thread : th # "reload" => OnTime(th)'
    BY <1>1, <1>2 DEF Timed, LoadOnTime, OnTime
  <2> QED BY <2>1, <2>2 DEF LoadOnTime
<1>8. NewClone'
  BY <1>1, <1>2 DEF Timed, NewClone
<1>9. RetriesOnSchedule'
  BY <1>1 DEF Timed, RetriesOnSchedule
<1> QED BY <1>3, <1>7, <1>8, <1>9 DEF Timed

LEMMA LoadFailsTimed ==
  ASSUME IInv, Timed, NEW th \in Thread, LoadFails(th)
  PROVE  Timed'
<1>1. work[th].stage = "load" /\ work[th].stage # "none"
  BY DEF LoadFails
<1>2. PICK c \in Conf, n \in Domain, o \in Object :
        c = work[th].conf /\ n = work[th].name /\ o = work[th].self
  BY <1>1, WorkType DEF IInv
<1>3. ~Untried(c, n) /\ c <= nconf /\ \A oth \in Thread : oth # th => ~WorksOn(oth, c, n)
  <2>1. ~Untried(c, n) /\ (Live(c) \/ c < conf) /\ \A oth \in Thread : oth # th => ~WorksOn(oth, c, n)
    BY <1>1, <1>2, OthersWork
  <2>2. conf <= nconf /\ conf \in Int /\ nconf \in Int
    BY DEF IInv, Ownership, TypeOK
  <2> QED BY <2>1, <2>2 DEF Live, Loading, Conf
<1>4. domains[c][n].failure_count \in FailureCount /\ waited[c][n] \in Nat
  BY DEF IInv, TypeOK
<1>5. PICK cnt \in 0 .. ShortMax : cnt = Count(domains[c][n].failure_count)
  BY <1>4, CountType
<1>6. /\ Failed(cnt) \in FailureCount
      /\ Failed(cnt) > 0 => Failed(cnt) = cnt + 1
      /\ Failed(cnt) # -1
  BY <1>4, <1>5, CountType
<1>7. Len(Retries[n]) \in Nat /\ Retries[n] \in Seq(Nat \ {0})
  BY RefreshAssumption DEF RefreshAssumption
<1>8. /\ domains' = [domains EXCEPT ![c][n].failure_count = Failed(cnt)]
      /\ queue' = queue \cup Scheduled(c, n, o, Delay(n, cnt))
      /\ waited' = [waited EXCEPT ![c][n] =
                       IF Failed(cnt) \in 1 .. Len(Retries[n]) THEN @ ELSE 0]
      /\ UNCHANGED <<nconf, reloader, todo>>
  BY <1>2, <1>5 DEF LoadFails
<1>9. /\ domains'[c][n].failure_count = Failed(cnt)
      /\ waited'[c][n] = IF Failed(cnt) \in 1 .. Len(Retries[n]) THEN waited[c][n] ELSE 0
      /\ \A d \in Conf, m \in Domain : ~(d = c /\ m = n) =>
            domains'[d][m] = domains[d][m] /\ waited'[d][m] = waited[d][m]
      /\ \A d \in Conf, m \in Domain : domains'[d][m].obj = domains[d][m].obj
  BY <1>8 DEF IInv, TypeOK
<1>10. /\ work'[th].stage = "none"
       /\ \A oth \in Thread : oth # th => work'[oth] = work[oth]
  BY DEF LoadFails, EndWork, IInv, TypeOK, NoWork
<1>11. Unstarted'
  BY <1>3, <1>8, <1>9 DEF Timed, Unstarted, Untried, Loading, Conf, IInv, TypeOK
<1>12. WaitsInList'
  BY <1>9 DEF Timed, WaitsInList
<1>13. \A oth \in Thread : work'[oth].stage # "none" =>
         /\ work'[oth] = work[oth]
         /\ work[oth].conf \in Conf /\ work[oth].name \in Domain
         /\ ~(work[oth].conf = c /\ work[oth].name = n)
  BY <1>3, <1>10, WorkType DEF IInv, WorksOn
<1>14. LoadOnTime' /\ NewClone'
  <2>1. ASSUME NEW oth \in Thread, work'[oth].stage # "none"
        PROVE  /\ work'[oth] = work[oth]
               /\ domains'[work[oth].conf][work[oth].name] = domains[work[oth].conf][work[oth].name]
               /\ waited'[work[oth].conf][work[oth].name] = waited[work[oth].conf][work[oth].name]
    BY <1>9, <1>13, <2>1
  <2>2. LoadOnTime'
    <3> SUFFICES ASSUME NEW oth \in Thread, work'[oth].stage = "load" PROVE OnTime(oth)'
      BY DEF LoadOnTime, OnTime
    <3>1. /\ work'[oth] = work[oth]
          /\ domains'[work[oth].conf][work[oth].name] = domains[work[oth].conf][work[oth].name]
          /\ waited'[work[oth].conf][work[oth].name] = waited[work[oth].conf][work[oth].name]
      BY <2>1
    <3>2. OnTime(oth)
      BY DEF Timed, LoadOnTime
    <3> QED BY <3>1, <3>2 DEF OnTime
  <2>3. NewClone'
    BY <2>1 DEF Timed, NewClone
  <2> QED BY <2>2, <2>3
<1>15. Failed(cnt) \in 1 .. Len(Retries[n]) =>
         /\ Delay(n, cnt) = Retries[n][cnt + 1]
         /\ waited[c][n] + Delay(n, cnt) = Elapsed(n)[cnt + 1]
  <2> SUFFICES ASSUME Failed(cnt) \in 1 .. Len(Retries[n])
               PROVE  /\ Delay(n, cnt) = Retries[n][cnt + 1]
                      /\ waited[c][n] + Delay(n, cnt) = Elapsed(n)[cnt + 1]
    OBVIOUS
  <2>1. cnt < Len(Retries[n]) /\ Failed(cnt) = cnt + 1
    BY <1>6, <1>7
  <2>2. waited[c][n] = Elapsed(n)[cnt]
    <3>1. cnt <= Len(Retries[n])
      BY <1>7, <2>1
    <3> QED BY <1>1, <1>2, <1>5, <3>1 DEF Timed, LoadOnTime, OnTime
  <2>3. cnt + 1 \in 0 .. Len(Retries[n]) /\ cnt + 1 # 0 /\ (cnt + 1) - 1 = cnt
    BY <1>7, <2>1
  <2>4. Elapsed(n)[cnt + 1] = Elapsed(n)[cnt] + Retries[n][cnt + 1]
    BY <2>3, ElapsedStep
  <2> QED BY <2>1, <2>2, <2>4 DEF Delay
<1>16. RetriesOnSchedule'
  <2> SUFFICES ASSUME NEW ev \in queue',
                      ev.obj = domains'[ev.conf][ev.name].obj,
                      domains'[ev.conf][ev.name].failure_count \in 1 .. Len(Retries[ev.name])
               PROVE  waited'[ev.conf][ev.name] + ev.left
                        = Elapsed(ev.name)[domains'[ev.conf][ev.name].failure_count]
    BY DEF RetriesOnSchedule
  <2>1. CASE ev \in queue
    <3>1. ev.conf \in Conf /\ ev.name \in Domain /\ ~(ev.conf = c /\ ev.name = n)
      BY <1>1, <1>2, <2>1 DEF IInv, TypeOK, Events, OneChain, WorksOn
    <3> QED BY <1>9, <2>1, <3>1 DEF Timed, RetriesOnSchedule
  <2>2. CASE ev \notin queue
    <3>1. ev.conf = c /\ ev.name = n /\ ev.left = Delay(n, cnt)
      BY <1>8, <2>2 DEF Scheduled, Event
    <3> QED BY <1>6, <1>7, <1>9, <1>15, <3>1
  <2> QED BY <2>1, <2>2
<1> QED BY <1>11, <1>12, <1>14, <1>16 DEF Timed

LEMMA LoadOkTimed ==
  ASSUME IInv, Timed, NEW th \in Thread, LoadOk(th)
  PROVE  Timed'
<1>1. work[th].stage = "load" /\ work[th].stage # "none"
  BY DEF LoadOk
<1>2. PICK c \in Conf, n \in Domain : c = work[th].conf /\ n = work[th].name
  BY <1>1, WorkType DEF IInv
<1>3. PICK o : o = Fresh(c, n)
  OBVIOUS
<1>4. /\ queue' = queue \cup Scheduled(c, n, o, RefreshSec[n])
      /\ UNCHANGED <<conf, nconf, domains, reloader, todo, lost, waited>>
  BY <1>2, <1>3 DEF LoadOk
<1>5. o # domains[c][n].obj
  <2>1. \A ev \in queue : ~(ev.conf = c /\ ev.name = n)
    BY <1>1, <1>2 DEF IInv, OneChain, WorksOn
  <2>2. domains[c][n].obj \in Object
    BY DEF IInv, TypeOK
  <2>3. \E p \in Object : /\ p # domains[c][n].obj
                          /\ \A ev \in queue : ev.conf = c /\ ev.name = n => ev.obj # p
    BY <2>1, <2>2, RefreshAssumption DEF RefreshAssumption
  <2> QED BY <1>3, <2>3 DEF Fresh
<1>6. /\ work'[th] = [stage |-> "assign", conf |-> c, name |-> n,
                      self |-> work[th].self, clone |-> o]
      /\ \A oth \in Thread : oth # th => work'[oth] = work[oth]
  BY <1>2, <1>3 DEF LoadOk, IInv, TypeOK
<1>7. Unstarted' /\ WaitsInList'
  BY <1>4, SameTimed DEF Untried, Loading, IInv, TypeOK
<1>8. LoadOnTime'
  <2>1. OnTime(th)'
    BY <1>6 DEF OnTime
  <2>2. \A oth \in Thread : oth # th => OnTime(oth)'
    BY <1>4, <1>6 DEF Timed, LoadOnTime, OnTime
  <2> QED BY <2>1, <2>2 DEF LoadOnTime
<1>9. NewClone'
  BY <1>4, <1>5, <1>6 DEF Timed, NewClone
<1>10. RetriesOnSchedule'
  <2>1. \A ev \in queue' : ev \in queue \/ (ev.conf = c /\ ev.name = n /\ ev.obj = o)
    BY <1>4 DEF Scheduled, Event
  <2>2. \A ev \in queue' : ev.obj = domains[ev.conf][ev.name].obj => ev \in queue
    BY <1>5, <2>1
  <2> QED BY <1>4, <2>2 DEF Timed, RetriesOnSchedule
<1> QED BY <1>7, <1>8, <1>9, <1>10 DEF Timed

LEMMA AssignTimed ==
  ASSUME IInv, Timed, NEW th \in Thread, Assign(th)
  PROVE  Timed'
<1>1. work[th].stage = "assign" /\ work[th].stage # "none"
  BY DEF Assign
<1>2. PICK c \in Conf, n \in Domain, o \in Object :
        c = work[th].conf /\ n = work[th].name /\ o = work[th].clone
  BY <1>1, WorkType DEF IInv
<1>3. ~Untried(c, n) /\ c <= nconf /\ \A oth \in Thread : oth # th => ~WorksOn(oth, c, n)
  <2>1. ~Untried(c, n) /\ (Live(c) \/ c < conf) /\ \A oth \in Thread : oth # th => ~WorksOn(oth, c, n)
    BY <1>1, <1>2, OthersWork
  <2>2. conf <= nconf /\ conf \in Int /\ nconf \in Int
    BY DEF IInv, Ownership, TypeOK
  <2> QED BY <2>1, <2>2 DEF Live, Loading, Conf
<1>4. /\ domains' = [domains EXCEPT ![c][n] =
                        [obj |-> o, failure_count |-> 0, loaded |-> TRUE]]
      /\ waited' = [waited EXCEPT ![c][n] = 0]
      /\ UNCHANGED <<conf, nconf, queue, reloader, todo, lost>>
  BY <1>2 DEF Assign
<1>5. /\ domains'[c][n].failure_count = 0
      /\ waited'[c][n] = 0
      /\ \A d \in Conf, m \in Domain : ~(d = c /\ m = n) =>
            domains'[d][m] = domains[d][m] /\ waited'[d][m] = waited[d][m]
  BY <1>4 DEF IInv, TypeOK
<1>6. /\ work'[th].stage = "none"
      /\ \A oth \in Thread : oth # th => work'[oth] = work[oth]
  BY DEF Assign, EndWork, IInv, TypeOK, NoWork
<1>7. Unstarted'
  BY <1>3, <1>4, <1>5 DEF Timed, Unstarted, Untried, Loading, Conf, IInv, TypeOK
<1>8. WaitsInList'
  BY <1>5 DEF Timed, WaitsInList
<1>9. \A oth \in Thread : work'[oth].stage # "none" =>
         /\ work'[oth] = work[oth]
         /\ work[oth].conf \in Conf /\ work[oth].name \in Domain
         /\ ~(work[oth].conf = c /\ work[oth].name = n)
  BY <1>3, <1>6, WorkType DEF IInv, WorksOn
<1>10. LoadOnTime' /\ NewClone'
  BY <1>5, <1>9 DEF Timed, LoadOnTime, OnTime, NewClone
<1>11. RetriesOnSchedule'
  <2>1. \A ev \in queue : ev.conf \in Conf /\ ev.name \in Domain
    BY DEF IInv, TypeOK, Events
  <2>2. 0 \notin 1 .. Len(Retries[n])
    OBVIOUS
  <2> SUFFICES ASSUME NEW ev \in queue,
                      ev.obj = domains'[ev.conf][ev.name].obj,
                      domains'[ev.conf][ev.name].failure_count \in 1 .. Len(Retries[ev.name])
               PROVE  waited'[ev.conf][ev.name] + ev.left
                         = Elapsed(ev.name)[domains'[ev.conf][ev.name].failure_count]
    BY <1>4 DEF RetriesOnSchedule
  <2>3. ~(ev.conf = c /\ ev.name = n)
    BY <1>5, <2>2
  <2>4. /\ domains'[ev.conf][ev.name] = domains[ev.conf][ev.name]
        /\ waited'[ev.conf][ev.name] = waited[ev.conf][ev.name]
    BY <1>5, <2>1, <2>3
  <2> QED BY <2>4 DEF Timed, RetriesOnSchedule
<1> QED BY <1>7, <1>8, <1>10, <1>11 DEF Timed

LEMMA FireOutdatedTimed ==
  ASSUME IInv, Timed, NEW ev \in queue, FireOutdated(ev)
  PROVE  Timed'
<1>1. /\ queue' \subseteq queue
      /\ UNCHANGED <<conf, nconf, domains, reloader, todo, work, waited>>
  BY DEF FireOutdated
<1>2. Unstarted' /\ WaitsInList'
  BY <1>1, SameTimed DEF Untried, Loading, IInv, TypeOK
<1>3. LoadOnTime' /\ NewClone' /\ RetriesOnSchedule'
  BY <1>1 DEF Timed, LoadOnTime, OnTime, NewClone, RetriesOnSchedule
<1> QED BY <1>2, <1>3 DEF Timed

LEMMA FireCurrentTimed ==
  ASSUME IInv, Timed, NEW ev \in queue, FireCurrent(ev)
  PROVE  Timed'
<1>1. PICK c \in Conf, n \in Domain : c = ev.conf /\ n = ev.name
  BY DEF IInv, TypeOK, Events
<1>2. /\ ev.obj = domains[c][n].obj /\ ev.left = 0
      /\ queue' \subseteq queue
      /\ UNCHANGED <<conf, nconf, domains, reloader, todo, lost, waited>>
  BY <1>1 DEF FireCurrent, Current, Due
<1>3. /\ work'["sched"] = [stage |-> "load", conf |-> c, name |-> n, self |-> ev.obj]
      /\ \A th \in Thread : th # "sched" => work'[th] = work[th]
  BY <1>1 DEF FireCurrent, StartWork, IInv, TypeOK, Thread
<1>4. Unstarted' /\ WaitsInList'
  BY <1>2, SameTimed DEF Untried, Loading, IInv, TypeOK
<1>5. Count(domains[c][n].failure_count) <= Len(Retries[n]) =>
        waited[c][n] = Elapsed(n)[Count(domains[c][n].failure_count)]
  <2> DEFINE fc == domains[c][n].failure_count
  <2>1. fc \in Int /\ waited[c][n] \in Nat /\ Len(Retries[n]) \in Nat
    BY RefreshAssumption DEF RefreshAssumption, IInv, TypeOK, FailureCount
  <2>2. CASE fc \in 1 .. Len(Retries[n])
    <3>1. waited[c][n] + ev.left = Elapsed(n)[fc]
      BY <1>1, <1>2, <2>2 DEF Timed, RetriesOnSchedule
    <3> QED BY <1>2, <2>1, <2>2, <3>1 DEF Count
  <2>3. CASE fc <= 0
    <3>1. Count(fc) = 0 /\ waited[c][n] = 0
      BY <2>1, <2>3 DEF Count, Timed, WaitsInList
    <3>2. Elapsed(n)[0] = 0
      BY <2>1, ElapsedStep
    <3> QED BY <3>1, <3>2
  <2>4. CASE fc > Len(Retries[n])
    BY <2>1, <2>4 DEF Count
  <2> QED BY <2>1, <2>2, <2>3, <2>4
<1>6. LoadOnTime'
  <2>1. OnTime("sched")'
    BY <1>2, <1>3, <1>5 DEF OnTime
  <2>2. \A th \in Thread : th # "sched" => OnTime(th)'
    BY <1>2, <1>3 DEF Timed, LoadOnTime, OnTime
  <2> QED BY <2>1, <2>2 DEF LoadOnTime
<1>7. NewClone'
  BY <1>2, <1>3 DEF Timed, NewClone
<1>8. RetriesOnSchedule'
  BY <1>2 DEF Timed, RetriesOnSchedule
<1> QED BY <1>4, <1>6, <1>7, <1>8 DEF Timed

LEMMA TickTimed ==
  ASSUME IInv, Timed, Tick
  PROVE  Timed'
<1> DEFINE Later(ev) == [ev EXCEPT !.left = IF @ > 0 THEN @ - 1 ELSE 0]
           Counts(c, n) ==
              /\ domains[c][n].failure_count \in 1 .. Len(Retries[n])
              /\ \E ev \in queue : ev.conf = c /\ ev.name = n /\ ev.left > 0
              /\ \A th \in Thread : ~WorksOn(th, c, n)
<1>1. /\ queue' = {Later(ev) : ev \in queue}
      /\ UNCHANGED <<conf, nconf, domains, reloader, todo, work, lost>>
  BY DEF Tick
<1>2. \A c \in Conf, n \in Domain :
        waited'[c][n] = IF Counts(c, n) THEN waited[c][n] + 1 ELSE waited[c][n]
  BY DEF Tick, WorksOn
<1>3. \A ev \in queue : /\ ev.conf \in Conf /\ ev.name \in Domain /\ ev.left \in Nat
                        /\ Later(ev).left = IF ev.left > 0 THEN ev.left - 1 ELSE 0
                        /\ Later(ev).conf = ev.conf
                        /\ Later(ev).name = ev.name
                        /\ Later(ev).obj = ev.obj
  BY DEF IInv, TypeOK, Events
<1> HIDE DEF Later
<1>4. Unstarted' /\ WaitsInList'
  BY <1>1, <1>2 DEF Timed, Unstarted, WaitsInList, Untried, Loading
<1>5. LoadOnTime'
  <2> SUFFICES ASSUME NEW th \in Thread, work[th].stage = "load"
               PROVE  waited'[work[th].conf][work[th].name] = waited[work[th].conf][work[th].name]
    BY <1>1 DEF Timed, LoadOnTime, OnTime
  <2>1. work[th].conf \in Conf /\ work[th].name \in Domain
    BY WorkType DEF IInv
  <2>2. ~Counts(work[th].conf, work[th].name)
    BY DEF WorksOn
  <2> QED BY <1>2, <2>1, <2>2
<1>6. NewClone'
  BY <1>1 DEF Timed, NewClone
<1>7. ASSUME NEW ev \in queue,
             ev.obj = domains[ev.conf][ev.name].obj,
             domains[ev.conf][ev.name].failure_count \in 1 .. Len(Retries[ev.name])
      PROVE  waited'[ev.conf][ev.name] + Later(ev).left = waited[ev.conf][ev.name] + ev.left
  <2>1. waited[ev.conf][ev.name] \in Nat
    BY <1>3 DEF IInv, TypeOK
  <2>2. CASE ev.left > 0
    <3>1. \A th \in Thread : ~WorksOn(th, ev.conf, ev.name)
      <4> SUFFICES ASSUME NEW th \in Thread, WorksOn(th, ev.conf, ev.name) PROVE FALSE
        OBVIOUS
      <4>1. work[th].stage = "assign" /\ ev.obj = work[th].clone
        BY DEF IInv, OneChain
      <4> QED BY <1>7, <4>1 DEF Timed, NewClone, WorksOn
    <3>2. Counts(ev.conf, ev.name)
      BY <1>7, <2>2, <3>1
    <3>3. waited'[ev.conf][ev.name] = waited[ev.conf][ev.name] + 1
      BY <1>2, <1>3, <3>2
    <3>4. Later(ev).left = ev.left - 1 /\ ev.left \in Nat
      BY <1>3, <2>2
    <3> QED BY <2>1, <3>3, <3>4
  <2>3. CASE ev.left = 0
    <3>1. \A e \in queue : e.conf = ev.conf /\ e.name = ev.name => e.left = 0
      BY <2>3 DEF IInv, OneChain
    <3>2. ~Counts(ev.conf, ev.name)
      BY <3>1
    <3> QED BY <1>2, <1>3, <2>3, <3>2
  <2> QED BY <1>3, <2>2, <2>3
<1>8. RetriesOnSchedule'
  <2> SUFFICES ASSUME NEW ev \in queue,
                      Later(ev).obj = domains[ev.conf][ev.name].obj,
                      domains[ev.conf][ev.name].failure_count \in 1 .. Len(Retries[ev.name])
               PROVE  waited'[ev.conf][ev.name] + Later(ev).left
                         = Elapsed(ev.name)[domains[ev.conf][ev.name].failure_count]
    BY <1>1, <1>3 DEF RetriesOnSchedule
  <2>1. ev.obj = domains[ev.conf][ev.name].obj
    BY <1>3
  <2>2. waited[ev.conf][ev.name] + ev.left
           = Elapsed(ev.name)[domains[ev.conf][ev.name].failure_count]
    BY <2>1 DEF Timed, RetriesOnSchedule
  <2> QED BY <1>7, <2>1, <2>2
<1> QED BY <1>4, <1>5, <1>6, <1>8 DEF Timed

LEMMA StepTimed == IInv /\ Timed /\ [Next]_vars => Timed'
<1> SUFFICES ASSUME IInv, Timed, [Next]_vars PROVE Timed'
  OBVIOUS
<1>1. CASE ReloadGet \/ ReloadGetFails \/ Publish \/ \E th \in Thread : CloneFails(th)
  BY <1>1, ReloadTimed
<1>2. ASSUME NEW th \in Thread, LoadFails(th) PROVE Timed'
  BY <1>2, LoadFailsTimed
<1>3. ASSUME NEW th \in Thread, LoadOk(th) PROVE Timed'
  BY <1>3, LoadOkTimed
<1>4. ASSUME NEW th \in Thread, Assign(th) PROVE Timed'
  BY <1>4, AssignTimed
<1>5. ASSUME NEW n \in Domain, NextDomain(n) PROVE Timed'
  BY <1>5, NextDomainTimed
<1>6. ASSUME NEW ev \in queue, FireOutdated(ev) PROVE Timed'
  BY <1>6, FireOutdatedTimed
<1>7. ASSUME NEW ev \in queue, FireCurrent(ev) PROVE Timed'
  BY <1>7, FireCurrentTimed
<1>8. CASE Tick
  BY <1>8, TickTimed
<1>9. CASE UNCHANGED vars
  BY <1>9 DEF vars, Timed, Unstarted, WaitsInList, LoadOnTime, OnTime, NewClone, RetriesOnSchedule,
     Untried, Loading
<1> QED BY <1>1, <1>2, <1>3, <1>4, <1>5, <1>6, <1>7, <1>8, <1>9 DEF Next

-----------------------------------------------------------------------------
(* The theorems *)

LEMMA StepInv == IInv /\ [Next]_vars => IInv'
<1> SUFFICES ASSUME IInv, [Next]_vars PROVE IInv'
  OBVIOUS
<1>1. ASSUME NEW th \in Thread, CloneFails(th) PROVE IInv'
  BY <1>1, CloneFailsInv
<1>2. ASSUME NEW th \in Thread, LoadFails(th) PROVE IInv'
  BY <1>2, LoadFailsInv
<1>3. ASSUME NEW th \in Thread, LoadOk(th) PROVE IInv'
  BY <1>3, LoadOkInv
<1>4. ASSUME NEW th \in Thread, Assign(th) PROVE IInv'
  BY <1>4, AssignInv
<1>5. CASE ReloadGet
  BY <1>5, ReloadGetInv
<1>6. CASE ReloadGetFails
  BY <1>6, ReloadGetFailsInv
<1>7. ASSUME NEW n \in Domain, NextDomain(n) PROVE IInv'
  BY <1>7, NextDomainInv
<1>8. CASE Publish
  BY <1>8, PublishInv
<1>9. ASSUME NEW ev \in queue, FireOutdated(ev) PROVE IInv'
  BY <1>9, FireOutdatedInv
<1>10. ASSUME NEW ev \in queue, FireCurrent(ev) PROVE IInv'
  BY <1>10, FireCurrentInv
<1>11. CASE Tick
  BY <1>11, TickInv
<1>12. CASE UNCHANGED vars
  <2>1. TypeOK' /\ OneChain' /\ FilterOnlyLoaded' /\ RefreshesCurrent'
    BY <1>12 DEF vars, IInv, TypeOK, OneChain, FilterOnlyLoaded, RefreshesCurrent, WorksOn
  <2>2. Ownership'
    BY <1>12 DEF vars, IInv, Ownership, Loading, Untried, InProgress, WorksOn
  <2>3. Kept' /\ Tried'
    BY <1>12 DEF vars, IInv, Kept, Tried, Live, Loading, Untried, KeptIn, Expects, Pending,
       InProgress, WorksOn
  <2>4. CloneKept'
    BY <1>12 DEF vars, IInv, CloneKept, Live, Loading, HasEvent
  <2> QED BY <2>1, <2>2, <2>3, <2>4 DEF IInv
<1> QED BY <1>1, <1>2, <1>3, <1>4, <1>5, <1>6, <1>7, <1>8, <1>9, <1>10, <1>11, <1>12 DEF Next

LEMMA Invariance == Spec => []IInv
  BY InitInv, StepInv, PTL DEF Spec

\* The types of Refresh hold in every reachable state.
THEOREM Typing == Spec => []TypeOK
  BY Invariance, PTL DEF IInv

\* Each domain has at most one event and at most one refresh at a time, whatever
\* reloads, failures and delays: refreshes never multiply.
THEOREM SingleChain == Spec => []OneChain
  BY Invariance, PTL DEF IInv

\* A domain never filters with anything but a complete list of addresses.
THEOREM LoadedBeforeFiltering == Spec => []FilterOnlyLoaded
  BY Invariance, PTL DEF IInv

\* The chain of refreshes and retries of every published domain goes on, unless
\* an event was due before publication or a copy failed: there is no third way
\* to lose it.
THEOREM ChainsKept == Spec => []ChainKept
<1>1. IInv => ChainKept
  <2> SUFFICES ASSUME IInv, conf # 0, NEW n \in Domain
               PROVE  KeptIn(conf, n)
    BY DEF ChainKept, KeptIn
  <2>1. conf \in Conf /\ Live(conf) /\ ~Untried(conf, n)
    BY DEF IInv, TypeOK, Conf, Live, Untried, Loading, Ownership
  <2> QED BY <2>1 DEF IInv, Kept
<1> QED BY <1>1, Invariance, PTL

\* A published configuration was tried as a whole.
THEOREM TriedBeforePublication == Spec => []PublishedTried
<1>1. IInv => PublishedTried
  <2> SUFFICES ASSUME IInv, conf # 0, NEW n \in Domain, domains[conf][n].failure_count = -1
               PROVE  <<conf, n>> \in lost
    BY DEF PublishedTried
  <2>1. conf \in Conf /\ Live(conf) /\ ~Untried(conf, n)
    BY DEF IInv, TypeOK, Conf, Live, Untried, Loading, Ownership
  <2>2. ~WorksOn("reload", conf, n)
    BY DEF IInv, TypeOK, WorksOn, Loading, Ownership
  <2> QED BY <2>1, <2>2 DEF IInv, Tried
<1> QED BY <1>1, Invariance, PTL

\* The object that a refresh was started for stays in the map until the refresh
\* replaces it: no result of an older refresh overwrites a newer one.
THEOREM RefreshesStayCurrent == Spec => []RefreshesCurrent
  BY Invariance, PTL DEF IInv

\* With the two invariants together, what the theorems below need of a step.
LEMMA TimedInvariance == Spec => [](IInv /\ Timed)
<1>1. Init => IInv /\ Timed
  BY InitInv, InitTimed
<1>2. IInv /\ Timed /\ [Next]_vars => (IInv /\ Timed)'
  BY StepInv, StepTimed
<1> QED BY <1>1, <1>2, PTL DEF Spec

\* A retry follows the initial failure by the sum of the retry periods up to its
\* own, whatever reloads and loads come between, for lists of any length: no
\* period is skipped or used twice.
THEOREM RetriesTimed == Spec => []RetriesOnSchedule
<1>1. IInv /\ Timed => RetriesOnSchedule
  BY DEF Timed
<1> QED BY <1>1, TimedInvariance, PTL

-----------------------------------------------------------------------------
(* Refinement *)

LEMMA InitMaps == Init => Service!Init
<1> SUFFICES ASSUME Init PROVE Service!Init
  OBVIOUS
<1> USE DEF Init
<1>1. Draft = 0 /\ Outstanding = {} /\ Renewing = {}
  BY DEF Draft, Outstanding, Renewing, WorksOn, NoWork, Thread
<1>2. Data = [c \in Conf |-> Service!Untouched]
  BY DEF Data, Seen, NewDomain, Service!Untouched
<1> QED BY <1>1, <1>2 DEF Service!Init

\* The domain that the timer thread works on is the one that is renewed.
LEMMA RenewingOne ==
  ASSUME IInv
  PROVE  /\ work["sched"].stage = "none" => Renewing = {}
         /\ work["sched"].stage # "none" => Renewing = {<<work["sched"].conf, work["sched"].name>>}
<1>1. work["sched"].stage = "none" => Renewing = {}
  BY DEF Renewing, WorksOn
<1>2. ASSUME work["sched"].stage # "none"
      PROVE  Renewing = {<<work["sched"].conf, work["sched"].name>>}
  <2>1. work["sched"].conf \in Conf /\ work["sched"].name \in Domain
    BY <1>2, WorkType DEF IInv, Thread
  <2> QED BY <1>2, <2>1 DEF Renewing, WorksOn
<1> QED BY <1>1, <1>2

\* The domain that the reloading thread works on counts as outstanding.
LEMMA OutstandingOne ==
  ASSUME IInv
  PROVE  /\ work["reload"].stage = "none" => Outstanding = todo
         /\ work["reload"].stage # "none" =>
               /\ reloader = "loop" /\ work["reload"].conf = nconf
               /\ work["reload"].name \in Domain \ todo
               /\ Outstanding = todo \cup {work["reload"].name}
<1>1. work["reload"].stage = "none" => Outstanding = todo
  BY DEF Outstanding, WorksOn
<1>2. ASSUME work["reload"].stage # "none"
      PROVE  /\ reloader = "loop" /\ work["reload"].conf = nconf
             /\ work["reload"].name \in Domain \ todo
  BY <1>2, WorkType DEF IInv, Ownership, Loading, Thread
<1>3. ASSUME work["reload"].stage # "none"
      PROVE  Outstanding = todo \cup {work["reload"].name}
  BY <1>2, <1>3 DEF Outstanding, WorksOn
<1> QED BY <1>1, <1>2, <1>3

\* A step that changes one domain changes what is seen of that domain only.
LEMMA DataStep ==
  ASSUME TypeOK, NEW c \in Conf, NEW n \in Domain, NEW d,
         domains' = [domains EXCEPT ![c][n] = d]
  PROVE  Data' = [Data EXCEPT ![c][n] = Seen(d.failure_count)]
<1>1. /\ domains'[c][n] = d
      /\ \A b \in Conf, m \in Domain : ~(b = c /\ m = n) => domains'[b][m] = domains[b][m]
  BY DEF TypeOK
<1> DEFINE row(b) == [m \in Domain |-> Seen(domains[b][m].failure_count)]
<1>2. \A b \in Conf : b # c => row(b)' = row(b)
  BY <1>1
<1>3. row(c)' = [row(c) EXCEPT ![n] = Seen(d.failure_count)]
  <2>1. \A m \in Domain : domains'[c][m] = IF m = n THEN d ELSE domains[c][m]
    BY <1>1
  <2>2. row(c)' = [m \in Domain |-> Seen(IF m = n THEN d.failure_count ELSE domains[c][m].failure_count)]
    BY <2>1
  <2> QED BY <2>2
<1>4. Data = [b \in Conf |-> row(b)] /\ Data' = [b \in Conf |-> row(b)']
  BY DEF Data
<1> HIDE DEF row
<1>5. [b \in Conf |-> row(b)'] = [[b \in Conf |-> row(b)] EXCEPT ![c] = row(c)']
  BY <1>2
<1> QED BY <1>3, <1>4, <1>5

\* The call of refresh() ends, with a list, without one, or by an exception: an
\* attempt ends, that of a draft or that of the timer.
LEMMA EndMaps ==
  ASSUME IInv, NEW th \in Thread, work[th].stage # "none", EndWork(th),
         UNCHANGED <<conf, nconf, reloader, todo>>,
         Service!Attempted(work[th].conf, work[th].name)
  PROVE  Service!Next
<1> DEFINE c == work[th].conf
           n == work[th].name
<1>1. c \in Conf /\ n \in Domain
  BY WorkType DEF IInv
<1>2. /\ work'[th].stage = "none"
      /\ \A oth \in Thread : oth # th => work'[oth] = work[oth]
  BY DEF EndWork, NoWork, IInv, TypeOK
<1>3. UNCHANGED <<conf, Draft>>
  BY DEF Draft
<1>4. CASE th = "reload"
  <2>1. Draft = c /\ Draft # 0 /\ Outstanding = todo \cup {n} /\ n \notin todo
    BY <1>1, <1>4, OutstandingOne DEF Draft, Conf
  <2>2. Outstanding' = todo
    BY <1>2, <1>4 DEF Outstanding, WorksOn
  <2>3. UNCHANGED Renewing
    BY <1>2, <1>4 DEF Renewing, WorksOn, Thread
  <2>4. Service!Try(n)
    BY <1>3, <2>1, <2>2, <2>3 DEF Service!Try
  <2> QED BY <1>1, <2>4 DEF Service!Next
<1>5. CASE th = "sched"
  <2>1. Renewing = {<<c, n>>}
    BY <1>5, RenewingOne
  <2>2. Renewing' = {}
    BY <1>2, <1>5 DEF Renewing, WorksOn
  <2>3. UNCHANGED Outstanding
    BY <1>2, <1>5 DEF Outstanding, WorksOn, Thread
  <2>4. Service!Renewed(c, n)
    BY <1>3, <2>1, <2>2, <2>3 DEF Service!Renewed
  <2> QED BY <1>1, <2>4 DEF Service!Next
<1> QED BY <1>4, <1>5 DEF Thread

LEMMA CloneFailsMaps ==
  ASSUME IInv, NEW th \in Thread, CloneFails(th)
  PROVE  Service!Next
<1>1. Service!Attempted(work[th].conf, work[th].name)
  BY DEF CloneFails, Service!Attempted, Data
<1> QED BY <1>1, EndMaps DEF CloneFails

\* A failure is never seen as anything else: the count is at least 1 then, or it
\* wrapped to the least short, but is not -1.
LEMMA LoadFailsMaps ==
  ASSUME IInv, NEW th \in Thread, LoadFails(th)
  PROVE  Service!Next
<1>1. PICK c \in Conf, n \in Domain : c = work[th].conf /\ n = work[th].name
  BY WorkType DEF LoadFails, IInv
<1> DEFINE fc == domains[c][n].failure_count
           d == [domains[c][n] EXCEPT !.failure_count = Failed(Count(fc))]
<1>2. fc \in FailureCount /\ domains[c][n] \in [obj : Object, failure_count : FailureCount, loaded : BOOLEAN]
  BY DEF IInv, TypeOK
<1>3. Seen(d.failure_count) = "failed"
  BY <1>2, CountType DEF Seen
<1>4. domains' = [domains EXCEPT ![c][n] = d]
  BY <1>1 DEF LoadFails
<1>5. Data' = [Data EXCEPT ![c][n] = "failed"]
  BY <1>3, <1>4, DataStep DEF IInv
<1> QED BY <1>1, <1>5, EndMaps DEF LoadFails, Service!Attempted

LEMMA AssignMaps ==
  ASSUME IInv, NEW th \in Thread, Assign(th)
  PROVE  Service!Next
<1>1. PICK c \in Conf, n \in Domain : c = work[th].conf /\ n = work[th].name
  BY WorkType DEF Assign, IInv
<1> DEFINE d == [obj |-> work[th].clone, failure_count |-> 0, loaded |-> TRUE]
<1>2. domains' = [domains EXCEPT ![c][n] = d]
  BY <1>1 DEF Assign
<1>3. Data' = [Data EXCEPT ![c][n] = "loaded"]
  BY <1>2, DataStep DEF IInv, Seen
<1> QED BY <1>1, <1>3, EndMaps DEF Assign, Service!Attempted

\* A configuration that was just read is new in every domain.
LEMMA ReloadGetMaps ==
  ASSUME IInv, Timed, ReloadGet
  PROVE  Service!Next
<1>1. nconf + 1 \in Conf /\ nconf + 1 > nconf /\ nconf + 1 > conf /\ nconf + 1 # 0
  BY RefreshAssumption DEF RefreshAssumption, ReloadGet, IInv, TypeOK, Ownership, Conf
<1>2. Data[nconf + 1] = Service!Untouched
  <2>1. \A n \in Domain : domains[nconf + 1][n].failure_count = -1
    BY <1>1 DEF Timed, Unstarted
  <2> QED BY <1>1, <2>1 DEF Data, Seen, Service!Untouched
<1>3. Draft = 0 /\ Draft' = nconf + 1
  BY DEF ReloadGet, Draft
<1>4. work["reload"].stage = "none"
  BY OutstandingOne DEF ReloadGet
<1>5. Outstanding' = Domain
  BY <1>4 DEF ReloadGet, Outstanding, WorksOn
<1>6. UNCHANGED <<conf, Data, Renewing>>
  BY DEF ReloadGet, Data, Renewing, WorksOn
<1>7. Service!Prepare(nconf + 1)
  BY <1>1, <1>2, <1>3, <1>5, <1>6 DEF Service!Prepare
<1> QED BY <1>1, <1>7 DEF Service!Next

LEMMA PublishMaps ==
  ASSUME IInv, Publish
  PROVE  Service!Publish
<1>1. nconf # 0
  BY DEF Publish, IInv, Ownership, TypeOK
<1>2. Draft = nconf /\ Draft' = 0 /\ conf' = nconf
  BY DEF Publish, Draft
<1>3. Outstanding = {} /\ UNCHANGED <<Outstanding, Data, Renewing>>
  BY DEF Publish, AllTried, Outstanding, Data, Renewing, WorksOn
<1> QED BY <1>1, <1>2, <1>3 DEF Service!Publish

\* Only an event of the published configuration begins a refresh.
LEMMA FireCurrentMaps ==
  ASSUME IInv, NEW ev \in queue, FireCurrent(ev)
  PROVE  Service!Next
<1>1. PICK c \in Conf, n \in Domain : c = ev.conf /\ n = ev.name
  BY DEF IInv, TypeOK, Events
<1>2. c = conf /\ c # 0 /\ work["sched"].stage = "none"
  BY <1>1 DEF FireCurrent, Current, Due, Conf
<1>3. /\ work'["sched"].stage = "load" /\ work'["sched"].conf = c /\ work'["sched"].name = n
      /\ work'["reload"] = work["reload"]
  BY <1>1 DEF FireCurrent, StartWork, IInv, TypeOK, Thread
<1>4. Renewing = {}
  BY <1>2, RenewingOne
<1>5. Renewing' = {<<c, n>>}
  BY <1>1, <1>3 DEF Renewing, WorksOn
<1>6. UNCHANGED <<conf, Draft, Outstanding, Data>>
  BY <1>3 DEF FireCurrent, Draft, Outstanding, Data, WorksOn
<1>7. Service!Renew(n)
  BY <1>2, <1>4, <1>5, <1>6 DEF Service!Renew
<1> QED BY <1>1, <1>7 DEF Service!Next

\* The steps that the connections do not see.
LEMMA NextDomainHidden ==
  ASSUME IInv, NEW n \in Domain, NextDomain(n)
  PROVE  UNCHANGED Service!vars
<1>1. /\ work["reload"].stage = "none" /\ n \in todo /\ todo' = todo \ {n}
      /\ UNCHANGED <<conf, nconf, domains, reloader>>
  BY DEF NextDomain
<1>2. /\ work'["reload"].stage = "load" /\ work'["reload"].conf = nconf /\ work'["reload"].name = n
      /\ work'["sched"] = work["sched"]
  BY DEF NextDomain, StartWork, IInv, TypeOK, Thread
<1>3. Outstanding = todo
  BY <1>1, OutstandingOne
<1>4. Outstanding' = todo
  BY <1>1, <1>2 DEF Outstanding, WorksOn
<1>5. UNCHANGED <<Draft, Data, Renewing>>
  BY <1>1, <1>2 DEF Draft, Data, Renewing, WorksOn
<1> QED BY <1>1, <1>3, <1>4, <1>5 DEF Service!vars

LEMMA LoadOkHidden ==
  ASSUME IInv, NEW th \in Thread, LoadOk(th)
  PROVE  UNCHANGED Service!vars
<1>1. \A oth \in Thread, c \in Conf, m \in Domain : WorksOn(oth, c, m)' <=> WorksOn(oth, c, m)
  BY DEF LoadOk, WorksOn, IInv, TypeOK
<1>2. nconf \in 0 .. MaxConf /\ UNCHANGED <<conf, nconf, domains, reloader, todo>>
  BY DEF LoadOk, IInv, TypeOK
<1>3. UNCHANGED Outstanding
  <2>1. \A m \in Domain : WorksOn("reload", nconf, m)' <=> WorksOn("reload", nconf, m)
    BY DEF LoadOk, WorksOn, IInv, TypeOK, Thread
  <2> QED BY <1>2, <2>1 DEF Outstanding
<1>4. UNCHANGED <<Draft, Data, Renewing>>
  BY <1>1, <1>2 DEF Draft, Data, Renewing, Thread
<1> QED BY <1>2, <1>3, <1>4 DEF Service!vars

LEMMA OthersHidden ==
  ASSUME IInv,
         \/ ReloadGetFails \/ Tick \/ UNCHANGED vars
         \/ \E ev \in queue : FireOutdated(ev)
  PROVE  UNCHANGED Service!vars
<1>1. UNCHANGED <<conf, domains, todo, work>>
  BY DEF ReloadGetFails, Tick, vars, FireOutdated
<1>2. UNCHANGED <<nconf, reloader>> \/ ReloadGetFails
  BY DEF Tick, vars, FireOutdated
<1>3. ReloadGetFails => UNCHANGED <<Draft, Outstanding>>
  <2>1. ReloadGetFails => work["reload"].stage = "none"
    BY OutstandingOne DEF ReloadGetFails
  <2> QED BY <2>1 DEF ReloadGetFails, Draft, Outstanding, WorksOn
<1>4. UNCHANGED <<Draft, Outstanding>>
  BY <1>1, <1>2, <1>3 DEF Draft, Outstanding, WorksOn
<1>5. UNCHANGED <<Data, Renewing>>
  BY <1>1 DEF Data, Renewing, WorksOn
<1> QED BY <1>1, <1>4, <1>5 DEF Service!vars

LEMMA StepMaps == IInv /\ Timed /\ [Next]_vars => [Service!Next]_Service!vars
<1> SUFFICES ASSUME IInv, Timed, [Next]_vars PROVE [Service!Next]_Service!vars
  OBVIOUS
<1>1. ASSUME NEW th \in Thread, CloneFails(th) \/ LoadFails(th) \/ Assign(th)
      PROVE  Service!Next
  BY <1>1, CloneFailsMaps, LoadFailsMaps, AssignMaps
<1>2. ASSUME NEW th \in Thread, LoadOk(th) PROVE UNCHANGED Service!vars
  BY <1>2, LoadOkHidden
<1>3. CASE ReloadGet
  BY <1>3, ReloadGetMaps
<1>4. ASSUME NEW n \in Domain, NextDomain(n) PROVE UNCHANGED Service!vars
  BY <1>4, NextDomainHidden
<1>5. CASE Publish
  BY <1>5, PublishMaps DEF Service!Next
<1>6. ASSUME NEW ev \in queue, FireCurrent(ev) PROVE Service!Next
  BY <1>6, FireCurrentMaps
<1>7. CASE ReloadGetFails \/ Tick \/ UNCHANGED vars \/ \E ev \in queue : FireOutdated(ev)
  BY <1>7, OthersHidden
<1> QED BY <1>1, <1>2, <1>3, <1>4, <1>5, <1>6, <1>7 DEF Next

\* Loading, reloading and the timer events together give the connections what
\* ConfigurationService promises, for any domains, periods and number of reloads.
THEOREM Refinement == Spec => ImplementsConfigurationService
  BY InitMaps, StepMaps, TimedInvariance, PTL
  DEF Spec, ImplementsConfigurationService, Service!Spec
=============================================================================
