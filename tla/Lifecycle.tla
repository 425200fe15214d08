----------------------------- MODULE Lifecycle ------------------------------
(***************************************************************************)
(* The life of an instance: main(), Globals::run(), the timer thread, the  *)
(* thread that waits for SIGUSR1, and ~Globals(), for several instances    *)
(* that share the files of Daemon.                                         *)
(*                                                                         *)
(* SIGUSR1.  ignore_signals() ignores it, unblock_signals() restores the   *)
(* mask that the program was started with, and reloader() waits for it     *)
(* with sigwait().  If that mask blocks the signal it stays pending until  *)
(* the thread takes it.  If not, Linux discards an ignored signal, also    *)
(* while a thread is in sigwait(), for which POSIX gives no result then.   *)
(***************************************************************************)
EXTENDS Daemon

CONSTANTS
    Options,    \* Options[p]: how p may be started
    Account,    \* the accounts that -u may name
    NoAccount,  \* no -u
    Gid,        \* the groups that -g may name
    NoGid,      \* no -g
    GidOf,      \* GidOf[u]: the group of the account u
    Root        \* the account, and the group, that starts the program

\* masked: SIGUSR1 is blocked in the mask that the instance inherits.
Option == [nodaemon : BOOLEAN, user : Account \cup {NoAccount},
           group : Gid \cup {NoGid}, jail : BOOLEAN, masked : BOOLEAN]

ASSUME LifecycleAssumption ==
    /\ Options \in [Proc -> SUBSET Option]
    /\ GidOf \in [Account -> Gid]
    /\ NoAccount \notin Account
    /\ NoGid \notin Gid
    /\ Root \notin Account \cup Gid

VARIABLES
    pc,         \* pc[p]: where main() is
    opt,        \* opt[p]: the options
    who,        \* who[p]: its identity, and whether it is in its jail
    named,      \* named[p]: _socket is set
    die,        \* die[p]: Globals::die
    sched,      \* sched[p]: the timer thread
    stop,       \* stop[p]: Scheduler::_stop
    sig,        \* sig[p]: the signal thread
    usr1,       \* usr1[p]: a SIGUSR1 of the administrator is pending
    wake        \* wake[p]: the SIGUSR1 of ~Globals() is pending

threadVars == <<sched, stop, sig, usr1, wake>>
vars == <<fileVars, pc, opt, who, named, die, threadVars>>

NoOption == [nodaemon |-> FALSE, user |-> NoAccount, group |-> NoGid,
             jail |-> FALSE, masked |-> FALSE]

Identity == [uid : Account \cup {Root}, gid : Gid \cup {Root}, jailed : BOOLEAN]

AsRoot == [uid |-> Root, gid |-> Root, jailed |-> FALSE]

Place == {"off", "open", "lock", "pid", "socket", "identity", "load", "serve",
          "deletePid", "unlock", "unlink", "destroy", "joinSig", "joinSched"}

Init ==
    /\ InitFiles
    /\ pc = [p \in Proc |-> "off"]
    /\ opt = [p \in Proc |-> NoOption]
    /\ who = [p \in Proc |-> AsRoot]
    /\ named = [p \in Proc |-> FALSE]
    /\ die = [p \in Proc |-> FALSE]
    /\ sched = [p \in Proc |-> "none"]
    /\ stop = [p \in Proc |-> FALSE]
    /\ sig = [p \in Proc |-> "none"]
    /\ usr1 = [p \in Proc |-> FALSE]
    /\ wake = [p \in Proc |-> FALSE]

At(p, from) == pc[p] = from
Goto(p, to) == pc' = [pc EXCEPT ![p] = to]

\* The instance still has the rights to remove its files, and sees them.
Reaches(p) == who[p].uid = Root /\ ~who[p].jailed

-----------------------------------------------------------------------------
(* Globals::run() *)

\* Mutant of FirstPlace: the socket is made before the lock is taken.
SocketFirst(o) == "socket"

\* An instance with -n needs no lock and writes no pid.
FirstPlace(o) == IF o.nodaemon THEN "socket" ELSE "open"

\* The parsing of the arguments, the signals, detach() and close_all().
Start(p) ==
    /\ At(p, "off")
    /\ \E o \in Options[p] :
          /\ opt' = [opt EXCEPT ![p] = o]
          /\ Goto(p, FirstPlace(o))
    /\ UNCHANGED <<fileVars, who, named, die, threadVars>>

\* An exception before the lock: user(), group() or jail() without the rights
\* or for an unknown name, or fork().
StartFails(p) ==
    /\ At(p, "off")
    /\ \E o \in Options[p] : opt' = [opt EXCEPT ![p] = o]
    /\ Goto(p, "destroy")
    /\ die' = [die EXCEPT ![p] = TRUE]
    /\ UNCHANGED <<fileVars, who, named, threadVars>>

Open(p) ==
    /\ At(p, "open")
    /\ OpenLock(p)
    /\ Goto(p, "lock")
    /\ UNCHANGED <<opt, who, named, die, threadVars>>

Lock(p) ==
    /\ At(p, "lock")
    /\ LockGranted(p)
    /\ Goto(p, "pid")
    /\ UNCHANGED <<opt, who, named, die, threadVars>>

\* `already running: exit'.  ~Daemon() has nothing left to unlock.
AlreadyRunning(p) ==
    /\ At(p, "lock")
    /\ LockedByOther(p)
    /\ Unlock(p)
    /\ Goto(p, "destroy")
    /\ UNCHANGED <<opt, who, named, die, threadVars>>

RecordPid(p) ==
    /\ At(p, "pid")
    /\ WritePid(p)
    /\ Goto(p, "socket")
    /\ UNCHANGED <<opt, who, named, die, threadVars>>

\* An exception of the first part: the user, the lock file or the pid file.
SetupFails(p) ==
    /\ pc[p] \in {"open", "lock", "pid"}
    /\ Unlock(p)
    /\ Goto(p, "destroy")
    /\ die' = [die EXCEPT ![p] = TRUE]
    /\ UNCHANGED <<opt, who, named, threadVars>>

\* initialize() registers the callbacks and makes the socket.
Initialize(p) ==
    /\ At(p, "socket")
    /\ OpenSocket(p)
    /\ named' = [named EXCEPT ![p] = TRUE]
    /\ Goto(p, "identity")
    /\ UNCHANGED <<opt, who, die, threadVars>>

InitializeFails(p) ==
    /\ At(p, "socket")
    /\ Unlock(p)
    /\ named' = [named EXCEPT ![p] = TRUE]
    /\ Goto(p, "destroy")
    /\ UNCHANGED <<opt, who, die, threadVars>>

\* The fields _user, _group, _uid and _gid after Daemon::user().
SetUser(d, user) ==
    IF user = NoAccount THEN [d EXCEPT !.user = NoAccount]
    ELSE [user |-> user, uid |-> user, group |-> GidOf[user], gid |-> GidOf[user]]

SetGroup(d, group) ==
    IF group = NoGid THEN [d EXCEPT !.group = NoGid]
    ELSE [d EXCEPT !.group = group, !.gid = group]

\* _uid and _gid are not initialized: Root stands for what they hold.
NoIdentity == [user |-> NoAccount, group |-> NoGid, uid |-> Root, gid |-> Root]

\* Mutant of Fields: the group of the account replaces that of -g.
FieldsUserLast(o) == SetUser(SetGroup(NoIdentity, o.group), o.user)

Fields(o) == SetGroup(SetUser(NoIdentity, o.user), o.group)

\* incarcerate() and change_identity()
Confined(o) ==
    LET d == Fields(o)
    IN [uid |-> IF d.user # NoAccount THEN d.uid ELSE Root,
        gid |-> IF d.user # NoAccount \/ d.group # NoGid THEN d.gid ELSE Root,
        jailed |-> o.jail]

\* The timer thread is started, and need not run at once.
Confine(p) ==
    /\ At(p, "identity")
    /\ who' = [who EXCEPT ![p] = Confined(opt[p])]
    /\ sched' = [sched EXCEPT ![p] = "new"]
    /\ Goto(p, "load")
    /\ UNCHANGED <<fileVars, opt, named, die, stop, sig, usr1, wake>>

\* Mutant of TearDown: every instance removes the files.
TearDownAlways(p) == "deletePid"

\* Where run() goes when it is to end: an instance without -n has files.
TearDown(p) == IF opt[p].nodaemon THEN "destroy" ELSE "deletePid"

\* What is left when incarcerate(), change_identity() or the start of the timer
\* thread fails; after setgid() alone the group does not matter any more.
PartlyConfined(o) == {AsRoot, [AsRoot EXCEPT !.jailed = o.jail], Confined(o)}

\* The handler of the second part.
ConfineFails(p) ==
    /\ At(p, "identity")
    /\ \E identity \in PartlyConfined(opt[p]) : who' = [who EXCEPT ![p] = identity]
    /\ die' = [die EXCEPT ![p] = TRUE]
    /\ stop' = [stop EXCEPT ![p] = TRUE]
    /\ Goto(p, TearDown(p))
    /\ UNCHANGED <<fileVars, opt, named, sched, sig, usr1, wake>>

\* The first reload() leaves a configuration: the signal thread is started.
Loaded(p) ==
    /\ At(p, "load")
    /\ sig' = [sig EXCEPT ![p] = "wait"]
    /\ Goto(p, "serve")
    /\ UNCHANGED <<fileVars, opt, who, named, die, sched, stop, usr1, wake>>

\* It leaves none: run() returns, and the pid and the lock file stay.
NothingLoaded(p) ==
    /\ At(p, "load")
    /\ stop' = [stop EXCEPT ![p] = TRUE]
    /\ Unlock(p)
    /\ Goto(p, "destroy")
    /\ UNCHANGED <<opt, who, named, die, sched, sig, usr1, wake>>

\* smfi_main() returns, after SIGTERM or with a failure, or the signal thread
\* cannot be started.
ServiceEnds(p) ==
    /\ pc[p] \in {"load", "serve"}
    /\ die' = [die EXCEPT ![p] = TRUE]
    /\ stop' = [stop EXCEPT ![p] = TRUE]
    /\ Goto(p, TearDown(p))
    /\ UNCHANGED <<fileVars, opt, who, named, sched, sig, usr1, wake>>

DeletePidFile(p) ==
    /\ At(p, "deletePid")
    /\ DeletePid(p, Reaches(p))
    /\ Goto(p, "unlock")
    /\ UNCHANGED <<opt, who, named, die, threadVars>>

\* delete_lock() is two steps.
ReleaseLock(p) ==
    /\ At(p, "unlock")
    /\ Unlock(p)
    /\ Goto(p, "unlink")
    /\ UNCHANGED <<opt, who, named, die, threadVars>>

RemoveLockFile(p) ==
    /\ At(p, "unlink")
    /\ UnlinkLock(p, Reaches(p))
    /\ Goto(p, "destroy")
    /\ UNCHANGED <<opt, who, named, die, threadVars>>

-----------------------------------------------------------------------------
(* ~Globals(), ~milter() and the end of the process *)

\* Mutant of Pends: the signal thread is not woken.
NeverPends(p) == FALSE

\* pthread_kill(SIGUSR1)
Pends(p) == sig[p] # "none" /\ opt[p].masked

Destroy(p) ==
    /\ At(p, "destroy")
    /\ die' = [die EXCEPT ![p] = TRUE]
    /\ wake' = [wake EXCEPT ![p] = Pends(p)]
    /\ Goto(p, "joinSig")
    /\ UNCHANGED <<fileVars, opt, who, named, sched, stop, sig, usr1>>

JoinSigThread(p) ==
    /\ At(p, "joinSig")
    /\ sig[p] \in {"none", "ended"}
    /\ stop' = [stop EXCEPT ![p] = @ \/ sched[p] # "none"]
    /\ Goto(p, "joinSched")
    /\ UNCHANGED <<fileVars, opt, who, named, die, sched, sig, usr1, wake>>

\* What the process had is gone.
Forgotten(p) ==
    /\ Goto(p, "off")
    /\ who' = [who EXCEPT ![p] = AsRoot]
    /\ named' = [named EXCEPT ![p] = FALSE]
    /\ die' = [die EXCEPT ![p] = FALSE]
    /\ sched' = [sched EXCEPT ![p] = "none"]
    /\ stop' = [stop EXCEPT ![p] = FALSE]
    /\ sig' = [sig EXCEPT ![p] = "none"]
    /\ usr1' = [usr1 EXCEPT ![p] = FALSE]
    /\ wake' = [wake EXCEPT ![p] = FALSE]
    /\ opt' = [opt EXCEPT ![p] = NoOption]

\* The timer thread is joined, ~milter() removes the socket, and main() returns.
Exit(p) ==
    /\ At(p, "joinSched")
    /\ sched[p] \in {"none", "ended"}
    /\ IF named[p] /\ Reaches(p) THEN EndedWithoutSocket(p) ELSE Ended(p)
    /\ Forgotten(p)

\* A signal that is not ignored: SIGTERM before smfi_main(), or a fault.
Crash(p) ==
    /\ pc[p] # "off"
    /\ Ended(p)
    /\ Forgotten(p)

-----------------------------------------------------------------------------
(* The threads, and the administrator who wants a reload *)

SendReload(p) ==
    /\ At(p, "serve")
    /\ opt[p].masked
    /\ usr1' = [usr1 EXCEPT ![p] = TRUE]
    /\ UNCHANGED <<fileVars, pc, opt, who, named, die, sched, stop, sig, wake>>

\* Scheduler::run() clears _stop when it begins.
SchedBegins(p) ==
    /\ sched[p] = "new"
    /\ sched' = [sched EXCEPT ![p] = "run"]
    /\ stop' = [stop EXCEPT ![p] = FALSE]
    /\ UNCHANGED <<fileVars, pc, opt, who, named, die, sig, usr1, wake>>

SchedEnds(p) ==
    /\ sched[p] = "run"
    /\ stop[p]
    /\ sched' = [sched EXCEPT ![p] = "ended"]
    /\ UNCHANGED <<fileVars, pc, opt, who, named, die, stop, sig, usr1, wake>>

\* sigwait() takes what is pending for the thread before what is pending for
\* the process.
SigTaken(p) ==
    /\ sig[p] = "wait"
    /\ wake[p] \/ usr1[p]
    /\ wake' = [wake EXCEPT ![p] = FALSE]
    /\ usr1' = [usr1 EXCEPT ![p] = @ /\ wake[p]]
    /\ sig' = [sig EXCEPT ![p] = IF die[p] THEN "ended" ELSE "reload"]
    /\ UNCHANGED <<fileVars, pc, opt, who, named, die, sched, stop>>

\* Mutant of AfterReload: reloader() handles one signal only.
AfterReloadNone == "ended"

AfterReload == "wait"

ReloadEnds(p) ==
    /\ sig[p] = "reload"
    /\ sig' = [sig EXCEPT ![p] = AfterReload]
    /\ UNCHANGED <<fileVars, pc, opt, who, named, die, sched, stop, usr1, wake>>

-----------------------------------------------------------------------------

\* The steps of main() that come by themselves.
Main(p) ==
    \/ Open(p) \/ Lock(p) \/ AlreadyRunning(p) \/ RecordPid(p)
    \/ Initialize(p) \/ Confine(p) \/ Loaded(p)
    \/ DeletePidFile(p) \/ ReleaseLock(p) \/ RemoveLockFile(p)
    \/ Destroy(p) \/ JoinSigThread(p) \/ Exit(p)

Fault(p) == StartFails(p) \/ SetupFails(p) \/ InitializeFails(p)
            \/ ConfineFails(p) \/ NothingLoaded(p) \/ Crash(p)

Timer(p) == SchedBegins(p) \/ SchedEnds(p)

Signal(p) == SigTaken(p) \/ ReloadEnds(p)

Next == \E p \in Proc :
    \/ Start(p) \/ ServiceEnds(p) \/ SendReload(p)
    \/ Main(p) \/ Fault(p) \/ Timer(p) \/ Signal(p)

\* The kernel runs every instance: one of its threads, as long as one can go on.
\* No order among the threads is needed.
Fairness == \A p \in Proc : WF_vars(Main(p) \/ Timer(p) \/ Signal(p))

Spec == Init /\ [][Next]_vars /\ Fairness

-----------------------------------------------------------------------------
(* Properties *)

TypeOK ==
    /\ FilesTypeOK
    /\ pc \in [Proc -> Place]
    /\ opt \in [Proc -> Option]
    /\ who \in [Proc -> Identity]
    /\ named \in [Proc -> BOOLEAN]
    /\ die \in [Proc -> BOOLEAN]
    /\ sched \in [Proc -> {"none", "new", "run", "ended"}]
    /\ stop \in [Proc -> BOOLEAN]
    /\ sig \in [Proc -> {"none", "wait", "reload", "ended"}]
    /\ usr1 \in [Proc -> BOOLEAN]
    /\ wake \in [Proc -> BOOLEAN]

\* An instance that has been granted the lock and has not released it.
Locking == {"pid", "socket", "identity", "load", "serve", "deletePid", "unlock"}
Daemonized(p) == ~opt[p].nodaemon /\ pc[p] \in Locking

\* At most one daemon is between lock() and unlock(), unless a delete_lock()
\* removed the lock file after another instance had opened it: the name is
\* removed after the lock was released, and a third instance makes a new file.
OneDaemon ==
    ~stolen => \A p, q \in Proc : Daemonized(p) /\ Daemonized(q) => p = q

Recorded == {"socket", "identity", "load", "serve", "deletePid"}

\* The pid file names the daemon that runs, whatever others start, find it
\* running, end or crash: nobody writes or deletes the file without the lock.
PidFileTrue ==
    ~stolen => \A p \in Proc :
        ~opt[p].nodaemon /\ pc[p] \in Recorded => pidFile = p

\* A daemon that serves loses its socket only to an instance that ends, which
\* removes it long after having released the lock, when its threads are joined,
\* or to one with -n; never to a second daemon.
SocketTaken(p) ==
    pc[p] = "serve" /\ ~opt[p].nodaemon /\ socket = p /\ socket' # p =>
        \/ stolen
        \/ pc'[p] # "serve"
        \/ \E q \in Proc \ {p} : pc[q] = "joinSched" \/ (pc[q] = "socket" /\ opt[q].nodaemon)

SocketKept == [][\A p \in Proc : SocketTaken(p)]_vars

\* A configuration is read, and mail filtered, only under the account of -u and
\* in the jail, with the group of -g, or else the group of the account; the files
\* before that are made by root.
IdentityAsAsked == \A p \in Proc : pc[p] \in {"load", "serve"} =>
    /\ opt[p].user # NoAccount => who[p].uid = opt[p].user
    /\ opt[p].group # NoGid => who[p].gid = opt[p].group
    /\ opt[p].group = NoGid /\ opt[p].user # NoAccount => who[p].gid = GidOf[opt[p].user]
    /\ who[p].jailed = opt[p].jail

\* An instance that is to end does, provided that its threads can be told so:
\* the timer thread has begun to run before the last stop(), which its start
\* would undo, and the signal of ~Globals() is not discarded.
Stoppable(p) == pc[p] = "destroy" /\ opt[p].masked /\ sched[p] # "new"
Exits == \A p \in Proc : Stoppable(p) ~> pc[p] = "off"

\* A SIGUSR1 that is pending leads to a reload, also when it comes during one,
\* unless the instance ends.
ReloadServed == \A p \in Proc :
    usr1[p] ~> sig[p] = "reload" \/ pc[p] # "serve"

\* What undervest.service.in expects of ExecStop: an instance that was told to
\* stop ends, if its timer thread had begun to run.  The code does not: the
\* signal thread is in sigwait() for a signal that it has set to SIG_IGN and not
\* blocked.
StopEnds == \A p \in Proc : pc[p] = "destroy" /\ sched[p] # "new" ~> pc[p] = "off"
=============================================================================
