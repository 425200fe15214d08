-------------------------- MODULE LifecycleProofs ---------------------------
(***************************************************************************)
(* Proofs about Lifecycle, for any number of instances, options, accounts  *)
(* and lock files: who has the lock, what the pid file and the socket say, *)
(* and under which identity an instance serves.                            *)
(***************************************************************************)
EXTENDS Lifecycle, TLAPS

\* Where an instance has no lock, and those of them where it has no lock file open.
Unlocked == {"off", "open", "lock", "unlink", "destroy", "joinSig", "joinSched"}
Closing == Unlocked \ {"lock"}

\* Where only an instance without -n gets to.
DaemonOnly == {"open", "lock", "pid", "deletePid", "unlock", "unlink"}

\* What an instance has of the lock, by where it is.
LockState == \A p \in Proc :
    /\ pc[p] \in Unlocked => ~holds[p]
    /\ pc[p] \in Closing => lockfd[p] = NoFile
    /\ pc[p] = "lock" \/ holds[p] => lockfd[p] # NoFile
    /\ Daemonized(p) => holds[p]
    /\ pc[p] \in DaemonOnly => ~opt[p].nodaemon
    /\ opt[p].nodaemon => lockfd[p] = NoFile /\ ~holds[p]

\* The operating system grants the lock on a file once.
OneHolder == \A p, q \in Proc :
    holds[p] /\ holds[q] /\ lockfd[p] = lockfd[q] => p = q

\* As long as no file was removed that another instance had open, all have the
\* same file open, and it has the name.  OneDaemon rests on this: one holder of
\* each file is not enough.
SameFile == ~stolen => \A p \in Proc : lockfd[p] # NoFile => lockfd[p] = lockFile

Confinement == \A p \in Proc : pc[p] \in {"load", "serve"} => who[p] = Confined(opt[p])

IInv == TypeOK /\ LockState /\ OneHolder /\ SameFile /\ PidFileTrue /\ Confinement

-----------------------------------------------------------------------------

LEMMA OneDaemonHolds == ASSUME LockState, OneHolder, SameFile PROVE OneDaemon
<1> SUFFICES ASSUME ~stolen, NEW p \in Proc, NEW q \in Proc, Daemonized(p), Daemonized(q)
             PROVE p = q
  BY DEF OneDaemon
<1>1. holds[p] /\ holds[q] /\ lockfd[p] # NoFile /\ lockfd[q] # NoFile
  BY DEF LockState
<1>2. lockfd[p] = lockFile /\ lockfd[q] = lockFile
  BY <1>1 DEF SameFile
<1> QED BY <1>1, <1>2 DEF OneHolder

LEMMA NewFileExists == ASSUME FilesTypeOK PROVE NewFile \in File
<1>1. \E f \in File : \A p \in Proc : lockfd[p] # f
  BY FilesSuffice DEF FilesTypeOK
<1> QED BY <1>1 DEF NewFile

LEMMA Defaults == NoOption \in Option /\ AsRoot \in Identity
BY DEF NoOption, Option, AsRoot, Identity

\* What an instance asks for is of the right type, and so is what is left of it.
LEMMA ConfinedType ==
    ASSUME NEW o \in Option
    PROVE Confined(o) \in Identity /\ PartlyConfined(o) \subseteq Identity
<1> USE LifecycleAssumption DEF LifecycleAssumption, Option, Identity
<1>1. Confined(o) \in Identity
  <2>1. CASE o.user = NoAccount
    BY <2>1 DEF Confined, Fields, SetUser, SetGroup, NoIdentity
  <2>2. CASE o.user \in Account
    BY <2>2 DEF Confined, Fields, SetUser, SetGroup, NoIdentity
  <2> QED BY <2>1, <2>2
<1>2. PartlyConfined(o) \subseteq Identity
  BY <1>1 DEF PartlyConfined, AsRoot
<1> QED BY <1>1, <1>2

\* Confined() is what IdentityAsAsked asks for.
LEMMA ConfinedAsAsked ==
    ASSUME NEW o \in Option
    PROVE /\ o.user # NoAccount => Confined(o).uid = o.user
          /\ o.group # NoGid => Confined(o).gid = o.group
          /\ o.group = NoGid /\ o.user # NoAccount => Confined(o).gid = GidOf[o.user]
          /\ Confined(o).jailed = o.jail
<1> USE LifecycleAssumption DEF LifecycleAssumption, Option
<1>1. CASE o.user = NoAccount
  BY <1>1 DEF Confined, Fields, SetUser, SetGroup, NoIdentity
<1>2. CASE o.user \in Account
  BY <1>2 DEF Confined, Fields, SetUser, SetGroup, NoIdentity
<1> QED BY <1>1, <1>2

LEMMA InitInv == Init => IInv
<1> SUFFICES ASSUME Init PROVE IInv
  OBVIOUS
<1> USE DaemonAssumption, LifecycleAssumption DEF Init, InitFiles
<1>1. TypeOK
  BY Defaults DEF TypeOK, FilesTypeOK, Owner, Place
<1>2. LockState /\ OneHolder /\ SameFile
  BY DEF LockState, OneHolder, SameFile, Unlocked, Closing, DaemonOnly, Daemonized, Locking, NoOption
<1>3. PidFileTrue /\ Confinement
  BY DEF PidFileTrue, Confinement, Recorded
<1> QED BY <1>1, <1>2, <1>3 DEF IInv

-----------------------------------------------------------------------------

\* The body of Next.
Step(p) == \/ Start(p) \/ ServiceEnds(p) \/ SendReload(p)
           \/ Main(p) \/ Fault(p) \/ Timer(p) \/ Signal(p)

\* Every step of an instance keeps the types.
LEMMA StepType ==
    ASSUME TypeOK, NEW p \in Proc, Step(p)
    PROVE TypeOK'
<1> USE DaemonAssumption, LifecycleAssumption DEF TypeOK, FilesTypeOK, Owner, Place,
        At, Goto, fileVars, threadVars, LifecycleAssumption
<1>1. CASE Start(p)
  BY <1>1 DEF Start, FirstPlace
<1>2. CASE StartFails(p)
  BY <1>2 DEF StartFails
<1>3. CASE Open(p)
  BY <1>3, NewFileExists DEF Open, OpenLock
<1>4. CASE Lock(p)
  BY <1>4 DEF Lock, LockGranted, LockedByOther
<1>5. CASE AlreadyRunning(p)
  BY <1>5 DEF AlreadyRunning, Unlock, Closed
<1>6. CASE RecordPid(p)
  BY <1>6 DEF RecordPid, WritePid, lockVars
<1>7. CASE SetupFails(p)
  BY <1>7 DEF SetupFails, Unlock, Closed
<1>8. CASE Initialize(p)
  BY <1>8 DEF Initialize, OpenSocket, lockVars
<1>9. CASE InitializeFails(p)
  BY <1>9 DEF InitializeFails, Unlock, Closed
<1>10. CASE Confine(p)
  BY <1>10, ConfinedType DEF Confine
<1>11. CASE ConfineFails(p)
  <2>1. who' \in [Proc -> Identity]
    BY <1>11, ConfinedType DEF ConfineFails
  <2>2. die' \in [Proc -> BOOLEAN] /\ stop' \in [Proc -> BOOLEAN] /\ pc' \in [Proc -> Place]
    BY <1>11 DEF ConfineFails, TearDown
  <2> QED BY <1>11, <2>1, <2>2 DEF ConfineFails
<1>12. CASE Loaded(p)
  BY <1>12 DEF Loaded
<1>13. CASE NothingLoaded(p)
  BY <1>13 DEF NothingLoaded, Unlock, Closed
<1>14. CASE ServiceEnds(p)
  BY <1>14 DEF ServiceEnds, TearDown
<1>15. CASE DeletePidFile(p)
  BY <1>15 DEF DeletePidFile, DeletePid, lockVars
<1>16. CASE ReleaseLock(p)
  BY <1>16 DEF ReleaseLock, Unlock, Closed
<1>17. CASE RemoveLockFile(p)
  BY <1>17 DEF RemoveLockFile, UnlinkLock, OpenByOther
<1>18. CASE Destroy(p)
  <2>1. Pends(p) \in BOOLEAN
    BY Zenon DEF Pends
  <2> QED BY <1>18, <2>1 DEF Destroy
<1>19. CASE JoinSigThread(p)
  BY <1>19 DEF JoinSigThread
<1>20. CASE Exit(p)
  BY <1>20, Defaults DEF Exit, Ended, EndedWithoutSocket, Closed, Left, Forgotten
<1>21. CASE Crash(p)
  BY <1>21, Defaults DEF Crash, Ended, Closed, Left, Forgotten
<1>22. CASE SendReload(p)
  BY <1>22 DEF SendReload
<1>23. CASE SchedBegins(p)
  BY <1>23 DEF SchedBegins
<1>24. CASE SchedEnds(p)
  BY <1>24 DEF SchedEnds
<1>25. CASE SigTaken(p)
  BY <1>25 DEF SigTaken
<1>26. CASE ReloadEnds(p)
  BY <1>26 DEF ReloadEnds, AfterReload
<1> QED BY <1>1, <1>2, <1>3, <1>4, <1>5, <1>6, <1>7, <1>8, <1>9, <1>10, <1>11, <1>12, <1>13,
    <1>14, <1>15, <1>16, <1>17, <1>18, <1>19, <1>20, <1>21, <1>22, <1>23, <1>24, <1>25, <1>26
    DEF Step, Main, Fault, Timer, Signal

\* The end of a process closes its descriptor.
LEMMA EndKeepsLock ==
    ASSUME IInv, NEW p \in Proc, Closed(p), UNCHANGED <<lockFile, stolen>>,
           pc' = [pc EXCEPT ![p] = "off"], opt' = [opt EXCEPT ![p] = NoOption]
    PROVE LockState' /\ OneHolder' /\ SameFile'
<1> USE DEF IInv, TypeOK, FilesTypeOK
<1>1. /\ pc'[p] = "off" /\ lockfd'[p] = NoFile /\ ~holds'[p]
      /\ \A q \in Proc : q # p => /\ pc'[q] = pc[q] /\ opt'[q] = opt[q]
                                  /\ lockfd'[q] = lockfd[q] /\ holds'[q] = holds[q]
  BY DEF Closed
<1>2. LockState'
  <2> SUFFICES ASSUME NEW q \in Proc
               PROVE  /\ pc'[q] \in Unlocked => ~holds'[q]
                      /\ pc'[q] \in Closing => lockfd'[q] = NoFile
                      /\ pc'[q] = "lock" \/ holds'[q] => lockfd'[q] # NoFile
                      /\ Daemonized(q)' => holds'[q]
                      /\ pc'[q] \in DaemonOnly => ~opt'[q].nodaemon
                      /\ opt'[q].nodaemon => lockfd'[q] = NoFile /\ ~holds'[q]
    BY DEF LockState
  <2>1. CASE q = p
    BY <1>1, <2>1 DEF Daemonized, Locking, DaemonOnly
  <2>2. CASE q # p
    BY <1>1, <2>2 DEF LockState, Daemonized, Locking
  <2> QED BY <2>1, <2>2
<1>3. OneHolder' /\ SameFile'
  BY <1>1 DEF OneHolder, SameFile
<1> QED BY <1>2, <1>3

\* Every step keeps the facts about the lock.  A lock is granted when nobody has
\* it, and a lock file that is removed while others have it open is `stolen'.
LEMMA StepLock ==
    ASSUME IInv, NEW p \in Proc, Step(p)
    PROVE LockState' /\ OneHolder' /\ SameFile'
<1> USE DEF IInv, TypeOK, FilesTypeOK, LockState, OneHolder, SameFile, Unlocked, Closing,
        DaemonOnly, Daemonized, Locking, At, Goto, fileVars, threadVars
<1>1. CASE Start(p)
  BY <1>1 DEF Start, FirstPlace
<1>2. CASE StartFails(p)
  BY <1>2 DEF StartFails
<1>3. CASE Open(p)
  BY <1>3, NewFileExists, DaemonAssumption DEF Open, OpenLock, DaemonAssumption
<1>4. CASE Lock(p)
  BY <1>4 DEF Lock, LockGranted, LockedByOther
<1>5. CASE AlreadyRunning(p)
  BY <1>5 DEF AlreadyRunning, Unlock, Closed
<1>6. CASE RecordPid(p)
  BY <1>6 DEF RecordPid, WritePid, lockVars
<1>7. CASE SetupFails(p)
  BY <1>7 DEF SetupFails, Unlock, Closed
<1>8. CASE Initialize(p)
  BY <1>8 DEF Initialize, OpenSocket, lockVars
<1>9. CASE InitializeFails(p)
  BY <1>9 DEF InitializeFails, Unlock, Closed
<1>10. CASE Confine(p)
  BY <1>10 DEF Confine
<1>11. CASE ConfineFails(p)
  BY <1>11 DEF ConfineFails, TearDown
<1>12. CASE Loaded(p)
  BY <1>12 DEF Loaded
<1>13. CASE NothingLoaded(p)
  BY <1>13 DEF NothingLoaded, Unlock, Closed
<1>14. CASE ServiceEnds(p)
  BY <1>14 DEF ServiceEnds, TearDown
<1>15. CASE DeletePidFile(p)
  BY <1>15 DEF DeletePidFile, DeletePid, lockVars
<1>16. CASE ReleaseLock(p)
  BY <1>16 DEF ReleaseLock, Unlock, Closed
<1>17. CASE RemoveLockFile(p)
  BY <1>17 DEF RemoveLockFile, UnlinkLock, OpenByOther
<1>18. CASE Destroy(p)
  BY <1>18 DEF Destroy
<1>19. CASE JoinSigThread(p)
  BY <1>19 DEF JoinSigThread
<1>20. CASE Exit(p)
  <2>1. Closed(p) /\ UNCHANGED <<lockFile, stolen>> /\ Forgotten(p)
    BY <1>20 DEF Exit, Ended, EndedWithoutSocket
  <2> QED BY <2>1, EndKeepsLock DEF Forgotten
<1>21. CASE Crash(p)
  <2>1. Closed(p) /\ UNCHANGED <<lockFile, stolen>> /\ Forgotten(p)
    BY <1>21 DEF Crash, Ended
  <2> QED BY <2>1, EndKeepsLock DEF Forgotten
<1>22. CASE SendReload(p)
  BY <1>22 DEF SendReload
<1>23. CASE SchedBegins(p)
  BY <1>23 DEF SchedBegins
<1>24. CASE SchedEnds(p)
  BY <1>24 DEF SchedEnds
<1>25. CASE SigTaken(p)
  BY <1>25 DEF SigTaken
<1>26. CASE ReloadEnds(p)
  BY <1>26 DEF ReloadEnds
<1> QED BY <1>1, <1>2, <1>3, <1>4, <1>5, <1>6, <1>7, <1>8, <1>9, <1>10, <1>11, <1>12, <1>13,
    <1>14, <1>15, <1>16, <1>17, <1>18, <1>19, <1>20, <1>21, <1>22, <1>23, <1>24, <1>25, <1>26
    DEF Step, Main, Fault, Timer, Signal

\* Every step keeps the pid file and the identity.  Only RecordPid needs more than
\* its own instance: that no other one is between lock() and unlock().
LEMMA StepPid ==
    ASSUME IInv, NEW p \in Proc, Step(p)
    PROVE PidFileTrue' /\ Confinement'
<1> USE DEF IInv, TypeOK, FilesTypeOK, LockState, PidFileTrue, Confinement, DaemonOnly, Recorded,
        At, Goto, fileVars, threadVars
<1>1. CASE Start(p)
  BY <1>1 DEF Start, FirstPlace
<1>2. CASE StartFails(p)
  BY <1>2 DEF StartFails
<1>3. CASE Open(p)
  BY <1>3 DEF Open, OpenLock
<1>4. CASE Lock(p)
  BY <1>4 DEF Lock, LockGranted, LockedByOther
<1>5. CASE AlreadyRunning(p)
  BY <1>5 DEF AlreadyRunning, Unlock, Closed
<1>6. CASE RecordPid(p)
  <2>1. OneDaemon
    BY OneDaemonHolds
  <2> QED BY <1>6, <2>1 DEF RecordPid, WritePid, lockVars, OneDaemon, Daemonized, Locking
<1>7. CASE SetupFails(p)
  BY <1>7 DEF SetupFails, Unlock, Closed
<1>8. CASE Initialize(p)
  BY <1>8 DEF Initialize, OpenSocket, lockVars
<1>9. CASE InitializeFails(p)
  BY <1>9 DEF InitializeFails, Unlock, Closed
<1>10. CASE Confine(p)
  BY <1>10 DEF Confine
<1>11. CASE ConfineFails(p)
  BY <1>11 DEF ConfineFails, TearDown
<1>12. CASE Loaded(p)
  BY <1>12 DEF Loaded
<1>13. CASE NothingLoaded(p)
  BY <1>13 DEF NothingLoaded, Unlock, Closed
<1>14. CASE ServiceEnds(p)
  BY <1>14 DEF ServiceEnds, TearDown
<1>15. CASE DeletePidFile(p)
  BY <1>15 DEF DeletePidFile, DeletePid, lockVars
<1>16. CASE ReleaseLock(p)
  BY <1>16 DEF ReleaseLock, Unlock, Closed
<1>17. CASE RemoveLockFile(p)
  BY <1>17 DEF RemoveLockFile, UnlinkLock, OpenByOther
<1>18. CASE Destroy(p)
  BY <1>18 DEF Destroy
<1>19. CASE JoinSigThread(p)
  BY <1>19 DEF JoinSigThread
<1>20. CASE Exit(p)
  BY <1>20 DEF Exit, Ended, EndedWithoutSocket, Closed, Left, Forgotten
<1>21. CASE Crash(p)
  BY <1>21 DEF Crash, Ended, Closed, Left, Forgotten
<1>22. CASE SendReload(p)
  BY <1>22 DEF SendReload
<1>23. CASE SchedBegins(p)
  BY <1>23 DEF SchedBegins
<1>24. CASE SchedEnds(p)
  BY <1>24 DEF SchedEnds
<1>25. CASE SigTaken(p)
  BY <1>25 DEF SigTaken
<1>26. CASE ReloadEnds(p)
  BY <1>26 DEF ReloadEnds
<1> QED BY <1>1, <1>2, <1>3, <1>4, <1>5, <1>6, <1>7, <1>8, <1>9, <1>10, <1>11, <1>12, <1>13,
    <1>14, <1>15, <1>16, <1>17, <1>18, <1>19, <1>20, <1>21, <1>22, <1>23, <1>24, <1>25, <1>26
    DEF Step, Main, Fault, Timer, Signal

LEMMA Stutter == ASSUME IInv, UNCHANGED vars PROVE IInv'
BY DEF vars, fileVars, threadVars, IInv, TypeOK, FilesTypeOK, LockState, OneHolder, SameFile,
       PidFileTrue, Confinement, Daemonized

LEMMA Invariance == Spec => []IInv
<1>1. Init => IInv
  BY InitInv
<1>2. IInv /\ [Next]_vars => IInv'
  <2> SUFFICES ASSUME IInv, [Next]_vars PROVE IInv'
    OBVIOUS
  <2>1. CASE Next
    <3>1. PICK p \in Proc : Step(p)
      BY <2>1 DEF Next, Step
    <3>2. TypeOK'
      BY <3>1, StepType DEF IInv
    <3>3. LockState' /\ OneHolder' /\ SameFile'
      BY <3>1, StepLock
    <3>4. PidFileTrue' /\ Confinement'
      BY <3>1, StepPid
    <3> QED BY <3>2, <3>3, <3>4 DEF IInv
  <2>2. CASE UNCHANGED vars
    BY <2>2, Stutter
  <2> QED BY <2>1, <2>2
<1> QED BY <1>1, <1>2, PTL DEF Spec

-----------------------------------------------------------------------------

\* Type correctness of the instances and of the files they share.
THEOREM Typing == Spec => []TypeOK
<1>1. IInv => TypeOK
  BY DEF IInv
<1> QED BY <1>1, Invariance, PTL

\* lock() admits one daemon at a time, unless a delete_lock() removed the lock
\* file of another one.
THEOREM DaemonAlone == Spec => []OneDaemon
<1>1. IInv => OneDaemon
  BY OneDaemonHolds DEF IInv
<1> QED BY <1>1, Invariance, PTL

\* The pid file names the daemon that runs.
THEOREM PidFileNamesDaemon == Spec => []PidFileTrue
<1>1. IInv => PidFileTrue
  BY DEF IInv
<1> QED BY <1>1, Invariance, PTL

\* An instance loads and serves as the account, in the group and in the jail of
\* its options, for every combination of -u, -g and -j.
THEOREM IdentityHonoured == Spec => []IdentityAsAsked
<1>1. IInv => IdentityAsAsked
  <2> SUFFICES ASSUME IInv, NEW p \in Proc, pc[p] \in {"load", "serve"}
               PROVE /\ opt[p].user # NoAccount => who[p].uid = opt[p].user
                     /\ opt[p].group # NoGid => who[p].gid = opt[p].group
                     /\ opt[p].group = NoGid /\ opt[p].user # NoAccount => who[p].gid = GidOf[opt[p].user]
                     /\ who[p].jailed = opt[p].jail
    BY DEF IdentityAsAsked
  <2>1. who[p] = Confined(opt[p]) /\ opt[p] \in Option
    BY DEF IInv, Confinement, TypeOK
  <2> QED BY <2>1, ConfinedAsAsked
<1> QED BY <1>1, Invariance, PTL

\* A daemon that serves loses its socket to no other daemon.
THEOREM SocketKeptByDaemon == Spec => SocketKept
<1>1. IInv /\ [Next]_vars => [\A p \in Proc : SocketTaken(p)]_vars
  <2> SUFFICES ASSUME IInv, Next, NEW p \in Proc,
                      pc[p] = "serve", ~opt[p].nodaemon, socket = p, socket' # p, ~stolen
               PROVE \/ pc'[p] # "serve"
                     \/ \E q \in Proc \ {p} : \/ pc[q] = "joinSched"
                                              \/ pc[q] = "socket" /\ opt[q].nodaemon
    BY DEF SocketTaken
  <2>1. PICK q \in Proc : Step(q)
    BY DEF Next, Step
  <2> USE DEF At, Goto, fileVars
  <2>2. CASE Initialize(q)
    <3>1. pc[q] = "socket" /\ q # p
      BY <2>2 DEF Initialize
    <3>2. opt[q].nodaemon
      BY <3>1, OneDaemonHolds DEF IInv, OneDaemon, Daemonized, Locking
    <3> QED BY <3>1, <3>2
  <2>3. CASE Exit(q)
    BY <2>3 DEF Exit
  <2>4. CASE Crash(q)
    <3>1. q = p
      BY <2>4 DEF Crash, Ended, Left
    <3>2. pc'[p] = "off"
      BY <2>4, <3>1 DEF Crash, Forgotten, IInv, TypeOK
    <3> QED BY <3>2
  <2>5. CASE UNCHANGED socket
    BY <2>5
  <2>6. Initialize(q) \/ Exit(q) \/ Crash(q) \/ UNCHANGED socket
    BY <2>1 DEF Step, Main, Fault, Timer, Signal, Start, ServiceEnds, SendReload, Open, Lock,
      AlreadyRunning, RecordPid, Confine, Loaded, DeletePidFile, ReleaseLock, RemoveLockFile, Destroy,
      JoinSigThread, StartFails, SetupFails, InitializeFails, ConfineFails, NothingLoaded, SchedBegins,
      SchedEnds, SigTaken, ReloadEnds, OpenLock, LockGranted, Unlock, WritePid, DeletePid, UnlinkLock
  <2> QED BY <2>2, <2>3, <2>4, <2>5, <2>6
<1> QED BY <1>1, Invariance, PTL DEF Spec, SocketKept
=============================================================================
