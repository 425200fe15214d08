------------------------------- MODULE Daemon -------------------------------
(***************************************************************************)
(* What the instances of the program leave in the file system: the lock    *)
(* file and the pid file of include/daemon.h, and the socket of            *)
(* include/milter.h.  This module has the operations on them; Lifecycle    *)
(* says in which order an instance executes them.                          *)
(*                                                                         *)
(* A lock belongs to the file that was opened, not to its name: the name   *)
(* may be removed and given to a new file while the old one is still open  *)
(* and locked.                                                             *)
(***************************************************************************)
CONSTANTS
    Proc,       \* the instances: a process that has ended may start again
    NoProc,     \* no instance
    File,       \* the lock files there may be: a bound of the model
    NoFile      \* no lock file

ASSUME DaemonAssumption ==
    /\ NoProc \notin Proc
    /\ NoFile \notin File

\* There is always another file.
ASSUME FilesSuffice ==
    \A open \in [Proc -> File \cup {NoFile}] :
        \E f \in File : \A p \in Proc : open[p] # f

VARIABLES
    lockFile,   \* the file that has the name _lock_file, NoFile if none has
    lockfd,     \* lockfd[p]: the file that _lockfd is open on
    holds,      \* holds[p]: p has locked that file
    pidFile,    \* the instance that the pid file names, NoProc if it has ended
    socket,     \* the instance that the socket leads to, likewise
    stolen      \* history: delete_lock() removed the file of another instance

fileVars == <<lockFile, lockfd, holds, pidFile, socket, stolen>>
lockVars == <<lockFile, lockfd, holds, stolen>>

Owner == Proc \cup {NoProc}

InitFiles ==
    /\ lockFile = NoFile
    /\ lockfd = [p \in Proc |-> NoFile]
    /\ holds = [p \in Proc |-> FALSE]
    /\ pidFile = NoProc
    /\ socket = NoProc
    /\ stolen = FALSE

-----------------------------------------------------------------------------

NewFile == CHOOSE f \in File : \A p \in Proc : lockfd[p] # f

\* open(O_CREAT)
OpenLock(p) ==
    /\ lockFile' = IF lockFile = NoFile THEN NewFile ELSE lockFile
    /\ lockfd' = [lockfd EXCEPT ![p] = lockFile']
    /\ UNCHANGED <<holds, pidFile, socket, stolen>>

LockedByOther(p) == \E q \in Proc \ {p} : holds[q] /\ lockfd[q] = lockfd[p]

\* Mutant of LockGranted: the lock is taken before detach(), and no child of a
\* fork() has it.
LockOfParent(p) ==
    /\ ~LockedByOther(p)
    /\ UNCHANGED <<lockFile, lockfd, holds, pidFile, socket, stolen>>

\* lockf(F_TLOCK)
LockGranted(p) ==
    /\ ~LockedByOther(p)
    /\ holds' = [holds EXCEPT ![p] = TRUE]
    /\ UNCHANGED <<lockFile, lockfd, pidFile, socket, stolen>>

\* unlock(), the destructor of Daemon, and the end of the process: the lock
\* goes with the descriptor.
Closed(p) ==
    /\ lockfd' = [lockfd EXCEPT ![p] = NoFile]
    /\ holds' = [holds EXCEPT ![p] = FALSE]

Unlock(p) ==
    /\ Closed(p)
    /\ UNCHANGED <<lockFile, pidFile, socket, stolen>>

OpenByOther(p) == \E q \in Proc \ {p} : lockfd[q] = lockFile

\* unlink(_lock_file) in delete_lock(), after unlock().  An instance that was
\* put in a jail or has given up its rights does not reach the file any more,
\* and nobody looks at the result.
UnlinkLock(p, reaches) ==
    /\ IF reaches /\ lockFile # NoFile
       THEN lockFile' = NoFile /\ stolen' = (stolen \/ OpenByOther(p))
       ELSE UNCHANGED <<lockFile, stolen>>
    /\ UNCHANGED <<lockfd, holds, pidFile, socket>>

\* write_pid() truncates what it finds.
WritePid(p) ==
    /\ pidFile' = p
    /\ UNCHANGED <<lockVars, socket>>

DeletePid(p, reaches) ==
    /\ pidFile' = IF reaches THEN NoProc ELSE pidFile
    /\ UNCHANGED <<lockVars, socket>>

\* smfi_opensocket(true) removes the socket it finds and makes its own.
OpenSocket(p) ==
    /\ socket' = p
    /\ UNCHANGED <<lockVars, pidFile>>

\* Mutant of Left: an end without any trace of it.
LeftNothing(owner, p) == IF owner = p THEN NoFile ELSE owner

Left(owner, p) == IF owner = p THEN NoProc ELSE owner

\* The process ends: its files stay, and lead nowhere.
Ended(p) ==
    /\ Closed(p)
    /\ pidFile' = Left(pidFile, p)
    /\ socket' = Left(socket, p)
    /\ UNCHANGED <<lockFile, stolen>>

\* ~milter() removes the socket, whoever it leads to, and the process ends.
EndedWithoutSocket(p) ==
    /\ Closed(p)
    /\ pidFile' = Left(pidFile, p)
    /\ socket' = NoProc
    /\ UNCHANGED <<lockFile, stolen>>

FilesTypeOK ==
    /\ lockFile \in File \cup {NoFile}
    /\ lockfd \in [Proc -> File \cup {NoFile}]
    /\ holds \in [Proc -> BOOLEAN]
    /\ pidFile \in Owner
    /\ socket \in Owner
    /\ stolen \in BOOLEAN
=============================================================================
