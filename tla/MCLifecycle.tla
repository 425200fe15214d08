---------------------------- MODULE MCLifecycle -----------------------------
(***************************************************************************)
(* Small instances of Lifecycle for TLC.                                   *)
(***************************************************************************)
EXTENDS Lifecycle, TLC

CONSTANTS p1, p2, milter, mail, wheel

MCGidOf == milter :> mail

Started(n, u, g, j, m) == [nodaemon |-> n, user |-> u, group |-> g, jail |-> j, masked |-> m]

\* A daemon of root beside one with an account and a jail, or beside an instance
\* in the foreground with a group; SIGUSR1 was blocked when the daemons were started.
MCOptions ==
    p1 :> {Started(FALSE, NoAccount, NoGid, FALSE, TRUE)}
    @@ p2 :> {Started(FALSE, milter, NoGid, TRUE, TRUE),
              Started(TRUE, milter, wheel, FALSE, FALSE)}

\* How systemd, with -n, and init start it: SIGUSR1 is not blocked.
PlainOptions == p1 :> {Started(n, NoAccount, NoGid, FALSE, FALSE) : n \in BOOLEAN}
=============================================================================
