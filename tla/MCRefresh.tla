----------------------------- MODULE MCRefresh ------------------------------
(***************************************************************************)
(* Small instances of Refresh for TLC.  The retries are what RetryPeriods  *)
(* makes of the lists {3, 1} and {2}.                                      *)
(***************************************************************************)
EXTENDS Refresh

CONSTANTS local, remote     \* two domains

\* local is refreshed, and retried for ever; remote is loaded once, and given
\* up after its list of retries.
MCRefreshSec == [n \in {local, remote} |-> IF n = local THEN 2 ELSE 0]
MCRetries    == [n \in {local, remote} |-> IF n = local THEN <<1, 2>> ELSE <<2>>]
MCRetrySec   == [n \in {local, remote} |-> IF n = local THEN 2 ELSE 0]

\* One domain, refreshed and retried for ever.
OneRefreshSec == [n \in {local} |-> 2]
OneRetries    == [n \in {local} |-> <<1>>]
OneRetrySec   == [n \in {local} |-> 2]
=============================================================================
