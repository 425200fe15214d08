--------------------------- MODULE MCRetryPeriods ---------------------------
(***************************************************************************)
(* Every list of up to MaxLen periods, positive or not, for TLC.           *)
(***************************************************************************)
EXTENDS RetryPeriods

MCPeriod == -1 .. 5
=============================================================================
