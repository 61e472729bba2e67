------------------------------- MODULE MCRetry -------------------------------
(* Retry for TLC: the policies of the runs are in their configurations.     *)
EXTENDS Retry
=============================================================================
