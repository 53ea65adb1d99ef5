-------------------------------- MODULE MCRetry --------------------------------
(***************************************************************************)
(* Instances of RetryClient for TLC: only the clients send operations.     *)
(***************************************************************************)
EXTENDS RetryClient

Empty == {}
=============================================================================
