----------------------------- MODULE MCWsReplay -----------------------------
(* Instances of WsReplay for TLC. *)
EXTENDS WsReplay, TLC

CONSTANTS c1, jobs, logs

JobsOnly == c1 :> {jobs}
=============================================================================
