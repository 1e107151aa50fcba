--------------------------- MODULE MCApiTransport ---------------------------
(* Instances of ApiTransport for TLC. *)
EXTENDS ApiTransport, TLC

CONSTANTS c1, c2
=============================================================================
