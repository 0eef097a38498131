--------------------------- MODULE MCCircuitBreaker ---------------------------
(***************************************************************************)
(* Three callers and a threshold of two: enough failures in flight to open *)
(* the circuit while another call of before the outage is still out.       *)
(***************************************************************************)
EXTENDS CircuitBreaker

CONSTANTS k1, k2, k3

MCCallers == {k1, k2, k3}
=============================================================================
