--------------------------- MODULE MCReconcileLedger ---------------------------
(***************************************************************************)
(* ReconcileLedger for TLC: two runners, an order of two units, one unit   *)
(* held before, so that a sale of both is cut.                             *)
(***************************************************************************)
EXTENDS ReconcileLedger, TLC

CONSTANTS w1, w2

TwoRunners == {w1, w2}
OneRunner == {w1}
=============================================================================
