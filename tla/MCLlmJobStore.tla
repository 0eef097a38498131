----------------------------- MODULE MCLlmJobStore -----------------------------
(***************************************************************************)
(* One job and four runs: the run that answers, the run or timer that      *)
(* follows it, and two to spare.                                           *)
(***************************************************************************)
EXTENDS LlmJobStore

CONSTANTS j1, x1, x2, x3, x4

OneJob == {j1}
FourRuns == {x1, x2, x3, x4}
=============================================================================
