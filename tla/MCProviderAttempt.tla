--------------------------- MODULE MCProviderAttempt ---------------------------
(***************************************************************************)
(* Two calls of one provider that has a single slot.                       *)
(***************************************************************************)
EXTENDS ProviderAttempt

CONSTANTS c1, c2

TwoCalls == {c1, c2}
=============================================================================
