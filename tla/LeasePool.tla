------------------------------- MODULE LeasePool -------------------------------
(***************************************************************************)
(* What a limiter scope promises, whatever implements it: a set of holders *)
(* that never exceeds the limit.  shared-limiter.ts implements it per      *)
(* scope, and provider-attempt-admission.ts carries it over to the work    *)
(* that actually runs at a provider.                                       *)
(***************************************************************************)
EXTENDS Integers, FiniteSets

CONSTANTS
  Clients,  \* whoever may hold a lease
  Limit     \* slots of the scope

VARIABLE holders

Init == holders = {}

\* A client gets a slot while one is free.
Take(c) ==
  /\ c \notin holders
  /\ Cardinality(holders) < Limit
  /\ holders' = holders \cup {c}

\* A slot comes back: given up by its client, or expired under it.
Give(c) ==
  /\ c \in holders
  /\ holders' = holders \ {c}

Next == \E c \in Clients : Take(c) \/ Give(c)

Spec == Init /\ [][Next]_holders
=============================================================================
