---------------------------- MODULE MCUnifiedCaller ----------------------------
(***************************************************************************)
(* Two requests with the same key, which may join or follow each other,    *)
(* beside one whose chain is longer: g1 and g2 are two models of one       *)
(* provider, each with a circuit of its own, so a full provider is passed  *)
(* by, a cooldown takes both routes away and a circuit only one.           *)
(***************************************************************************)
EXTENDS UnifiedCaller, TLC

CONSTANTS r1, r2, r3, k1, k2, g1, g2, groq, luna, edu, q1, q2

ThreeRequests == {r1, r2, r3}
MCKeyOf == [r \in ThreeRequests |-> IF r = r1 THEN k1 ELSE k2]
MCTeamOf == [r \in ThreeRequests |-> IF r = r1 THEN luna ELSE edu]
MCCostOf == [r \in ThreeRequests |-> 1]
MCChainOf == k1 :> <<g1, g2>> @@ k2 :> <<g1>>
MCProviderOf == [x \in {g1, g2} |-> groq]
MCCircuitOf == [x \in {g1, g2} |-> x]
MCQuota == [t \in {luna, edu} |-> 2]
=============================================================================
