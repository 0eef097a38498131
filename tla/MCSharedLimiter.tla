---------------------------- MODULE MCSharedLimiter ----------------------------
(***************************************************************************)
(* Two calls of one team: both find a slot in the global scope, the second *)
(* one behind the first, and contend for the team's only slot, where one   *)
(* of them is refused with the global lease in hand.                       *)
(***************************************************************************)
EXTENDS SharedLimiter

CONSTANTS c1, c2

TwoCalls == {c1, c2}
MCScopes == {"global", "team"}
MCScopesOf == [c \in TwoCalls |-> <<"global", "team">>]
MCLimit == [s \in MCScopes |-> IF s = "global" THEN 2 ELSE 1]
=============================================================================
