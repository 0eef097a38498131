----------------------------- MODULE MCFileLimiter -----------------------------
(***************************************************************************)
(* Two processes with a call each, which either of them may make first,    *)
(* and status queries, which prune: a slot goes from a lapsed lease        *)
(* through one process's prune to a new lease while the other is about to  *)
(* prune what it saw.                                                      *)
(***************************************************************************)
EXTENDS FileLimiter

CONSTANTS p1, p2, c1, c2

TwoProcs == {p1, p2}
MCBorn == [x \in TwoProcs |-> IF x = p1 THEN 1 ELSE 2]
TwoCalls == {c1, c2}
MCProcOf == [x \in TwoCalls |-> IF x = c1 THEN p1 ELSE p2]
=============================================================================
