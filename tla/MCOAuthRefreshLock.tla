-------------------------- MODULE MCOAuthRefreshLock --------------------------
(***************************************************************************)
(* Three processes: one that holds or leaves the lock, two that contend    *)
(* for it.                                                                 *)
(***************************************************************************)
EXTENDS OAuthRefreshLock

CONSTANTS p1, p2, p3

ThreeProcs == {p1, p2, p3}
=============================================================================
