----------------------------- MODULE MCAdmission -----------------------------
(***************************************************************************)
(* A small Hub process: four requests, of which two use the shared lease   *)
(* and two may overflow to a job.  The .cfg files give the two limits.     *)
(***************************************************************************)
EXTENDS AdmissionControl

CONSTANTS r1, r2, r3, r4

MCRequests == {r1, r2, r3, r4}
MCShared   == {r1, r2}
MCOverflow == {r2, r4}
=============================================================================
