---------------------------- MODULE MCAdmission ----------------------------
(***************************************************************************)
(* Model values for checking Admission with TLC: three requests for two    *)
(* slots.                                                                  *)
(***************************************************************************)
EXTENDS Admission

CONSTANTS r1, r2, r3

ThreeRequests == {r1, r2, r3}
=============================================================================
