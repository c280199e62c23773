---------------------------- MODULE MCTeamGroup -----------------------------
(* Small instances of TeamGroup; the bounds are in the .cfg files.         *)
EXTENDS TeamGroup, TLC

CONSTANTS p1, n1, n2

\* p1 has the username n1; n2 is free, for p1 or somebody else to take.
OneNamed == n1 :> p1 @@ n2 :> Nobody
=============================================================================
