---------------------------- MODULE MCOnboarding ----------------------------
(* Small instances of Onboarding; the bounds are in the .cfg files.        *)
EXTENDS Onboarding
=============================================================================
