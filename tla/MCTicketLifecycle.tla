------------------------- MODULE MCTicketLifecycle -------------------------
(* Small instances of TicketLifecycle; the bounds are in the .cfg files.   *)
EXTENDS TicketLifecycle, TLC

\* Users differ in nothing but the customer's identity.
UserSymmetry == Permutations(Users)
=============================================================================
