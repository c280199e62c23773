--------------------------- MODULE MCTicketMirror ---------------------------
(* Small instances of TicketMirror; the bounds are in the .cfg files.      *)
EXTENDS TicketMirror
=============================================================================
