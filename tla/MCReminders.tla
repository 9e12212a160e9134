---------------------------- MODULE MCReminders ----------------------------
(***************************************************************************)
(* A finite instance of Reminders: two instances of the backend and two    *)
(* recipients, without symmetry because of the liveness property.          *)
(***************************************************************************)
EXTENDS Reminders

CONSTANTS r1, r2, w1, w2
=============================================================================
