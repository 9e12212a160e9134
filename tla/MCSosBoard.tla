----------------------------- MODULE MCSosBoard -----------------------------
(***************************************************************************)
(* A finite instance of SosBoard.                                          *)
(***************************************************************************)
EXTENDS SosBoard

CONSTANTS guard, dispatcher

MCProcessors == {guard, dispatcher}
=============================================================================
