----------------------------- MODULE MCMeetings -----------------------------
(***************************************************************************)
(* A finite instance of Meetings: one flat of 100.01 square metres, so     *)
(* that shares are rounded, with two owners who come and go, a simple and  *)
(* a qualified item.  No symmetry, as a property is temporal.              *)
(***************************************************************************)
EXTENDS Meetings

CONSTANTS flat, aliya, berik, c1, c2

MCArea == [u \in Units |-> 10001]
=============================================================================
