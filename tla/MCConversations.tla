-------------------------- MODULE MCConversations --------------------------
(***************************************************************************)
(* A finite instance of Conversations, in which one message is past the    *)
(* window.                                                                 *)
(***************************************************************************)
EXTENDS Conversations, TLC

CONSTANTS c1, c2, c3

MCSymmetry == Permutations(Calls)
=============================================================================
