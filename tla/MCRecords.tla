----------------------------- MODULE MCRecords -----------------------------
(***************************************************************************)
(* A finite instance of Records.  Two handlers at a time are enough for    *)
(* every race the properties speak of.  Records that share no state share  *)
(* model values, so that the symmetry is small: p1 and p2 stand for the    *)
(* two accounts, residents or employees.                                   *)
(***************************************************************************)
EXTENDS Records, TLC

CONSTANTS c1, c2, p1, p2, k1, k2, water, may, flat, loft, resident

\* Both units are of one complex, so that one claim can keep a resident there
\* when another is rejected.
Together == [u \in Units |-> "north"]

MCSymmetry == Permutations(Calls) \cup Permutations(People)
=============================================================================
