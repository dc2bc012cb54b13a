---------------------------- MODULE PagePartsMC -----------------------------
(* Small instances of PageParts for TLC. *)
EXTENDS PageParts

\* Two members, in the order they were selected.
RecipientList == <<"r1", "r2">>

\* Neither two files of one sender nor two batches nor two pages of a call are
\* told apart.
Swap == Permutations({x1, x2})
=============================================================================
