--------------------------- MODULE GroupTicketsMC ---------------------------
(* Small instances of GroupTickets for TLC. *)
EXTENDS GroupTickets, TLC

\* Members are interchangeable.
MemberSymmetry == Permutations(Member)
=============================================================================
