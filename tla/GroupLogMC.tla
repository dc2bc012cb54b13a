----------------------------- MODULE GroupLogMC -----------------------------
(* Small instances of GroupLog for TLC. *)
EXTENDS GroupLog, TLC

\* Members are interchangeable; sound for the runs without liveness.
MemberSymmetry == Permutations(Member)
=============================================================================
