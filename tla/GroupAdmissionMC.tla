-------------------------- MODULE GroupAdmissionMC --------------------------
(* A small instance of GroupAdmission for TLC. *)
EXTENDS GroupAdmission
=============================================================================
