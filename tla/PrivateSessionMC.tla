-------------------------- MODULE PrivateSessionMC --------------------------
(* Small instances of PrivateSession for TLC. *)
EXTENDS PrivateSession
=============================================================================
