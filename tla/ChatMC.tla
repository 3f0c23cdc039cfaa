------------------------------- MODULE ChatMC -------------------------------
(* Instances of Chat for TLC. *)
EXTENDS Chat

CONSTANT m1
=============================================================================
