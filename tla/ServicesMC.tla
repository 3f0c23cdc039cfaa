----------------------------- MODULE ServicesMC -----------------------------
(* Instances of Services for TLC. *)
EXTENDS Services

CONSTANTS convey, server

=============================================================================
