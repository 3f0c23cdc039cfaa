----------------------------- MODULE CallosumMC -----------------------------
(* An instance of Callosum for TLC: a sends, b only listens. *)
EXTENDS Callosum, TLC

CONSTANTS a, b

OneSender == (a :> 2) @@ (b :> 0)
=============================================================================
