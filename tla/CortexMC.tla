------------------------------ MODULE CortexMC ------------------------------
(* A small instance of Cortex for TLC. *)
EXTENDS Cortex

MCOutputs == {<<>>, <<"finish">>, <<"error">>, <<"nonterminal">>, <<"nonterminal", "finish">>}
=============================================================================
