---------------------------- MODULE CatchupStateMC ----------------------------
(* Small instances of CatchupState for TLC. *)
EXTENDS CatchupState

MCOneDay == 1 .. 1
MCNoDays == {}
MCOneDelay == <<1>>

\* Bound: a behaviour has new data, a mark or a request, or a failing access.
MCNewsOrFault == news + faults <= 1
===============================================================================
