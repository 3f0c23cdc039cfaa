------------------------------ MODULE SenseMC ------------------------------
(***************************************************************************)
(* An instance of Sense for TLC.  Files f1 (audio) and f2 (video) belong   *)
(* to segment s1, f3 (audio) and f4 (which no handler wants) to s2.        *)
(***************************************************************************)
EXTENDS Sense, TLC

CONSTANTS s1, s2, k1, k2, f1, f2, f3, f4, transcribe, describe

OwnName == (s1 :> k1) @@ (s2 :> k2)
MCFilesOf == (s1 :> {f1, f2}) @@ (s2 :> {f3, f4})
MCHandlerOf == (f1 :> transcribe) @@ (f2 :> describe) @@ (f3 :> transcribe)
               @@ (f4 :> None)
MCWorkers == (transcribe :> 1) @@ (describe :> 1)
=============================================================================
