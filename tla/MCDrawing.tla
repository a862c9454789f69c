------------------------------- MODULE MCDrawing -------------------------------
(* Instances of Drawing for TLC. *)
EXTENDS Drawing, TLC

CONSTANTS a1, a2, e1, e2, e3

MCAssetOf == (e1 :> a1) @@ (e2 :> a2) @@ (e3 :> a1)
==============================================================================
