------------------------------- MODULE MCServer -------------------------------
(***************************************************************************)
(* Small instances of Server: three clients, all alike, so that two can be *)
(* in the list while one is accepted or dropped.                           *)
(***************************************************************************)
EXTENDS Server, TLC

ClientSymmetry == Permutations(Clients)
==============================================================================
