--------------------------- MODULE MCEntityManager ---------------------------
(***************************************************************************)
(* Small instances of EntityManager: component types 0 and 1 fit into a    *)
(* signature and 2 does not; one system requires nothing, as a System with *)
(* no requireComponent does, one requires both types.                      *)
(***************************************************************************)
EXTENDS EntityManager, TLC

ThreeComponents == 0 .. 2
TwoComponents == 0 .. 1

TwoSystems == "any" :> {} @@ "both" :> {0, 1}
==============================================================================
