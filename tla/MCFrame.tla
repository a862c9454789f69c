-------------------------------- MODULE MCFrame --------------------------------
(* Instances of Frame for TLC. *)
EXTENDS Frame

CONSTANTS moving, colliding, drawing, e1, e2, e3

\* e3 has no Rigid_Body; e1 and e2 move towards each other.
MCSuits == [e \in {e1, e2, e3} |-> IF e = e3 THEN {colliding} ELSE {moving, colliding}]
MCVelocity == [e \in {e1, e2, e3} |-> CASE e = e1 -> 1 [] e = e2 -> -1 [] e = e3 -> 0]
MCBody == [e \in {e1, e2, e3} |-> [offset |-> 0, scale |-> 1, width |-> 2, height |-> 1]]
==============================================================================
