------------------------------- MODULE Collision -------------------------------
(***************************************************************************)
(* Collision_System::update: every pair of its entities, each pair once.   *)
(* An entity is its Transform and its Box_Collider, in whole pixels.       *)
(***************************************************************************)
EXTENDS Integers, Sequences

\* The rectangle of a collider: offset and size are scaled.
Rectangle(e) ==
  [x |-> e.x + e.offset * e.scale, y |-> e.y + e.offset * e.scale,
   w |-> e.width * e.scale, h |-> e.height * e.scale]

\* A mutant of checkAABBCollision: boxes that only touch collide.
TouchOrOverlap(a, b) ==
  /\ a.x <= b.x + b.w /\ a.x + a.w > b.x
  /\ a.y < b.y + b.h  /\ a.y + a.h > b.y

checkAABBCollision(a, b) ==
  /\ a.x < b.x + b.w /\ a.x + a.w > b.x
  /\ a.y < b.y + b.h /\ a.y + a.h > b.y

\* A mutant of Collided: each entity is compared with the next one only.
CollidedWithNext(entities) ==
  {p \in (DOMAIN entities) \X (DOMAIN entities) :
     /\ p[2] = p[1] + 1
     /\ checkAABBCollision(Rectangle(entities[p[1]]), Rectangle(entities[p[2]]))}

\* The pairs update() reports, by their places in m_entities.
Collided(entities) ==
  {p \in (DOMAIN entities) \X (DOMAIN entities) :
     /\ p[1] < p[2]
     /\ checkAABBCollision(Rectangle(entities[p[1]]), Rectangle(entities[p[2]]))}
==============================================================================
