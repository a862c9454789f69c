\* Three entities, one of which does not move, a movement system, a collision
\* system that is also rendered, as in a debug build, and one that is rendered
\* only; three systems are made.
SPECIFICATION Spec
CONSTANTS
  drawing = drawing  moving = moving  colliding = colliding  e1 = e1  e2 = e2  e3 = e3
  Types = {moving, colliding, drawing}
  Updateable = {moving, colliding}
  Renderable = {colliding, drawing}
  Movement = moving
  Collider = colliding
  Entities = {e1, e2, e3}
  Suits <- MCSuits
  Body <- MCBody
  Places = {0, 2}
  Velocity <- MCVelocity
  Horizon = 3
  MaxSystems = 3
INVARIANTS RunsWhatItFeeds
PROPERTIES ContactsReported
CHECK_DEADLOCK FALSE
