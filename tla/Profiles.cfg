\* Two timers and the game, three profiles, two results files that may be opened
\* again.
SPECIFICATION Spec
CONSTANTS
  Paths = {p1, p2}
  Timers = {t1, t2}
  NoPath = NoPath
  Game = Game
  Nobody = Nobody
  MaxProfiles = 3
INVARIANTS FilesWellFormed ProfilesAccounted
CHECK_DEADLOCK FALSE
