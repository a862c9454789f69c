SPECIFICATION FairSpec
CONSTANTS
  Producers = {p1, p2}
  Consumers = {c1}
  NoThread = NoThread
  Items = {m1, m2}
  MaxLen = 3
  MaxMessages = {0, 1, 3}
INVARIANTS
  NoLockCycle
  WaitYieldsMessage
PROPERTIES
  ImplementsMailbox
  PushWakes
