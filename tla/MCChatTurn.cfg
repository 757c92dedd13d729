SPECIFICATION Spec
CONSTANTS
  a = a
  b = b
  No = No
  Chats = {a, b}
  Start = No
  Existing = {a}
  MaxSends = 2
  MaxFrames = 2
  MaxTroubles = 1
INVARIANTS
  TypeOK
  ShownOnce
PROPERTIES
  NothingVanishes
  WatchedIsRead
  TurnSettles
CHECK_DEADLOCK FALSE
