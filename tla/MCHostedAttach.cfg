SPECIFICATION Spec
CONSTANTS
  a = a
  b = b
  No = No
  Sessions = {a, b}
  Hosted = {a}
  Slow = {a}
  Kills = {a}
  MaxClicks = 3
  MaxFailures = 1
  MaxPanels = 2
INVARIANTS
  TypeOK
  ShownIsSelected
  AttachedToWhatIsShown
PROPERTIES
  PassingByEndsNothing
  EndIsNoticed
CHECK_DEADLOCK FALSE
