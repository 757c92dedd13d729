SPECIFICATION Spec
CONSTANTS
  put = put
  prefs = prefs
  click = click
  get = get
  n1 = n1
  n2 = n2
  AppPuts = {put}
  PrefsPuts = {}
  Toggles = {click}
  Gets = {get}
  Notices = {n1, n2}
  StartFiles <- SoundOrDamaged
  PutPrefs <- JustPaused
  MaxFailures = 1
  MaxRestarts = 1
INVARIANTS
  OneFailureOneRejection
PROPERTIES
  StoreIsSerial
  EveryUpdateSettles
CHECK_DEADLOCK FALSE
