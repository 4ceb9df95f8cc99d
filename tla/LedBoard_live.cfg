SPECIFICATION FairSpec
CONSTANTS
  keypad = keypad
  stranger = stranger
  none = none
  Devices = {keypad}
  NoDevice = none
  MatchingBytes <- KeypadOnly
  Values = {0, 1}
  Protected = TRUE
  Failures = FALSE
  TakesZeroHandle = TRUE
  SlowLoss = TRUE
  PairMethods = {"comparison", "entry"}
  Buttons = {}
  MaxQueue = 3
  MaxCheck = 6
INVARIANTS
  DiscoveryHasWakeup
  ScreenAgrees
PROPERTIES
  LinkGetsDiscovered
