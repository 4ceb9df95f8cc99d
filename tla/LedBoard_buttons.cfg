SPECIFICATION Spec
CONSTANTS
  keypad = keypad
  stranger = stranger
  none = none
  Devices = {keypad, stranger}
  NoDevice = none
  MatchingBytes <- SameMaker
  Values = {1}
  Protected = FALSE
  Failures = TRUE
  TakesZeroHandle = TRUE
  SlowLoss = TRUE
  PairMethods = {}
  Buttons = {"PF6"}
  MaxQueue = 3
  MaxCheck = 9
INVARIANTS
  TypeOK
  DiscoveryStallsOnlyWithoutHandles
  WaitMeansReady
  ScreenAgrees
  IdleBoardScans
