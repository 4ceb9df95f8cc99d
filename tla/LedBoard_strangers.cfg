SPECIFICATION Spec
CONSTANTS
  keypad = keypad
  stranger = stranger
  none = none
  Devices = {keypad, stranger}
  NoDevice = none
  MatchingBytes <- SameMaker
  Values = {1}
  Protected = FALSE
  Failures = FALSE
  TakesZeroHandle = FALSE
  SlowLoss = TRUE
  PairMethods = {}
  Buttons = {}
  MaxQueue = 2
  MaxCheck = 6
INVARIANTS
  ConnectsToServer
