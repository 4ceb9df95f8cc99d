SPECIFICATION Spec
CONSTANTS
  Handles = {h1, h2}
  NoHandle = none
  MaxQueue = 2
  MaxConfirmations = 1
  PairMethods = {"comparison", "entry"}
  Buttons = {"PF6"}
SYMMETRY HandleSymmetry
INVARIANTS
  NotificationsPaced
  DrainedBoardAgreesWithStack
  ScreenAgrees
PROPERTIES
  LifeCycle
