SPECIFICATION FairSpec
CONSTANTS
  Handles = {h1}
  NoHandle = none
  MaxQueue = 2
  MaxConfirmations = 0
  PairMethods = {}
  Buttons = {"PD11", "PD12"}
PROPERTIES
  KeysAreTranslated
