SPECIFICATION FairSpec
CONSTANTS
  Handles = {h1}
  NoHandle = none
  MaxQueue = 1
  MaxConfirmations = 0
  PairMethods = {}
  Buttons = {"PD11", "PD12"}
INVARIANTS
  TypeOK
  AttributeFollowsKeys
PROPERTIES
  LostLinkReadvertised
  EdgeReachesAttribute
