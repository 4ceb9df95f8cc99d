SPECIFICATION Spec
CONSTANTS
  Timeouts = {1, 2, 4, 8}
  MinimumOfftime = 1
  WakeupDelay = 3
  Latency = 2
  MaxRequirements = 3
INVARIANTS TypeOK RequirementsBalanced ClocksWhereNeeded RestoreStartsInTime ListenersKnowMode
