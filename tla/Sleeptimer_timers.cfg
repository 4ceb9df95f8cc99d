SPECIFICATION Spec
CONSTANTS
  Timer = {"lcd", "other"}
  NoTimer = "none"
  Priority <- TwoPriorities
  Width = 9
  Timeouts = {1, 4}
  HfTimers = {"other"}
  RestoreDelay = 3
  Latency = 1
  MaxLate = 2
INVARIANTS TypeOK WakeupSet PlannedInTime TickCountAgrees
PROPERTY TimersKept
