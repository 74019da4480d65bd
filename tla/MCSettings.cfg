SPECIFICATION Spec
CONSTANTS
  Writers <- MCWriters
  MainTask = "main"
  Keys <- MCKeys
  TailKeys = {"ap_step_ms"}
  Values = {0, 1}
  Default <- MCDefault
  Bump <- MCBump
  MaxRequests = 3
  MaxBoots = 2
INVARIANTS DurableUnlessFailed MainIsCurrentUnlessRaced
PROPERTIES PowerCycleKeeps UndisturbedRequestChangesOneField
CHECK_DEADLOCK FALSE
