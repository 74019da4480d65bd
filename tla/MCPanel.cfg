SPECIFICATION Spec
CONSTANTS
  Up = up
  Down = down_
  Provision = prov
  Snooze = snooze
  Buttons = {up, down_, prov, snooze}
  DarkSets <- MCDarkSets
  DebounceTime = 1
  ProvisionTime = 3
  FactoryTime = 5
  SnoozeLongTime = 2
  ComboTime = 3
  Bounce = 1
  MinDwell = 3
  Fingers = 2
INVARIANTS HoldsAreReal SampledIsStable OneEventPerPress CombinationIsHeld
PROPERTIES TogglesOncePerHold
