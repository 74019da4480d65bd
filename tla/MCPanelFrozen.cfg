SPECIFICATION Spec
CONSTANTS
  Up = up
  Down = down_
  Provision = prov
  Snooze = snooze
  Buttons = {prov}
  DarkSets <- MCDarkSets
  DebounceTime = 1
  ProvisionTime = 8
  FactoryTime = 12
  SnoozeLongTime = 2
  ComboTime = 3
  Bounce = 1
  MinDwell = 3
  Fingers = 1
INVARIANT ProvisionTakesAHold
