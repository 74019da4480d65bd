SPECIFICATION FairSpec
CONSTANTS
  Seconds = 5
  Sub = 2
  Scheds <- MCScheds
  Levels = {20, 90}
  BootLevel = 180
  Full = 255
INVARIANTS TypeOK InterludesKept HeldAtMostAMinute BrightnessUnlessRungOver
PROPERTIES RunsEnd
