SPECIFICATION FairSpec
CONSTANTS
  DayLen = 4
  LastMinute = 10
  Configs <- MCConfigs
  DefaultSnooze = 2
  MaxBack = 2
  MaxEvents = 3
INVARIANT NoOccurrenceMissed
PROPERTIES RingsOncePerOccurrence DismissedUntilMidnight SnoozeEnds KeepsPromise
CHECK_DEADLOCK FALSE
