SPECIFICATION FairSpec
CONSTANTS
  Main = main
  Workers = {worker}
  NoOne = none
  Notes = 2
  Pitched = {1}
  Commands = {"snooze", "dismiss", "preview"}
  MaxRings = 1
  MaxCommands = 2
PROPERTIES RingingSounds StopsInTheEnd KeepsPromise
