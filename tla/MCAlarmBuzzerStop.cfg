SPECIFICATION Spec
CONSTANTS
  Main = main
  Workers = {worker}
  NoOne = none
  Notes = 2
  Pitched = {1}
  Commands = {"snooze", "dismiss"}
  MaxRings = 1
  MaxCommands = 2
INVARIANT StopStopsPlayback
