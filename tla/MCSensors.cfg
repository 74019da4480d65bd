SPECIFICATION Spec
CONSTANTS
  Roms = {r1, r2}
  Macs = {m1, m2}
  Mqtt = mqtt
  MaxDs = 1
  MaxDev = 1
  Fresh = 2
  None = None
INVARIANTS TypeOK ShownIsFromSource ShownIsAssigned SilentIsNotShown
SYMMETRY Symmetry
