SPECIFICATION Spec
CONSTANTS
  Sources = {2}
  Zones = {"UTC", "CET"}
  Offset <- MCOffset
  MaxDrift = 1
  None = None
  Approx = Approx
  Lost = Lost
INVARIANTS TypeOK SetsAgree ZoneApplied
PROPERTY SeedIsTrue
