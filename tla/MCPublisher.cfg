SPECIFICATION PublisherSpec
CONSTANTS
  Roms = {r1}
  MaxVersion = 1
  MaxScans = 2
  MaxBreaks = 2
INVARIANTS PublisherTypeOK NoneUnannounced
PROPERTY BrokerSettles
