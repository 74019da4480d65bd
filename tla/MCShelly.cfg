SPECIFICATION ShellySpec
CONSTANTS
  Senders = {"a", "b", "c", "wrong"}
  Error <- MCError
  MaxSenders = 3
  Late <- MCLate
  Fresh = 1
  ReqWait = 2
  Daily = 3
  FirstDaily = 1
  Retry = 2
  Never = Never
INVARIANTS ShellyTypeOK MajorityRules NoDayMissed
PROPERTIES RequestAnswered
