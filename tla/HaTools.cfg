SPECIFICATION Spec
CONSTANTS
  Entities = {"s.x", "s.x_3", "b.y"}
  InScope = {"s.x", "s.x_3"}
  DomainOf <- MCDomainOf
  Stripped <- MCStripped
  Expected <- MCExpected
  Uids = {"c", "z", "w"}
  Canonical = {"c"}
  NoOne = NoOne
  MaxPairs = 2
  MaxOthers = 2
  Topics = {"t1", "tb"}
  BinaryTopics = {"tb"}
  PayloadUids = {"c1", "c3", "on", "c1_2", "v1", "sa", "else"}
  SensorUids = {"c1", "c3"}
  BinaryUids = {"on"}
  V1Uids = {"v1"}
  BaseOf <- MCBaseOf
  SaStyle = {"c1", "c3", "c1_2", "sa"}
  SpecSizes <- MCSpecs
  DaemonPayload <- MCDaemonPayload
  NoPayload = NoPayload
  MaxWrites = 1
INVARIANTS ReportTrue PlanHolds
PROPERTIES PurgeSound ClearedWasOrphan
CHECK_DEADLOCK FALSE
