SPECIFICATION Spec
CONSTANTS
  Input <- MCInput
  TargetList <- MCTargetList
  Pattern <- MCPattern
  Profile = {"default", "ot"}
  Ports <- MCPorts
  Proximity <- MCProximity
  Proto = {"NetBIOS-NS"}
  Exclusive = {"NetBIOS-NS"}
  Source = {5}
  MaxAddr = 7
  RangeCap = 2
  SweepCap = 8
  MaxCommand = 2
  MaxAudit = 2
INVARIANTS ProbedInScope ScoresAgree PathsAreShortest
PROPERTY ListenersStop
