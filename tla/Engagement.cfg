SPECIFICATION Spec
CONSTANTS
  MaxCall = 4
  MaxFault = 1
  Input <- MCInput
  Pattern <- MCPattern
  File <- MCFile
  ClockId = {2}
  Entity = {"asset"}
  TagName = {"prod", "lab"}
  Content = {"note"}
  QueryName = {"open"}
  Command = {"ports", "hosts"}
  Title = {"blue"}
  SnapName <- MCSnapName
  Key = {"rdp"}
  Text = {"old", "new"}
INVARIANTS ExclusionsHold AcknowledgedIsListed SnapshotsAgree
CHECK_DEADLOCK FALSE
