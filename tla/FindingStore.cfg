SPECIFICATION Spec
CONSTANTS
  Proc = {falcon}
  Key = {rdp, multi}
  Text = {old, new}
  Evidence = {ev1}
  NoKey = NoKey
  MaxRun = 3
  MaxChange = 3
  MaxFault = 1
  MaxCrash = 1
INVARIANTS TypeOK OneFindingPerKey ReportedIsStored CountsAgree SnapshotsResolve
CHECK_DEADLOCK FALSE
