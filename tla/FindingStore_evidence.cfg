SPECIFICATION Spec
CONSTANTS
  Proc = {falcon}
  Key = {rdp}
  Text = {old}
  Evidence = {ev1}
  NoKey = NoKey
  MaxRun = 2
  MaxChange = 2
  MaxFault = 0
  MaxCrash = 0
INVARIANT EvidenceIsStored
CHECK_DEADLOCK FALSE
