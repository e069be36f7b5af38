SPECIFICATION Spec
CONSTANTS
  Proc = {falcon, ctl}
  Addr = {ip1}
  HostName = {web}
  Port = {p80}
  NoAddr = NoAddr
  NoName = NoName
  NoPort = NoPort
  BadAddr = BadAddr
  MaxIngest = 2
  MaxFault = 0
  MaxCrash = 0
INVARIANTS RowsBelowSequence ReferencesResolve
CHECK_DEADLOCK FALSE
