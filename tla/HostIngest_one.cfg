SPECIFICATION Spec
CONSTANTS
  Proc = {falcon}
  Addr = {ip1, ip2}
  HostName = {web}
  Port <- MCPort
  Public = {ip2}
  Network = {{ip1}, {ip2}, {ip1, ip2}}
  NoAddr = NoAddr
  NoName = NoName
  NoPort = NoPort
  BadAddr = BadAddr
  MaxIngest = 3
  MaxFault = 1
  MaxCrash = 1
CONSTRAINT Explored
INVARIANTS
  GraphIsWhole OneInterfacePerAddress OneServicePerEndpoint ServiceLinksAgree RecordedWhenDone
  DoneIsExplained EvidenceAgrees CountedOnce AttackPathsComplete
CHECK_DEADLOCK FALSE
