SPECIFICATION Spec
CONSTANTS
  MaxRun = 2
  MaxCollector = 3
  MaxFault = 2
  MaxCrash = 1
  NoRow = NoRow
INVARIANTS EveryCollectorAccounted RunningIsExplained ReturnedIsStored
PROPERTIES LifecycleSpec Terminates
CHECK_DEADLOCK FALSE
