SPECIFICATION PoolSpec
CONSTANTS
  MaxJobs = 3
  MaxWorkers = 4
  Burst = 2
  MaxRefill = 2
  Nothing = Nothing
INVARIANTS EachJobOnce NoAnswerLost QuietAfterClose RateRespected CancelStopsProbing
PROPERTY Returns
CHECK_DEADLOCK FALSE
