CONSTANTS
  NBus = 3
  NBranch = 1
  Window = 2
  VCritHigh = 110
  VHigh = 105
  VLow = 95
  VCritLow = 90
  FCritHigh = 505
  FHigh = 502
  FLow = 498
  FCritLow = 495
  LoadCrit = 100
  LoadWarn = 80
  From <- MCFrom
  To <- MCTo
  InService <- MCInService
  Staleness = 1
  RunSE = TRUE
  FlatVoltage = 100
  FlatFrequency = 500
  PhasorFloor = 50
  NoReading <- MCNoReading
  Batches <- MCBatches
  FlowEstimates <- MCFlowEstimates
  Suppressible <- MCSuppressible
  AckIds = {0, 1}
  MaxBatches = 5
SPECIFICATION TwinSpec
INVARIANTS
  AlertsSpaced
  ViolationsCovered
  LatestReportKept
CHECK_DEADLOCK FALSE
