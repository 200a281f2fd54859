CONSTANTS
  NSteps = 2
  Threshold <- MCThreshold
  ShedDelay <- MCShedDelay
  ShedMw <- MCShedMw
  LvrtThreshold = 88
  LvrtTime = 3
  HvrtThreshold = 110
  HvrtTime = 2
  LfThreshold = 480
  HfThreshold = 620
  ReconnectDelay = 3
  PrepareTime = 2
  MinAutonomy = 2
  CriticalShare = 1
  Parts = 2
  InitialLoad = 10
  DieselMax = 2
  DieselEndurance = 8
  Energies <- MCEnergies
  Loads <- MCLoads
  Voltages = {100}
  Frequencies = {500, 485}
  Renewables = {3}
  TimeSteps = {1}
  MaxIslanded = 3
  MaxViolation = 2
SPECIFICATION RunningSpec
PROPERTY ReconnectionCompletes
CHECK_DEADLOCK FALSE
