CONSTANTS
  NSteps = 2
  Threshold <- MCThreshold
  ShedDelay <- MCShedDelay
  ShedMw <- MCShedMw
  LvrtThreshold = 88
  LvrtTime = 3
  HvrtThreshold = 110
  HvrtTime = 2
  LfThreshold = 480
  HfThreshold = 620
  ReconnectDelay = 3
  PrepareTime = 2
  MinAutonomy = 2
  CriticalShare = 1
  Parts = 2
  InitialLoad = 10
  DieselMax = 2
  DieselEndurance = 8
  Energies <- MCEnergies
  Loads <- MCLoads
  Voltages <- MCVoltages
  Frequencies <- MCFrequencies
  Renewables <- MCRenewables
  TimeSteps <- MCTimeSteps
  MaxIslanded = 3
  MaxViolation = 2
SPECIFICATION MicrogridSpec
INVARIANTS
  ShedsInOrder
  AutonomyHonoured
PROPERTIES
  RidesThrough
  LoadShedsBeforeTrip
CHECK_DEADLOCK FALSE
