CONSTANTS
  NShots = 3
  DeadTimes <- MCDeadTimes
  FallbackDeadTime = 3
  Holdoff = 1
  ReclaimTime = 3
  TickSizes <- MCTickSizes
  MaxFired = 5
  MaxDead = 3
SPECIFICATION LineSpec
INVARIANTS
  TypeOK
  BreakerFollowsPhase
  ReclosuresBounded
  SequencePositionAgrees
PROPERTIES
  ShotsAdvance
  ImplementsContract
  ReclosesOntoDeadLine
  SequenceEnds
  FaultResolved
