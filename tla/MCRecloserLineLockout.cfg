CONSTANTS
  NShots = 3
  DeadTimes <- MCDeadTimes
  FallbackDeadTime = 3
  Holdoff = 1
  ReclaimTime = 3
  TickSizes <- MCTickSizes
  MaxFired = 5
  MaxDead = 3
SPECIFICATION UnattendedSpec
PROPERTY LockoutOnlyWhenExhausted
