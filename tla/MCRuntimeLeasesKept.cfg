CONSTANTS
  r1 = r1
  r2 = r2
  Runners <- MCRunners
  Boot = boot
  Jobs = {0}
  MaxAttempts = 2
  LeaseDuration = 2
  RetryDelay = 1
  Tokens = {1, 2, 3, 4, 5, 6}
  MaxClock = 4
  Faults = {}
  MaxFaults = 0
SPECIFICATION Spec
INVARIANTS LiveLeaseKept
