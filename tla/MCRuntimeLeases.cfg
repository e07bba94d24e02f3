CONSTANTS
  r1 = r1
  r2 = r2
  Runners <- MCRunners
  Boot = boot
  Jobs = {0}
  MaxAttempts = 2
  LeaseDuration = 1
  RetryDelay = 0
  Tokens = {1, 2, 3, 4, 5, 6}
  MaxClock = 3
  Faults = {"crash", "torn", "io"}
  MaxFaults = 2
SPECIFICATION FairSpec
INVARIANTS TypeOK GrantBacked SuccessHasEvidence
PROPERTIES LostLeaseIsResolved FinishedStays
