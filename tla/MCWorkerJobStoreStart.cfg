CONSTANTS
  MaxJobs = 1
  MaxAttempts = 1
  Faults = {"crash"}
  MaxFaults = 1
SPECIFICATION FairSpec
PROPERTIES StartSucceeds
