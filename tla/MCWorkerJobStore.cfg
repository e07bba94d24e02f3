CONSTANTS
  MaxJobs = 2
  MaxAttempts = 2
  Faults = {"io", "crash", "torn"}
  MaxFaults = 2
SPECIFICATION Spec
INVARIANTS TypeOK TornRowIsProtected AnswersHold AckedIsListed BoundIsPublished
PROPERTIES AtomicOperations
CHECK_DEADLOCK FALSE
