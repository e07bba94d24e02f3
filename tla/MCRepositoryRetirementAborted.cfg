CONSTANTS
  MaxJobs = 1
  MaxErrors = 2
  MaxCrashes = 0
  Absent = Absent
SPECIFICATION Spec
INVARIANTS ActiveHasNoJournal
