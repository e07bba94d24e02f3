CONSTANTS
  MaxJobs = 3
  MaxErrors = 3
  MaxCrashes = 3
  Absent = Absent
SPECIFICATION FairSpec
INVARIANTS TypeOK PurgedIsNormalized FailedPurgeIsUndone PurgeCanBeUndone
PROPERTIES ServerComesBack
