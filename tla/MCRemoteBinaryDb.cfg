CONSTANTS
  w1 = w1
  w2 = w2
  Writers <- MCWriters
  Readers = {r1}
  UsedScopes <- MCUsedScopes
  Files <- MCFiles
  IndexFiles <- MCIndexFiles
  FamilyOf <- MCFamilyOf
  Values = {1, 2}
  InitFile <- MCInitFile
  MaxRecords = 2
  MaxWrites = 1
  Faults = {"crash", "io", "unlinkSync"}
  MaxFaults = 2
SPECIFICATION Spec
INVARIANTS TypeOK JournalsDisjoint WriteExclusion FreshJournal ScanStaysValid ReadsUnlessInterrupted GateNeverWaits
PROPERTIES Transactional
SYMMETRY Symmetry
