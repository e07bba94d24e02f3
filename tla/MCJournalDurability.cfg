CONSTANTS
  Files = {"plan.bin", "task.bin"}
  InitFile <- MCInitFile
  Values = {1, 2}
  Garbage = Garbage
  MaxRecords = 2
  MaxWrites = 2
  MaxFaults = 3

SPECIFICATION Spec
INVARIANTS TypeOK CleanMeansDurable
PROPERTIES Durable

\* A journal that cannot be read is refused by every later writer.
CHECK_DEADLOCK FALSE
