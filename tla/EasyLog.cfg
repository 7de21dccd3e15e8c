SPECIFICATION Spec
CONSTANTS
  RecordSum = 3
  LogSum = 3
  CountModulo = 10
  MaxRecords = 22
  MaxRestarts = 1
INVARIANTS
  NewestKept
  FilesInOrder
CHECK_DEADLOCK FALSE
