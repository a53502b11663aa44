SPECIFICATION Spec
CONSTANTS
  Txs = {t1, t2}
  Own = Own
  Writers = {w1}
  NoDir = NoDir
  NoCopy = NoCopy
  NoRecord = NoRecord
  MaxEdits = 1
  MaxFaults = 2
  MaxCrashes = 1
  MaxRemakes = 1
  MaxMishaps = 3
CHECK_DEADLOCK FALSE
SYMMETRY Symmetry
INVARIANTS
  TypeOK
  BackupRetained
  ReceiptsApplied
  ApplyRecovers
  RollbackReverts
PROPERTIES
  QuietEditsKept
  SettledIsBefore
