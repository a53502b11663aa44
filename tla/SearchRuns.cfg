SPECIFICATION Spec
CONSTANTS
  Searches = {s1}
  Workers = {w1, w2}
  Streams = {}
  Keys = {k1}
  NoWorker = NoWorker
  NoSearch = NoSearch
  NoStatus = NoStatus
  MaxRuns = 2
  MaxSnapshots = 0
  MaxBeats = 0
  MaxCrashes = 1
  MaxRetentions = 0
CHECK_DEADLOCK FALSE
SYMMETRY Symmetry
INVARIANTS
  TypeOK
  NoOrphan
  OneWorker
  HeartbeatOwned
PROPERTIES
  CancelLostOnlyToMark
  RestartFailsOnlyInterrupted
