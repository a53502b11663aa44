SPECIFICATION Spec
CONSTANTS
  Searches = {s1}
  Workers = {w1}
  Streams = {}
  Keys = {k1}
  NoWorker = NoWorker
  NoSearch = NoSearch
  NoStatus = NoStatus
  MaxRuns = 1
  MaxSnapshots = 0
  MaxBeats = 0
  MaxCrashes = 0
  MaxRetentions = 0
CHECK_DEADLOCK FALSE
PROPERTIES
  CancelledStays
