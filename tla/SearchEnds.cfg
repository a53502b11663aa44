SPECIFICATION Spec
CONSTANTS
  Searches = {s1}
  Workers = {w1}
  Streams = {r1}
  Keys = {k1}
  NoWorker = NoWorker
  NoSearch = NoSearch
  NoStatus = NoStatus
  MaxRuns = 1
  MaxSnapshots = 1
  MaxBeats = 1
  MaxCrashes = 0
  MaxRetentions = 1
CHECK_DEADLOCK FALSE
PROPERTIES
  SearchEnds
  HeartbeatStops
  StreamCloses
