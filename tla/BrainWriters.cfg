SPECIFICATION BSpec
CONSTANTS
  Ids = {i1}
  Clients = {c1}
  Writers = {w1}
  Reviews = {v1}
  Keepers = {k1}
  Facts = {f1, f2}
  Answers = {}
  None = None
  Foreign = Foreign
  MaxVersion = 2
  MaxTime = 0
  Ttl = 1
  MinTtl = 1
  MaxEdits = 2
SYMMETRY Symmetry
INVARIANTS
  PreviewsTypeOK
  TombstonesHold
  AttributableUnlessStale
  FromAnApply
  SnapshotsExact
PROPERTIES
  PreviewsPermanent
  LostOnlyReviewed
