SPECIFICATION Spec
CONSTANTS
  Ids = {i1, i2}
  Clients = {c1, c2}
  Facts = {f1, f2}
  Answers = {a1}
  None = None
  Foreign = Foreign
  MaxVersion = 2
  MaxTime = 0
  Ttl = 1
  MinTtl = 1
  MaxEdits = 0
SYMMETRY Symmetry
INVARIANTS
  TypeOK
  Attributable
  SnapshotsExact
  AckedMatchesReceipt
PROPERTIES
  ReceiptsPermanent
  ReviewedApplySpec
