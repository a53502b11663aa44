SPECIFICATION Spec
CONSTANTS
  Sessions = {s1}
  Facts = {f1, f2}
  Keys = {k1, k2}
  None = None
  Foreign = Foreign
  MaxRevisions = 8
  MaxEdits = 1
SYMMETRY Symmetry
INVARIANTS
  TypeOK
  IntentFirst
  AppliedWasReviewed
  KeyStoresOnce
  StoresAgainReviewed
  AloneStoresOnce
PROPERTIES
  ConfirmedWritesSpec
