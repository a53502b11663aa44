SPECIFICATION Spec
CONSTANTS
  Sessions = {s1}
  Facts = {f1}
  Keys = {k1, k2}
  None = None
  Foreign = Foreign
  MaxRevisions = 9
  MaxEdits = 1
SYMMETRY Symmetry
PROPERTIES
  AppliedOnce
