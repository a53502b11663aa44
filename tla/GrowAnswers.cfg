SPECIFICATION Spec
CONSTANTS
  Ids = {i1}
  Clients = {c1, c2}
  Facts = {f1}
  Answers = {a1, a2}
  None = None
  Foreign = Foreign
  MaxVersion = 6
  MaxTime = 1
  Ttl = 1
  MinTtl = 1
  MaxEdits = 1
SYMMETRY Symmetry
INVARIANTS
  PreviewSeesAnswers
