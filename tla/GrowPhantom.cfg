SPECIFICATION SteadySpec
CONSTANTS
  Ids = {i1}
  Clients = {c1}
  Facts = {f1}
  Answers = {a1}
  None = None
  Foreign = Foreign
  MaxVersion = 3
  MaxTime = 0
  Ttl = 1
  MinTtl = 1
  MaxEdits = 0
INVARIANTS
  NoPhantomInvestigation
