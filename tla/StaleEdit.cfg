SPECIFICATION BSpec
CONSTANTS
  Ids = {i1}
  Clients = {c1}
  Writers = {w1}
  Reviews = {}
  Keepers = {}
  Facts = {f1}
  Answers = {a1}
  None = None
  Foreign = Foreign
  MaxVersion = 2
  MaxTime = 1
  Ttl = 1
  MinTtl = 1
  MaxEdits = 2
PROPERTIES
  StaleEditsBlocked
