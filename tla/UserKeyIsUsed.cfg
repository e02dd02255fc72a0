SPECIFICATION Spec
CONSTANTS
  Agents = {p}
  Ids = {c1, c2}
  NoId = NoId
  Providers = {NoId, c1}
  MaxBreaks = 0
INVARIANT UserKeyIsUsed
