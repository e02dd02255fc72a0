SPECIFICATION Spec
CONSTANTS
  Uids = {a, b}
  Hashes = {h1, h2}
  NoHash = NoHash
  Unborn = Unborn
  Gone = Gone
  PageSize = 1
  MaxRevisions = 4
  MaxBreaks = 1
SYMMETRY Symmetry
INVARIANTS
  KnowsVersion
  NothingLost
PROPERTIES
  NeverOlder
  ImplementsFeed
CHECK_DEADLOCK FALSE
