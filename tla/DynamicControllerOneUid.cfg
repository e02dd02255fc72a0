SPECIFICATION FairSpec
CONSTANTS
  Uids = {a}
  Hashes = {h1, h2}
  NoHash = NoHash
  Unborn = Unborn
  Gone = Gone
  PageSize = 1
  MaxRevisions = 4
  MaxBreaks = 6
INVARIANT TypeOK
PROPERTY Converges
CHECK_DEADLOCK FALSE
