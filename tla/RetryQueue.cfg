SPECIFICATION FairSpec
CONSTANTS
  Uids = {a, b}
  Runs = {r1, r2}
  MaxUpdates = 3
  MaxFailures = 1
  MaxOverlaps = 1
INVARIANTS
  TypeOK
  QueueFollowsLoop
PROPERTIES
  DropsOnlyOverwrites
  Drains
