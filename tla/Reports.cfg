SPECIFICATION ReportsSpec
CONSTANTS
  Services = {s, t}
  MaxIngresses = 1
  MaxRules = 2
  MaxPaths = 2
  Workers = {w1, w2}
  NoName = NoName
  Cpus = {2}
  MaxNodes = 3
  Pods = {p, q}
  Versions = {v1, v2}
  NoStatus = NoStatus
  MaxRestarts = 2
  Labels = {"default", "a"}
  EmptyLabel = EmptyLabel
  NoLabel = NoLabel
  MaxListed = 3
  Hosts = {"one", "two"}
  Totals <- MCTotals
  MaxLoad = 1
SYMMETRY Symmetry
INVARIANTS
  HealthyIsRead
  OneAnswer
  PoolsPartition
  TotalsAddUp
  StatusIsWhole
  NodesArePlaced
  EveryNodeIsPosted
  PostedWasSaid
  PercentIsBounded
PROPERTY StaticIsKept
