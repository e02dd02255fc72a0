SPECIFICATION ClusterFairSpec
CONSTANTS
  Agents = {p, q}
  NoId = NoId
  Ids = {c1, c2}
  Providers = {NoId, c1}
  MaxBreaks = 1
  MaxUids = 3
INVARIANTS
  ClusterTypeOK
  KeyIsPersisted
  OneIdentity
  OwnerIsKnown
  UidIsTheirs
PROPERTIES
  IdentityIsKept
  OwnersAgree
