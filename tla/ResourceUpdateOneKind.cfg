SPECIFICATION FairSpec
CONSTANTS
  pods = pods
  nodes = nodes
  pod = pod
  node = node
  Gvrs = {pods}
  Uids = {pod}
  GvrOf <- MCGvrOf
  Hashes = {h1, h2, h3}
  Convertible = {h1, h2}
  NoHash = NoHash
  Unborn = Unborn
  Gone = Gone
  MaxChanges = 3
  MaxRestarts = 1
INVARIANTS
  QuiescentAgreement
PROPERTIES
  NoResurrection
  EventuallySettled
