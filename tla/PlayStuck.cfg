SPECIFICATION Spec
CONSTANTS
  Nobody = Nobody
  NoScene = NoScene
  NoContext = NoContext
  NoLease = NoLease
  NoSnapshot = NoSnapshot
  Principal = {gale, pia}
  Facilitator = {gale}
  Scene = {s1}
  Conversation = {c1, c2}
  LeaseTime = 1
  MaxActivations = 2
  MaxProposals = 1
  MaxRevision = 7
  MaxBranches = 3
  MaxTime = 1
SYMMETRY Symmetry
CHECK_DEADLOCK FALSE
INVARIANT StaleCanBeAborted
