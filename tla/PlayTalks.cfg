SPECIFICATION Spec
CONSTANTS
  Nobody = Nobody
  NoScene = NoScene
  NoContext = NoContext
  NoLease = NoLease
  NoSnapshot = NoSnapshot
  Principal = {gale, pia}
  Facilitator = {gale}
  Scene = {s1}
  Conversation = {c1, c2}
  LeaseTime = 1
  MaxActivations = 2
  MaxProposals = 2
  MaxRevision = 8
  MaxBranches = 3
  MaxTime = 2
SYMMETRY Symmetry
CHECK_DEADLOCK FALSE
INVARIANTS
  TypeOK
  PhaseDiscipline
  OneCurrent
  CurrentContext
  OneWorkingActivation
  SupersededCannotAnswer
  EndedKeepsOnlyPublications
PROPERTY StaleForever
