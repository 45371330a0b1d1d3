SPECIFICATION Spec
CONSTANTS
  Nobody = Nobody
  NoActor = NoActor
  NoScene = NoScene
  NoRecord = NoRecord
  NoChange = NoChange
  NoSnapshot = NoSnapshot
  olga = olga
  r1 = r1
  Principal = {olga, pia}
  Founder = olga
  Actor = {a1}
  Element = {r1}
  Record = {r1}
  Scene = {s1}
  ProfileRoles <- MCProfileRoles
  Controllers <- MCControllers
  StewardLists <- MCStewardLists
  pia = pia
  a1 = a1
  MaxRevision = 6
  MaxBranch = 1
CHECK_DEADLOCK FALSE
INVARIANTS
  TypeOK
  NothingLeftBehind
PROPERTIES
  AuthorityMovesByRight
  DirectionIsKept
