SPECIFICATION Spec
CONSTANTS
  NoProfile = NoProfile
  NoExposure = NoExposure
  Nobody = Nobody
  Idle = Idle
  Modern = Modern
  talk = talk
  fight = fight
  olga = olga
  pia = pia
  Principal = {olga, pia}
  Campaign = {c1}
  Session = {s1}
  Handle = {h1}
  Call = {k1, k2}
  Profile = {fight}
  Capabilities <- MCCapabilities
  Facilitators <- MCFacilitators
  PlayersFight <- MCPlayersFight
  Loadable = {"conflict_start"}
  Callable = {"access_change", "snapshot_change"}
  Members <- MCMembers
  MaxChanges = 2
  MaxEpoch = 1
INVARIANTS
  TypeOK
  ActorGrantsOfMembers
PROPERTIES
  AcceptedIsAuthorised
  EveryCallEnds
