SPECIFICATION Spec
CONSTANTS
  NoProfile = NoProfile
  NoExposure = NoExposure
  Nobody = Nobody
  Idle = Idle
  Modern = Modern
  talk = talk
  fight = fight
  olga = olga
  pia = pia
  Principal = {olga, pia}
  Campaign = {c1, c2}
  Session = {s1, s2}
  Handle = {}
  Call = {k1}
  Profile = {fight}
  Capabilities <- MCCapabilities
  Facilitators <- MCFacilitators
  PlayersFight <- MCPlayersFight
  Loadable = {}
  Callable = {"access_change"}
  Members <- MCMembers
  MaxChanges = 1
  MaxEpoch = 0
INVARIANT
  CampaignsSeparate
