SPECIFICATION Spec
CONSTANTS
  olga = olga
  otto = otto
  pia = pia
  k1 = k1
  k2 = k2
  c1 = c1
  c2 = c2
  main = main
  alt = alt
  NoSnapshot = NoSnapshot
  h1 = h1
  h2 = h2
  Principal = {olga, otto, pia}
  Branch = {main, alt}
  Conversation = {c1, c2}
  Key = {k1, k2}
  Root = main
  Members <- MCMembers
  Call = {h1, h2}
  Workload <- RetryWorkload
INVARIANT ExactRetriesReturnReceipt
