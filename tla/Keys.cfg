SPECIFICATION Spec
CONSTANTS
  s1 = s1
  s2 = s2
  s3 = s3
  s4 = s4
  s5 = s5
  hA = hA
  hB = hB
  disk = disk
  remote = remote
  x = x
  dx = dx
  Process = {s1, s2, s3, s4, s5}
  Home = {hA, hB}
  Url = {disk, remote}
  FileBacked = {disk}
  Secret = {x, dx}
  Derive <- MCDerive
  Setting <- MCSetting
  Absent = Absent
  Weak = Weak
  Missing = Missing
  Empty = Empty
  NoKey = NoKey
  MaxStart <- MCMaxStart
INVARIANTS
  ReplicasAgree
PROPERTIES
  KeepsPromise
  EveryStartEnds
CHECK_DEADLOCK FALSE
