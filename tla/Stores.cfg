SPECIFICATION Spec
CONSTANTS
  k1 = k1
  k2 = k2
  k3 = k3
  k4 = k4
  k5 = k5
  k6 = k6
  s1 = s1
  s2 = s2
  s3 = s3
  s4 = s4
  s5 = s5
  s6 = s6
  s7 = s7
  Key = {k1, k2, k3, k4, k5, k6}
  NoKey = NoKey
  HashOf <- Hashes
  MaxCapacity = 8
  Reservations = {3, 4, 6, 7}
  Str = {s1, s2, s3, s4, s5, s6, s7}
  NoStr = NoStr
  StrHash <- StrHashes
  MinCapacity = 4
  NoPage = NoPage
  MaxPages = 3
  BlockSize = 2
  HoldTime = 1
  PagesPerCall = 1
INVARIANTS
  ChainsSound
  OneNodePerString
  PagesSound
PROPERTIES
  RoomIsFound
  ImplementsCollection
  HoldRespected
  TrimGivesBack
