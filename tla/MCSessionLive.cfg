SPECIFICATION FairSpec
CONSTANTS
  c1 = c1
  c2 = c2
  h1 = h1
  h2 = h2
  a1 = a1
  a2 = a2
  Clients = {c1}
  Avatars = {a1}
  LumpsOf <- MCLumpsOf
  ServerLumps <- MCServerLumps
  AvatarTypeOf <- Spectators
  MaxClientId = 2
  MaxSnapshots = 2
  NoAvatar = NoAvatar
  NoPose = NoPose
PROPERTIES
  SnapshotsInOrder
  EligibleClientsJoin
  ClosedClientsLeave
CHECK_DEADLOCK FALSE
