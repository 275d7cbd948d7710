SPECIFICATION Spec
CONSTANTS
  c1 = c1
  c2 = c2
  h1 = h1
  h2 = h2
  a1 = a1
  a2 = a2
  Clients = {c1, c2}
  Avatars = {a1, a2}
  LumpsOf <- MCLumpsOf
  ServerLumps <- MCServerLumps
  AvatarTypeOf <- Spectators
  MaxClientId = 2
  MaxSnapshots = 0
  NoAvatar = NoAvatar
  NoPose = NoPose
SYMMETRY AvatarSymmetry
INVARIANTS
  NoGhostClients
  AvatarOwnership
  JoinedClientsMatch
  AvatarsAccountedFor
  ClosedHandleUnused
PROPERTIES
  ImplementsMembership
CHECK_DEADLOCK FALSE
