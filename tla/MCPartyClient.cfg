SPECIFICATION ClientSpec
CONSTANTS
  u1 = u1
  u2 = u2
  w = w
  c = c
  w2 = w2
  g1 = g1
  Users = {u1, u2}
  Guilds = {g1}
  G = g1
  Sockets = {w, c, w2}
  Win = w
  Owner <- MCOwner
  Admins = {u1, u2}
  Positions = {}
  NoParty = NoParty
  NoSocket = NoSocket
  MaxQueue = 1
  MaxPending = 0
  MaxParties = 2
  MaxItems = 0
  MaxClock = 0
  MaxAsks = 5
  MaxWorld = 3
  MaxFaults = 2
  MaxMail = 1
INVARIANTS ViewIsSound JoinedMeansInTheRoom
CHECK_DEADLOCK FALSE
