SPECIFICATION Spec
CONSTANTS
  u1 = u1
  u2 = u2
  u3 = u3
  a = a
  b = b
  c = c
  d = d
  g1 = g1
  Users = {u1, u2, u3}
  Guilds = {g1}
  Sockets = {a, b, c, d}
  Owner <- MCOwner
  Admins = {u1, u2}
  Positions <- MCPositions
  NoParty = NoParty
  NoSocket = NoSocket
  MaxQueue = 2
  MaxPending = 2
  MaxParties = 2
  MaxItems = 0
  MaxClock = 0
INVARIANTS TypeOK RemoteWithFirstArrival ChatOnlyReachesWatchers
PROPERTIES LastWindowIsLeaving IsAnEvening
