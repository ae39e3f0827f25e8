SPECIFICATION Spec
CONSTANTS
  u1 = u1
  u2 = u2
  a = a
  b = b
  g1 = g1
  Users = {u1, u2}
  Guilds = {g1}
  Sockets = {a, b}
  Owner <- MCOwner
  Admins = {u1, u2}
  Positions <- MCPositions
  NoParty = NoParty
  NoSocket = NoSocket
  MaxQueue = 2
  MaxPending = 1
  MaxParties = 1
  MaxItems = 0
  MaxClock = 0
INVARIANTS NobodyWatchesOffline
