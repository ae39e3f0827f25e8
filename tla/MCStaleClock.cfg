SPECIFICATION PartsSpec
CONSTANTS
  Parts = {"player"}
  Seconds = 12
  u1 = u1
  a = a
  b = b
  NoSession = NoSession
  Unheard = Unheard
  Users = {u1}
  Windows = {a, b}
  Owner <- MCOwner
  AwayAfter = 2
  ReportEvery = 1
  MaxClock = 4
  MaxWrites = 2
  Nowhere = Nowhere
  Rooms = {"call", "lounge"}
  ListenOnly = {"lounge"}
  MaxChains = 3
  MaxTroubles = 1
  Keys = {"k", "l"}
  Rows = {1, 2, 3}
  KeyOf <- MCKeyOf
  Talks = {1, 2}
  MaxChanges = 2
  MaxCaptures = 2
  MaxPresses = 2
  MaxVersion = 2
  MaxChecks = 3
  MaxInstalls = 2
  MaxCalls = 2
INVARIANTS AlwaysTogether
CHECK_DEADLOCK FALSE
