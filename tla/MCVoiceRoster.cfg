SPECIFICATION Spec
CONSTANTS
  u1 = u1
  u2 = u2
  c1 = c1
  Users = {u1, u2}
  Channels = {c1}
  MaxMoves = 2
  MaxRulings = 1
  MaxFailures = 1
  MaxRestarts = 1
  MaxHeld = 1
INVARIANTS RosterIsSound
PROPERTIES CallsSettle
