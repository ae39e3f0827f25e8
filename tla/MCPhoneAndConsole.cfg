SPECIFICATION PartsSpec
CONSTANTS
  u1 = u1
  u2 = u2
  People = {u1, u2}
  Peer = "p"
  Nobody = "nobody"
  MaxMessages = 2
  MaxSignIns = 3
  MaxTroubles = 1
  Slots = {"aj", "al"}
  PeopleOf <- MCPeopleOf
  MaxFiles = 2
  MaxAtOnce = 2
  MaxEdits = 3
  MaxDeaths = 1
SYMMETRY Alike
INVARIANTS  WhatIsSealedIsRead SoundsArePlayable  
CHECK_DEADLOCK FALSE
