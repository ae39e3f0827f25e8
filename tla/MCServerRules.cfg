SPECIFICATION PartsSpec
CONSTANTS
  Users = {u1, u2, u3}
  Invites = {i1, i2}
  First = i1
  System = system
  MaxUses = 2
  MaxTexts = 3
  MaxInFlight = 2
  MaxAsked = 4
  MaxVisits = 1
  People = {u1, u2, u3, u4}
  Nobody = nobody
  Chats = {c1, c2}
  MaxGroup = 3
  MaxRequests = 2
  MaxCalls = 3
  MaxMoved = 1
  MaxVersion = 2
  MaxPublish = 2
  MaxPushes = 4
  MaxDeaths = 1
SYMMETRY Symmetry
INVARIANTS MembershipHolds BanSticks ConversationsHold MarksSettle ThrottleIsFair AdvertisedIsThere InstallIsWhole
PROPERTIES VersionsRise
CHECK_DEADLOCK FALSE
