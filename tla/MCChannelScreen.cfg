SPECIFICATION MCSpec
CONSTANTS
  ca = ca
  cb = cb
  Channels <- MCChannels
  None = None
  MaxMessages = 2
  MaxTyped = 1
  MaxChanges = 1
  MaxMoves = 1
  MaxFaults = 1
SYMMETRY Symmetry
INVARIANTS ScreenIsSound NothingTypedIsLost PlaceIsKept UnreadIsRight
CHECK_DEADLOCK FALSE
