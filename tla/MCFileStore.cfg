SPECIFICATION Spec
CONSTANTS
  m1 = m1
  u1 = u1
  nightly = nightly
  None = None
  Messages = {m1}
  Users = {u1}
  MaxInFlight = 2
  Jobs = {nightly}
  Nightly = nightly
  MaxUploads = 2
  MaxFiles = 2
  BatchSize = 1
  MaxMishaps = 1
INVARIANTS TypeOK PicturesStay AvatarsStay
CHECK_DEADLOCK FALSE
