SPECIFICATION FairSpec
CONSTANTS
  pad = pad
  twin = twin
  wheel = wheel
  gamepad = gamepad
  racing = racing
  Paths = {e1, e2}
  Controllers = {pad, wheel}
  Identity <- MCIdentity
  None = None
  Requested = None
  MaxEvents = 2
  MaxInFlight = 2
INVARIANTS
  TypeOK
  PongsInStep
  ForwardsAnnouncedModel
PROPERTIES
  RelaysEvents
  Resumes
  HandshakeEnds
