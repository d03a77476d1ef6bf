SPECIFICATION Spec
CONSTANTS
  pad = pad
  twin = twin
  wheel = wheel
  gamepad = gamepad
  racing = racing
  Paths = {e1, e2}
  Controllers = {pad, twin}
  Identity <- MCIdentity
  None = None
  Requested = None
  MaxEvents = 1
  MaxInFlight = 2
INVARIANTS
  ForwardsSameDevice
