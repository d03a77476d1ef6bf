SPECIFICATION Spec
CONSTANTS
  p1 = p1
  q1 = q1
  h1 = h1
  pad = pad
  wheel = wheel
  udp = udp
  reaper = reaper
  Addrs = {a1}
  Conns = {i1}
  UdpTask = udp
  Reaper = reaper
  Payloads <- Replaced
  Hosts = {h1}
  Metas = {pad, wheel}
  None = None
  IdleLimit = 1
INVARIANTS
  MirrorsController
