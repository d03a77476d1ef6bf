SPECIFICATION FairSpec
CONSTANTS
  p1 = p1
  q1 = q1
  h1 = h1
  pad = pad
  wheel = wheel
  udp = udp
  reaper = reaper
  Addrs = {a1}
  Conns = {i1, i2}
  UdpTask = udp
  Reaper = reaper
  Payloads <- OneDevice
  Hosts = {h1}
  Metas = {pad, wheel}
  None = None
  IdleLimit = 1
PROPERTIES
  UdpLoopReturns
  ConnAnswered
  IdleReaped
