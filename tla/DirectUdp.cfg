SPECIFICATION FairSpec
CONSTANTS
  a1 = a1
  a2 = a2
  p1 = p1
  h1 = h1
  pad = pad
  Addrs = {a1, a2}
  UdpTask = udp
  Reaper = reaper
  Payloads <- OneDevice
  Hosts = {h1}
  Metas = {pad}
  None = None
  IdleLimit = 2
  Announce <- AnnounceP1
  After <- Restarted
  MaxEvents = 1
INVARIANTS
  TypeOK
  ServedWhileAlive
PROPERTIES
  Delivered
  AbandonedReaped
