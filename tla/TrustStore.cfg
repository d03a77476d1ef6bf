SPECIFICATION Spec
CONSTANTS
  c1 = c1
  c2 = c2
  t1 = t1
  t2 = t2
  a1 = a1
  a2 = a2
  d = d
  any = any
  Clients = {c1}
  Tasks = {t1, t2}
  Admins = {a1}
  Daemon = d
  Prefixes <- MCPrefixes
  StartsWith <- MCStartsWith
  NoTarget = none
  none = none
  MaxTime = 2
SYMMETRY Symmetry
INVARIANTS
  TypeOK
  ApprovedNotPending
  OnlyAdminsApprove
  SavesItsRequest
