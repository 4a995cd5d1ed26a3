SPECIFICATION Spec
CONSTANTS
  u1 = u1
  u2 = u2
  c1 = c1
  c2 = c2
  s1 = s1
  s2 = s2
  s3 = s3
  None = None
  Users = {u1}
  Clients = {c1}
  Sessions = {s1, s2, s3}
  UserOf <- OneUserUserOf
  ClientOf <- OneDeviceClientOf
  Hosts = {h1}
  RandomHosts = {h1}
  TunnelIds = {i1}
  Grace = 1
  MaxTime = 1
  LeastTunnels <- One
  MaxTunnels <- One
  LeastConns <- One
  MaxConns <- One
  Requests = {}
INVARIANTS OneSessionPerDevice
SYMMETRY TunnelSymmetry
CHECK_DEADLOCK FALSE
