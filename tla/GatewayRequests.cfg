SPECIFICATION Spec
CONSTANTS
  u1 = u1
  u2 = u2
  c1 = c1
  c2 = c2
  s1 = s1
  s2 = s2
  s3 = s3
  None = None
  Users = {u1, u2}
  Clients = {c1, c2}
  Sessions = {s1, s3}
  UserOf <- TwoUsersUserOf
  ClientOf <- TwoDevicesClientOf
  Hosts = {h1}
  RandomHosts = {h1}
  TunnelIds = {i1, i2}
  Grace = 1
  MaxTime = 3
  LeastTunnels <- One
  MaxTunnels <- Two
  LeastConns <- One
  MaxConns <- Two
  Requests = {r1, r2}
INVARIANTS GatewayTypeOK ConnsExact
PROPERTIES ClosedByOwner
SYMMETRY TunnelSymmetry
CHECK_DEADLOCK FALSE
