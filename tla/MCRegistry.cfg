SPECIFICATION RegSpec
CONSTANTS
  u1 = u1
  u2 = u2
  s1 = s1
  s2 = s2
  s3 = s3
  h1 = h1
  h2 = h2
  None = None
  Users = {u1, u2}
  Sessions = {s1, s2, s3}
  UserOf <- MCUserOf
  Hosts = {h1, h2}
  RandomHosts = {h2}
  TunnelIds = {i1, i2, i3}
  Grace = 1
  MaxTime = 4
INVARIANTS RegTypeOK MapsAgree BoundToOwner GraceBounded
PROPERTIES ReservationHeld ReservationsSpec
SYMMETRY MCSymmetry
