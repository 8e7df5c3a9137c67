SPECIFICATION Spec
CONSTANTS
  a1 = a1  a2 = a2  b1 = b1  u = u  h = h
  alice = alice  bob = bob  Host = Host  Unset = Unset
  Requests = {a1, b1, h}
  Updates = {}
  Keys = {alice, bob}
  CallerOf <- CallerOfRequests
  Cap = 2
  HostReserve = Unset
  HostShare = Unset
  CountFails = FALSE
INVARIANTS
  NoLostWakeup
  RefusalsAreTrue
PROPERTY HostFindsItsReserve
