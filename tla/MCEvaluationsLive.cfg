SPECIFICATION FairSpec
CONSTANTS
  a1 = a1  a2 = a2  b1 = b1  u = u  h = h
  alice = alice  bob = bob  Host = Host  Unset = Unset
  Requests = {a1, a2}
  Updates = {}
  Keys = {alice}
  CallerOf <- CallerOfRequests
  Cap = 1
  HostReserve = Unset
  HostShare = 5
  CountFails = FALSE
PROPERTY EveryCallerIsAnswered
