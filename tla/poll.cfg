SPECIFICATION GetFairSpec
CONSTANTS
  Clients = {c1}
  Replicas = {r1, r2}
  Payloads <- MCPayloads
  Requests <- MCRequests
  Longer <- MCLonger
  FirstEvent = 0
  Cap = 2
  MaxTop = 3
INVARIANTS
  TypeOK
  OneQuerySkipsNothing
  NoDuplicateDelivery
PROPERTIES
  EventuallyDelivered
