SPECIFICATION GetSpec
CONSTANTS
  Clients = {c1}
  Replicas = {r1}
  Payloads <- MCPayloads
  Requests <- WithParents
  Longer <- MCLonger
  FirstEvent = 0
  Cap = 2
  MaxTop = 3
INVARIANTS
  NoSkippedEvent
