SPECIFICATION FairSpec
CONSTANTS
  Workers = {w1, w2}
  Replicas = {r1}
  Ttl = 1
  FirstEvent = 1
  InsertAttempts = 2
  PostAttempts = 2
  Kinds = {"post", "noUuid", "invalid"}
  TestMode = FALSE
  Faults <- AllFaults
  Skew <- NoSkew
  MaxDelay = 0
  MaxLag = 1
  MaxPosts = 2
  MaxNow = 2
INVARIANTS
  AckedIsStored
  BoundedDuplication
PROPERTIES
  EveryPostEnds
