SPECIFICATION Spec
CONSTANTS
  Workers = {w1, w2}
  Replicas = {r1}
  Ttl = 3
  FirstEvent = 1
  InsertAttempts = 2
  PostAttempts = 2
  Kinds = {"post"}
  TestMode = FALSE
  Faults = {"crashUncounted"}
  Skew <- NoSkew
  MaxDelay = 1
  MaxLag = 1
  MaxPosts = 3
  MaxNow = 5
PROPERTIES
  IdsOnlyGrow
