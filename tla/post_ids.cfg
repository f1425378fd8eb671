SPECIFICATION Spec
CONSTANTS
  Workers = {w1, w2}
  Replicas = {r1}
  Ttl = 3
  FirstEvent = 1
  InsertAttempts = 2
  PostAttempts = 2
  Kinds = {"post", "badCallback"}
  TestMode = FALSE
  Faults <- CountedFaults
  Skew <- NoSkew
  MaxDelay = 1
  MaxLag = 1
  MaxPosts = 3
  MaxNow = 5
SYMMETRY Symmetry
INVARIANTS
  IInv
  TypeOK
  CounterKeepsUp
  CounterNeverAhead
  ExpiryFollowsIds
  AnswerTellsTheTruth
PROPERTIES
  IdsOnlyGrow
  ImplementsLog

