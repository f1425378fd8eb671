SPECIFICATION FairSpec
CONSTANTS
  Workers = {w1, w2}
  Attempts = 2
  RequestTypes <- MCRequestTypes
  Prefixed <- MCPrefixed
  Hashed <- MCHashed
INVARIANTS
  TypeOK
  ResultsMatchAnswers
  HandledAreVouched
  ProfilingIsTemporary
PROPERTIES
  EveryRequestEnds
