SPECIFICATION FairSpec
CONSTANTS
  Starters = {p1, p2}
  Ttls = {60, 120}
  FirstEvents = {1}
  MaxAttempts = 3
  ConnectAttempts = 2
  Reconnects = TRUE
  MaxCount = 2
INVARIANTS SInv TypeOK ReadyIsInitialized LoneStartSucceeds
PROPERTIES CounterNeverResets EveryStartEnds
