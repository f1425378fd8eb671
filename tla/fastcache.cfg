SPECIFICATION Spec
CONSTANTS
  Values = {v1, v2, v3}
  Retention = 6
  SliceSize = 2
  Starts <- AnySlice
  Steps = {1}
  MaxTime = 20
INVARIANTS TypeOK Integrity OneRoundPerSlice
PROPERTY ImplementsExpiringSet
SYMMETRY Symmetry
