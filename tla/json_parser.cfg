SPECIFICATION Spec
CONSTANT MaxTokens = 10
INVARIANTS TypeOK AcceptsOnlyJson RejectsNoJson
PROPERTY Terminates
\* The validator returns.
CHECK_DEADLOCK FALSE
