SPECIFICATION Spec
CONSTANT Texts <- SmallTexts
INVARIANTS TypeOK ReadsTheTokens
\* The text ends.
CHECK_DEADLOCK FALSE
