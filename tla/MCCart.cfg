SPECIFICATION Spec
CONSTANTS
  One = One
  Two = Two
  shirt = shirt
  Line <- const_Line
  Loose = {}
  MaxQty = 2
  Asks <- const_Asks
SYMMETRY Pages
CONSTRAINT Tells
INVARIANTS TypeOK NothingLost NothingDoubled
CHECK_DEADLOCK FALSE
