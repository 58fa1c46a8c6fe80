\* The client's choices over two pages of three kinds.
SPECIFICATION Spec
CONSTANTS
  Headers <- MCHeaders
  Bytes = {1, 255}
  Repeats = {1, 2}
  HeaderLen = 2
  MaxPages = 2
INVARIANTS
  DecodesWhatWasEncoded
  CountsWhatWasEncoded
  DamageIsLocal
CHECK_DEADLOCK FALSE
