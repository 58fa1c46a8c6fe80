\* The pages counted and the pages decoded.
SPECIFICATION Spec
CONSTANTS
  Headers <- MCHeaders
  Bytes = {1, 255}
  Repeats = {1, 2}
  HeaderLen = 6
  MaxPages = 2
INVARIANT
  WalkersAgree
CHECK_DEADLOCK FALSE
