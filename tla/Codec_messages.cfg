\* Requests of up to five tokens.
SPECIFICATION Spec
CONSTANTS
  GroupTags = {1, 2}
  Names <- MCNames
  Samples <- MCSamples
  WordLen = 1
  MaxTokens = 5
  LengthBase = 2
  FramedTokens = 3
INVARIANTS
  RefusesExactlyTheMalformed
  ReadsWhatWasMeant
  EncodeRestores
  TruncationIsNoticed
  OnlyOutgrownValuesSpoil
CHECK_DEADLOCK FALSE
