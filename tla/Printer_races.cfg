SPECIFICATION ASpec
CONSTANTS
  MaxJobs = 1
  MaxDocs = 2
  MaxRuns = 2
  Slots = {s1, s2}
  Names = {"sides"}
  Sendable = {1, 4}
  MaxItems = 1
SYMMETRY SlotSymmetry
INVARIANTS
  JobsAreSound
  EveryRunPrinted
  PagesShowTheAttributes
PROPERTIES
  ClosedDocumentsFinal
  LateFetchRevivesNothing
  RunEndsTheHold
