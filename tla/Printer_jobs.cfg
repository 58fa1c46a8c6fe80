SPECIFICATION Spec
CONSTANTS
  MaxJobs = 2
  MaxDocs = 1
  MaxRuns = 1
  Slots = {s1}
INVARIANTS
  ReportsAreTrue
  TypeOK
  NoStrandedJob
  ListingsPartTheQueue
PROPERTIES
  PausedPrintsNothing
  ImplementsSpool
