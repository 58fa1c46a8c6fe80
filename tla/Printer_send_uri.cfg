SPECIFICATION Spec
CONSTANTS
  MaxJobs = 1
  MaxDocs = 1
  MaxRuns = 1
  Slots = {s1}
PROPERTIES
  AcknowledgedDocumentAttached
