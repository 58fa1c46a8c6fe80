\* Three documents over at most two processes and two renderings.
SPECIFICATION Spec
CONSTANTS
  Documents <- MCDocuments
  Templates <- MCTemplates
  MaxDocuments = 3
  MaxRenders = 2
  MaxFailures = 1
INVARIANTS
  EverySelectedPageOnce
  NameTellsThePage
  BacksAreTumbled
  DocumentsKeepTheirPages
  ChargedForPagesMade
CHECK_DEADLOCK FALSE
