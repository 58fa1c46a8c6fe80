\* Two subscriptions, pushed or not; a lease of 0 asks for the maximum, which never ends.
SPECIFICATION PSpec
CONSTANTS
  Jobs = {j1, j2}
  JobEvents = {jobCompleted}
  PrinterEvents = {printerStopped}
  None = None
  DefaultLease = 1
  MaxLease = 2
  MaxEvents = 1
  Requested = {0}
  MaxSubs = 2
  MaxSequence = 2
  MaxTime = 1
  Recipients = {uri}
  MaxPosts = 2
SYMMETRY JobSymmetry
INVARIANTS
  NoSilentLoss
  OnlySubscribedEvents
  LeasesEndInTime
  PushedAndPulledAgree
PROPERTIES
  ImplementsLeases
  EndedIsNotPushed
  ImplementsFeed
