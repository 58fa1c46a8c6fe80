\* Two clients, one of which fetches documents, two overlapping stops, documents of 0, 1 and more units.
SPECIFICATION Spec
CONSTANTS
  Clients = {c1, c2}
  Fetchers = {c1}
  Stops = {sigint1, sigint2}
  Cap = 2
INVARIANTS
  WholeDocumentOrNone
  AdvertisedIsServed
  StartedServes
  StoppedIsQuiet
  GracefulStop
PROPERTIES
  FetchSettles
  StopEnds
