SPECIFICATION FairSpec
CONSTANTS
  Ids <- MCIds
  Unparsed = "legacy"
  NoModel = NoModel
  Probes = 2
  Requests = {r1}
  MaxCycles = 3
INVARIANTS LkgSound VettedModels ShutdownNoVerdict NoSecondProbe
PROPERTY CloseStops
CHECK_DEADLOCK FALSE
