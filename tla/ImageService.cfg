\* Two calls at a time while the connector is at work.  Liveness, so no symmetry.
CONSTANTS
  Procs = {p1, p2}
  Archives = {a1}
  Attempts = 2
  Faults = {"down", "nixGC", "builderFails", "statFails", "remove"}
SPECIFICATION FairSpec
INVARIANTS TypeOK NoNilClient
PROPERTIES CallsReturn Connects PullsSucceed
