\* A builder, a writer that remaps and a newcomer.  Liveness, so no symmetry.
CONSTANTS
  Procs = {p1, p2, p3}
  NoProc = NoProc
SPECIFICATION FairSpec
INVARIANTS LocksHeld SomebodyRuns
PROPERTY CallsReturn
