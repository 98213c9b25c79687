SPECIFICATION Spec
CONSTANTS
  Campaigns = {"c1", "c2"}
  Cases = {"x", "y"}
  Candidates <- MCCandidates
  Clients = {m1, m2}
  Keys = {k1, k2}
  Requests <- MCRequests
  HardCalls <- MCHard
  Reviewed <- MCReviewed
  SeededIds = 6
  Snapshots = {"S1", "S2"}
  Chunks <- MCChunks
  Players = {m1, m2}
  SetupKeys = {k1, k2}
  MaxRev = 1
  MaxCrash = 1
SYMMETRY Sym
CHECK_DEADLOCK FALSE
INVARIANTS LedgerIsSound SetupIsSound
PROPERTIES StepsAreTimely
