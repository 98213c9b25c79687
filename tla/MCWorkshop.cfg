SPECIFICATION Spec
CONSTANTS
  Drafts = {d1, d2}
  Passages = {x1, x2}
  Jobs = {j1, j2}
  Finalizers = {f1, f2}
  MaxJobs = 3
  MaxEdits = 3
  Writers = {w1, w2}
  MaxInstances = 2
  MaxFaults = 2
  Callers = {c1, c2}
  DocumentCallers = {c1}
  DocumentSets <- MCDocumentSets
  Ladder <- MCLadder
  MaxCalls = 2
  QueryIds <- MCQueries
  Measured = 1
CHECK_DEADLOCK FALSE
SYMMETRY MCSym
INVARIANTS AuthoringIsSound EmbeddingIsSound EvidenceIsClean
PROPERTIES NothingIsUndone
