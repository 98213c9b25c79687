SPECIFICATION Spec
CONSTANTS
  EvalRuns = {r1, r2}
  EvalCases <- MCEvalCases
  HumanCases = {"h1", "h2"}
  GoldChunks = "g"
  Stacks <- MCStacks
  MaxMoves = 1
  SuffCases <- MCSuffCases
  HumanReviewed = {"c1", "c2"}
  GoldPositives <- MCPositives
  SuffContexts <- MCSuffContexts
  Indexes <- MCIndexes
  Artifacts <- MCArtifacts
  MaxArtifacts = 3
  MaxSuffEvents = 2
  GenCases <- MCGenCases
  GenHuman = {"a"}
  GenChunks = {"p", "x", "y"}
  RankOf <- MCRank
  FirstGrades <- MCGrades
  HARD_NEGATIVE_N = 1
  GenSettings <- MCGenSettings
  Levels = {1, 2}
  MaxGenRuns = 2
  MaxGenEvents = 2
CHECK_DEADLOCK FALSE
SYMMETRY MCSym
INVARIANTS RecoveryIsMeasured SufficiencyIsEarned GenerationIsComparable
