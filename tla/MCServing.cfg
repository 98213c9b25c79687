SPECIFICATION Spec
CONSTANTS
  Queries = {q1, q2}
  History <- MCHistory
  MaxRetained = 1
  MaxAge = 1
  MaxClock = 1
  MaxPrior = 4
  Selections = {"base_url", "model"}
  Texts = {"none", "Y", "E", "P", "X", "K", "on", "omitted", "null", "local", "private", "forbidden"}
  Envs <- MCEnvs
  Requests <- MCRequests
  Clients = {c1, c2}
CHECK_DEADLOCK FALSE
SYMMETRY Sym
INVARIANTS QuestionsAreServed SettingsAreSound
PROPERTIES DecidedWhileCurrent
