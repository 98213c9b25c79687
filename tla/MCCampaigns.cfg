SPECIFICATION Spec
CONSTANTS
  Minutes <- MCMinutes
  MaxInvalid = 1
  MaxDropped = 1
  Projections <- MCProj
  MaxTampering = 2
  MaxAborts = 3
  Backends = {"b1","b2"}
  Authorities <- MCAuth
  MaxCell = 2
  MaxCampaign = 24
  IdleSpan = 14
  MaxTrouble = 1
  CorpusPaths <- MCPaths
  PdfPaths = {"d"}
  ByteIds = {"t","u","o","n"}
  SizeOf <- MCSize
  TextCheck <- MCText
  MAX_PDF_BYTES = 2
  MAX_OTHER_BYTES = 2
  MAX_FILES_PER_REQUEST = 2
  MAX_BYTES_PER_REQUEST = 2
  Corpora <- MCCorpora
  Prepared <- MCPrepared
  QueryDeck = 2
  Outputs = {o1,o2}
  DataRoots = {"d1","d2"}
  CorpusEdits <- MCEdits
  OtherBytes = {"u","o"}
  MaxCells = 2
  MaxAccEvents = 2
CHECK_DEADLOCK FALSE
SYMMETRY MCSym
INVARIANTS DenseIsJustified LaneIsQualified MemoryIsConfirmed CorpusIsAccepted
