SPECIFICATION Spec
CONSTANTS
  Procs = {p1, p2}
  Paths = {a, b}
  Contents = {x, h, u}
  Unparsable = {u}
  HeadingOnly = {h}
  ZeroTerm = {h}
  Configs = {1, 2}
  MaxFaults = 1
  Blocks <- MCBlocks
  ChildTarget = 2
  ChildMax = 3
  ParentTarget = 5
  ParentMax = 7
  Sep = 1
  MaxBlocksInDoc = 3
  ObsDocs = {d1, d2}
  MaxLost = 1
  MaxProgress = 1
  Uploads = {u1, u2}
  UpDocs = {"t","p","x","e"}
  Chunks <- MCChunks
  Pdfs = {"p"}
  MaxParts = 3
  max_files_per_ingest = 2
  max_bytes_per_document = 2
  max_pdf_bytes_per_document = 3
  max_total_upload_bytes = 4
  max_active_sources_per_workspace = 2
  max_active_source_bytes_per_workspace = 4
CHECK_DEADLOCK FALSE
SYMMETRY Sym
INVARIANTS CorpusIsUsable ChunksAreWhole UploadIsSound
PROPERTIES RecordAdvances
