-------------------------- MODULE CorpusAcceptance --------------------------
(***************************************************************************)
(* The corpus acceptance harness (16K-F).  Preparation takes an inventory  *)
(* of a corpus directory and derives a manifest that gives every path one  *)
(* disposition; the source pins one prepared manifest.  A cell loads the   *)
(* manifest's eligible sources, creates a workspace through the API,       *)
(* uploads the sources in batches, follows each managed operation, and     *)
(* asks the query deck of what was published; a pair runs a cold and a     *)
(* warm cell in one data root and compares them; the robustness matrix     *)
(* accepts the campaign.  Corpus files are edited, other clients change    *)
(* the workspace, the server is pointed at another data root, and the      *)
(* harness is killed while all this goes on.                               *)
(***************************************************************************)
EXTENDS Integers, Sequences, FiniteSets, SequencesExt

CONSTANTS
  CorpusPaths,   \* the paths of supported files, in order
  PdfPaths,      \* those with the suffix of a PDF
  ByteIds,       \* what a file can hold
  SizeOf,        \* byte identity |-> its size
  TextCheck,     \* byte identity |-> "native", "none" or "absent"
  MAX_PDF_BYTES, MAX_OTHER_BYTES, MAX_FILES_PER_REQUEST, MAX_BYTES_PER_REQUEST,
  Corpora,       \* the corpora a preparation may start from
  Prepared,      \* the corpus whose manifest the source pins
  QueryDeck,     \* how many questions the deck asks
  Outputs, DataRoots,
  CorpusEdits,   \* <<path, bytes>>: how corpus files change
  OtherBytes,    \* what other clients add or remove
  MaxCells, MaxAccEvents   \* bounds

VARIABLES
  corpus,      \* path |-> the bytes on disk
  inventory,   \* {} or the inventory written last
  manifestFile,\* {} or the corpus the manifest written last was made of
  prep,        \* how the last preparation ended
  roots,       \* data root |-> "empty", "used" or "warm"
  served,      \* the data root the API serves
  spaces,      \* the workspaces created: their root and what each revision held
  operation,   \* the managed operation of the last upload
  cell,        \* the cell in progress
  pairRun,     \* the pair in progress
  cellFiles,   \* <<output, side>> |-> the cell evidence stored there
  comparisonFiles, \* output |-> the comparison stored there
  matrixFile,  \* the robustness summary, once written
  cells, accEvents

accVars == <<corpus, inventory, manifestFile, prep, roots, served, spaces, operation, cell,
             pairRun, cellFiles, comparisonFiles, matrixFile, cells, accEvents>>
prepVars == <<inventory, manifestFile, prep>>
serverVars == <<roots, served, spaces, operation>>
evidenceVars == <<cellFiles, comparisonFiles, matrixFile>>

PathSet == ToSet(CorpusPaths)
Sides == {"cold", "warm"}
NoCell == [state |-> "idle"]
NoPair == [state |-> "idle"]
NoOperation == [status |-> "none"]
NoEvidence == [status |-> "absent"]

(***************************************************************************)
(* Preparation.                                                            *)
(***************************************************************************)

FileLimit(p) == IF p \in PdfPaths THEN MAX_PDF_BYTES ELSE MAX_OTHER_BYTES
SameBytes(c, p) == SelectSeq(CorpusPaths, LAMBDA q : c[q] = c[p])

(* What a path is by itself.                                               *)
ScreenedAs(c, p) ==
  CASE SizeOf[c[p]] > FileLimit(p) -> "oversize"
    [] SizeOf[c[p]] <= FileLimit(p) /\ p \in PdfPaths /\ TextCheck[c[p]] = "none" -> "ocr"
    [] OTHER -> "eligible"

(* The first path of the same bytes stays eligible, the others duplicate it. *)
RowOf(c, p) ==
  LET first == SameBytes(c, p)[1]
      copy == ScreenedAs(c, p) = "eligible" /\ first # p
  IN [sha256 |-> c[p], disposition |-> IF copy THEN "duplicate" ELSE ScreenedAs(c, p),
      canonical |-> IF copy THEN first ELSE p]

(* Every PDF within its limit was screened, and bytes have one media type. *)
Classifiable(c) ==
  /\ \A p \in PdfPaths : SizeOf[c[p]] <= FileLimit(p) => TextCheck[c[p]] # "absent"
  /\ \A p, q \in PathSet : c[p] = c[q] => (p \in PdfPaths <=> q \in PdfPaths)

Where(m, d) == SelectSeq(CorpusPaths, LAMBDA p : m.rows[p].disposition = d)
EligibleSources(m) == Where(m, "eligible")
(* The valid source of the mixed cases: the first one nothing duplicates.  *)
ValidSource(m) ==
  LET copied == {m.rows[p].sha256 : p \in ToSet(Where(m, "duplicate"))}
      free == SelectSeq(EligibleSources(m), LAMBDA p : m.rows[p].sha256 \notin copied)
  IN IF free = <<>> THEN {} ELSE {m.rows[free[1]].sha256}
Rejected == {"oversize", "ocr", "duplicate"}
ScenarioCounts(m) ==
  [individual |-> [d \in Rejected |-> Len(Where(m, d))],
   mixed |-> [d \in Rejected |-> IF ValidSource(m) # {} /\ Where(m, d) # <<>> THEN 1 ELSE 0],
   retry |-> Cardinality(ValidSource(m))]

build_replacement_acceptance_manifest(c) ==
  LET rows == [rows |-> [p \in PathSet |-> RowOf(c, p)]]
  IN [rows |-> rows.rows, sources |-> EligibleSources(rows), scenarios |-> ScenarioCounts(rows)]

(* The manifest is read again, row by row, against limits and screens ...  *)
RowIsValid(m, p) ==
  LET row == m.rows[p]
  IN CASE SizeOf[row.sha256] > FileLimit(p) -> row.disposition = "oversize"
       [] SizeOf[row.sha256] <= FileLimit(p) /\ p \in PdfPaths /\ TextCheck[row.sha256] = "none" ->
            row.disposition \in {"ocr", "duplicate"}
       [] OTHER -> row.disposition \in {"eligible", "duplicate"}
(* ... and by byte identity: one canonical source, every copy naming it.   *)
IdentityIsValid(m, i) ==
  LET of == {p \in PathSet : m.rows[p].sha256 = i}
      found == {m.rows[p].disposition : p \in of}
      canonical == {p \in of : m.rows[p].disposition = "eligible"}
  IN of # {} =>
       /\ \A p, q \in of : p \in PdfPaths <=> q \in PdfPaths
       /\ Cardinality(of) = 1 => found # {"duplicate"}
       /\ Cardinality(of) > 1 =>
            \/ /\ found = {"eligible", "duplicate"}
               /\ Cardinality(canonical) = 1
               /\ \A p \in of \ canonical : m.rows[p].canonical \in canonical
            \/ Cardinality(found) = 1 /\ "duplicate" \notin found
validate_replacement_manifest(m) ==
  /\ \A p \in PathSet : RowIsValid(m, p)
  /\ \A i \in ByteIds : IdentityIsValid(m, i)
  /\ m.sources = EligibleSources(m)
  /\ IsInjective([k \in DOMAIN m.sources |-> m.rows[m.sources[k]].sha256])
  /\ m.scenarios = ScenarioCounts(m)

PinnedManifest == build_replacement_acceptance_manifest(Prepared)

inventory_directory ==
  /\ inventory # {corpus}
  /\ inventory' = {corpus} /\ prep' = "inventoried"
  /\ UNCHANGED <<corpus, manifestFile, serverVars, cell, pairRun, evidenceVars, cells, accEvents>>

(* A manifest is made of an inventory the corpus still agrees with, and    *)
(* written only once it validates.                                         *)
write_manifest ==
  /\ inventory # {} /\ prep = "inventoried"
  /\ LET made == build_replacement_acceptance_manifest(corpus)
     IN \/ /\ (corpus \notin inventory \/ ~ Classifiable(corpus))
           /\ prep' = "refused" /\ UNCHANGED manifestFile
        \/ /\ corpus \in inventory /\ Classifiable(corpus)
           /\ IF validate_replacement_manifest(made)
                THEN prep' = "made" /\ manifestFile' = {corpus}
                ELSE prep' = "invalid" /\ UNCHANGED manifestFile
  /\ UNCHANGED <<corpus, inventory, serverVars, cell, pairRun, evidenceVars, cells, accEvents>>

(***************************************************************************)
(* A cell.                                                                 *)
(***************************************************************************)

check_cache_state(root, side) == roots[root] = IF side = "cold" THEN "empty" ELSE "warm"

(* Every path of the population still holds what the manifest says.        *)
verify_replacement_manifest_files(m) == \A p \in PathSet : corpus[p] = m.rows[p].sha256
Admissible(m) == \A k \in DOMAIN m.sources :
  SizeOf[m.rows[m.sources[k]].sha256] <= FileLimit(m.sources[k])
load_sources(m) ==
  verify_replacement_manifest_files(m) /\ validate_replacement_manifest(m) /\ Admissible(m)
(* The manifest is the pinned one.  A manifest is a function of its corpus.*)
PinsHold(made) == made = Prepared

BytesOf(m, batch) ==
  FoldLeft(LAMBDA sum, p : sum + SizeOf[m.rows[p].sha256], 0, batch)
batch_sources(m) ==
  FoldLeft(LAMBDA batches, p :
             LET last == batches[Len(batches)]
             IN IF last # <<>> /\ (Len(last) >= MAX_FILES_PER_REQUEST
                                   \/ BytesOf(m, last) + SizeOf[m.rows[p].sha256] > MAX_BYTES_PER_REQUEST)
                  THEN Append(batches, <<p>>)
                  ELSE [batches EXCEPT ![Len(batches)] = Append(last, p)],
           <<<<>>>>, m.sources)
PinnedIdentities == {PinnedManifest.rows[PinnedManifest.sources[k]].sha256 : k \in DOMAIN PinnedManifest.sources}

FileOf(c) == <<c.output, c.side>>
Revision(ws) == Len(spaces[ws].held)
Holds(ws) == spaces[ws].held[Revision(ws)]
Evidence(status) ==
  [status |-> status, side |-> cell.side, pair |-> cell.pair, root |-> cell.root,
   manifest |-> cell.manifest, predecessor |-> cell.predecessor, space |-> cell.space,
   revision |-> cell.final]
StoreEvidence(status) == cellFiles' = [cellFiles EXCEPT ![FileOf(cell)] = Evidence(status)]

OutputIsFree(file) == cellFiles[file] = NoEvidence

(* A failure of any step is recorded; the pair does not go on.             *)
FailCell ==
  /\ StoreEvidence("FAILED")
  /\ cell' = NoCell /\ pairRun' = NoPair

StartedCell(output, side, root, pair, predecessor) ==
  [state |-> "prepare", output |-> output, side |-> side, root |-> root, pair |-> pair,
   predecessor |-> predecessor, manifest |-> "none", space |-> 0, revision |-> 0, batch |-> 1,
   final |-> 0, asked |-> 0]

(* The run-cell command: a cell of no pair.                                *)
start_single_cell(output, side, root) ==
  /\ cell = NoCell /\ pairRun = NoPair /\ cells < MaxCells /\ manifestFile # {}
  /\ OutputIsFree(<<output, side>>)
  /\ cell' = StartedCell(output, side, root, 0, {}) /\ cells' = cells + 1
  /\ UNCHANGED <<corpus, prepVars, serverVars, pairRun, evidenceVars, accEvents>>

(* Everything that is checked before the server is asked for anything; the *)
(* manifest a cell goes on with is the pinned one.                         *)
prepare_cell ==
  /\ cell.state = "prepare" /\ OutputIsFree(FileOf(cell))
  /\ LET made == CHOOSE c \in manifestFile : TRUE
         ready == /\ check_cache_state(cell.root, cell.side)
                  /\ load_sources(build_replacement_acceptance_manifest(made)) /\ PinsHold(made)
     IN \/ /\ ready
           /\ cell' = [cell EXCEPT !.state = "create", !.manifest = "pinned"]
           /\ cellFiles' = [cellFiles EXCEPT ![FileOf(cell)] =
                              [Evidence("RUNNING") EXCEPT !.manifest = "pinned"]]
           /\ UNCHANGED pairRun
        \/ ~ ready /\ FailCell
  /\ UNCHANGED <<corpus, prepVars, serverVars, comparisonFiles, matrixFile, cells, accEvents>>

Batches == batch_sources(PinnedManifest)
Batch == Batches[cell.batch]

(* The workspace must appear under the data root the cell declares.        *)
create_workspace ==
  /\ cell.state = "create"
  /\ \/ FailCell /\ UNCHANGED serverVars
     \/ /\ spaces' = Append(spaces, [root |-> served, held |-> <<{}>>])
        /\ roots' = [roots EXCEPT ![served] = IF @ = "empty" THEN "used" ELSE @]
        /\ operation' = NoOperation /\ UNCHANGED served
        /\ IF served = cell.root
             THEN /\ cell' = [cell EXCEPT !.state = "upload", !.space = Len(spaces) + 1, !.revision = 1]
                  /\ cellFiles' = [cellFiles EXCEPT ![FileOf(cell)].space = Len(spaces) + 1]
                  /\ UNCHANGED pairRun
             ELSE FailCell
  /\ UNCHANGED <<corpus, prepVars, comparisonFiles, matrixFile, cells, accEvents>>

(* The files are opened now, whatever they hold by now; the upload is of   *)
(* the revision the previous operation published.                          *)
SentBytes(batch) == {corpus[batch[k]] : k \in DOMAIN batch}
upload_batch ==
  /\ cell.state = "upload"
  /\ \/ FailCell /\ UNCHANGED operation
     \/ /\ cell.revision = Revision(cell.space)
        /\ \A k \in DOMAIN Batch : SizeOf[corpus[Batch[k]]] <= FileLimit(Batch[k])
        /\ operation' = [status |-> "running", space |-> cell.space, docs |-> SentBytes(Batch),
                         count |-> Len(Batch),
                         bytes |-> FoldLeft(LAMBDA sum, p : sum + SizeOf[corpus[p]], 0, Batch),
                         revision |-> 0, held |-> 0]
        /\ cell' = [cell EXCEPT !.state = "poll"]
        /\ UNCHANGED <<cellFiles, pairRun>>
  /\ UNCHANGED <<corpus, prepVars, roots, served, spaces, comparisonFiles, matrixFile, cells, accEvents>>

(* The server publishes the documents as one revision, or nothing.         *)
operation_ends ==
  /\ operation.status = "running"
  /\ LET ws == operation.space
     IN \/ /\ operation.docs \cap Holds(ws) = {}
           /\ Cardinality(operation.docs) = operation.count
           /\ spaces' = [spaces EXCEPT ![ws].held = Append(@, Holds(ws) \cup operation.docs)]
           /\ operation' = [operation EXCEPT !.status = "succeeded", !.revision = Revision(ws) + 1,
                              !.held = Cardinality(Holds(ws) \cup operation.docs)]
           /\ roots' = [roots EXCEPT ![spaces[ws].root] = "warm"]
        \/ /\ operation' = [operation EXCEPT !.status = "failed"]
           /\ UNCHANGED <<roots, spaces>>
  /\ UNCHANGED <<corpus, prepVars, served, cell, pairRun, evidenceVars, cells, accEvents>>

(* Polling ends with a terminal operation, or when the watchdog expires;   *)
(* an expired watchdog cancels nothing.                                    *)
poll_operation ==
  /\ cell.state = "poll"
  /\ \/ /\ operation.status = "succeeded"
        /\ cell' = [cell EXCEPT !.state = "count", !.revision = operation.revision]
        /\ UNCHANGED <<cellFiles, pairRun>>
     \/ operation.status # "succeeded" /\ FailCell
  /\ UNCHANGED <<corpus, prepVars, serverVars, comparisonFiles, matrixFile, cells, accEvents>>

(* Metrics and worklist are of the published population, and the active    *)
(* sources are counted with a read of their own.                           *)
_validate_operation_metrics ==
  /\ operation.held = Cardinality(Holds(cell.space))
  /\ operation.count = Len(Batch)
  /\ operation.bytes = BytesOf(PinnedManifest, Batch)
check_operation ==
  /\ cell.state = "count"
  /\ IF _validate_operation_metrics
       THEN /\ cell' = [cell EXCEPT !.state = IF cell.batch < Len(Batches) THEN "upload" ELSE "final",
                                    !.batch = IF @ < Len(Batches) THEN @ + 1 ELSE @]
            /\ UNCHANGED <<cellFiles, pairRun>>
       ELSE FailCell
  /\ UNCHANGED <<corpus, prepVars, serverVars, comparisonFiles, matrixFile, cells, accEvents>>

(* The revision the queries must be of is read first ...                   *)
read_final_workspace ==
  /\ cell.state = "final"
  /\ cell' = [cell EXCEPT !.state = "sources", !.final = Revision(cell.space)]
  /\ UNCHANGED <<corpus, prepVars, serverVars, pairRun, evidenceVars, cells, accEvents>>

(* ... and the sources with another request.                               *)
read_final_sources ==
  /\ cell.state = "sources"
  /\ IF Holds(cell.space) = PinnedIdentities
       THEN cell' = [cell EXCEPT !.state = "query"] /\ UNCHANGED <<cellFiles, pairRun>>
       ELSE FailCell
  /\ UNCHANGED <<corpus, prepVars, serverVars, comparisonFiles, matrixFile, cells, accEvents>>

(* Mutant: the revision an answer is bound to is not compared. *)
AnyRevision(answered) == answered > 0
_validate_query_result(answered) == answered = cell.final

(* The last answer completes the cell.  Any answer may be ungrounded.      *)
ask_question ==
  /\ cell.state = "query"
  /\ \/ /\ _validate_query_result(Revision(cell.space))
        /\ IF cell.asked + 1 < QueryDeck
             THEN /\ cell' = [cell EXCEPT !.asked = @ + 1]
                  /\ UNCHANGED <<cellFiles, pairRun>>
             ELSE /\ StoreEvidence("COMPLETE")
                  /\ cell' = NoCell
                  /\ pairRun' = IF cell.pair = 0 THEN NoPair
                                ELSE [pairRun EXCEPT !.state = IF cell.side = "cold" THEN "warm" ELSE "compare"]
     \/ FailCell
  /\ UNCHANGED <<corpus, prepVars, serverVars, comparisonFiles, matrixFile, cells, accEvents>>

(***************************************************************************)
(* A pair, its comparison and the robustness matrix.                       *)
(***************************************************************************)

OutputsAreFree(output) ==
  (\A side \in Sides : cellFiles[<<output, side>>] = NoEvidence) /\ comparisonFiles[output] = {}
_require_full_primary_manifest(m) == validate_replacement_manifest(m) /\ m.sources # <<>>
run_full_cold_warm_pair(output, root) ==
  /\ cell = NoCell /\ pairRun = NoPair /\ cells < MaxCells
  /\ OutputsAreFree(output)
  /\ \E made \in manifestFile :
       PinsHold(made) /\ _require_full_primary_manifest(build_replacement_acceptance_manifest(made))
  /\ cells' = cells + 1
  /\ pairRun' = [state |-> "cold", id |-> cells + 1, output |-> output, root |-> root]
  /\ cell' = StartedCell(output, "cold", root, cells + 1, {})
  /\ UNCHANGED <<corpus, prepVars, serverVars, evidenceVars, accEvents>>

(* The warm cell names the bytes of the cold evidence.                     *)
start_warm_cell ==
  /\ cell = NoCell /\ pairRun.state = "warm"
  /\ cell' = StartedCell(pairRun.output, "warm", pairRun.root, pairRun.id,
                         {cellFiles[<<pairRun.output, "cold">>]})
  /\ pairRun' = [pairRun EXCEPT !.state = "running"]
  /\ UNCHANGED <<corpus, prepVars, serverVars, evidenceVars, cells, accEvents>>

(* Mutant: the pair the cells belong to is not compared. *)
ComparedByPopulation(cold, warm) ==
  /\ cold.status = "COMPLETE" /\ warm.status = "COMPLETE"
  /\ cold.side = "cold" /\ warm.side = "warm"
  /\ cold.manifest = warm.manifest
compare_cold_warm(cold, warm) ==
  /\ cold.status = "COMPLETE" /\ warm.status = "COMPLETE"
  /\ cold.side = "cold" /\ warm.side = "warm"
  /\ cold.manifest = warm.manifest
  /\ cold.pair # 0 /\ cold.pair = warm.pair
  /\ cold.root = warm.root
  /\ warm.predecessor = {cold}

compare_pair ==
  /\ pairRun.state = "compare"
  /\ LET cold == cellFiles[<<pairRun.output, "cold">>]
         warm == cellFiles[<<pairRun.output, "warm">>]
     IN comparisonFiles' = IF compare_cold_warm(cold, warm)
                             THEN [comparisonFiles EXCEPT ![pairRun.output] = {<<cold, warm>>}]
                             ELSE comparisonFiles
  /\ pairRun' = NoPair
  /\ UNCHANGED <<corpus, prepVars, serverVars, cell, cellFiles, matrixFile, cells, accEvents>>

(* The compare command takes any two files.                                *)
compare_files(a, b, output) ==
  /\ cell = NoCell /\ pairRun = NoPair
  /\ LET cold == cellFiles[<<a, "cold">>]
         warm == cellFiles[<<b, "warm">>]
     IN /\ compare_cold_warm(cold, warm)
        /\ comparisonFiles' = [comparisonFiles EXCEPT ![output] = {<<cold, warm>>}]
  /\ UNCHANGED <<corpus, prepVars, serverVars, cell, pairRun, cellFiles, matrixFile, cells, accEvents>>

(* A case per rejected path, and one mixed request per reason, which a     *)
(* request with the valid source alone must follow.                        *)
_expected_robustness_case_specs(m) ==
  {<<"individual", p>> : p \in {q \in PathSet : m.rows[q].disposition \in Rejected}}
    \cup {<<"mixed", d>> : d \in Rejected}
CaseOutcomes == {"rejected", "rejected_and_retried", "published"}
validate_robustness_case_evidence(case, outcome) ==
  outcome = IF case[1] = "mixed" THEN "rejected_and_retried" ELSE "rejected"

validate_robustness_matrix_evidence(m, records, cold, warm) ==
  /\ \A d \in Rejected : m.scenarios.mixed[d] = 1
  /\ DOMAIN records = _expected_robustness_case_specs(m)
  /\ \A case \in DOMAIN records : validate_robustness_case_evidence(case, records[case])
  /\ warm.status = "COMPLETE" /\ cold.status = "COMPLETE"
  /\ warm.manifest = "pinned" /\ cold.manifest = "pinned"
  /\ compare_cold_warm(cold, warm)

(* Case records as an operator hands them in: at most one is missing and   *)
(* at most one tells of another outcome.                                   *)
CaseRecords(m) ==
  LET specs == _expected_robustness_case_specs(m)
      good(case) == IF case[1] = "mixed" THEN "rejected_and_retried" ELSE "rejected"
  IN {[case \in specs \ missing |-> IF case \in bad THEN "published" ELSE good(case)] :
        missing \in {{}} \cup {{s} : s \in specs}, bad \in {{}} \cup {{s} : s \in specs}}

validate_robustness_matrix(a, b) ==
  /\ cell = NoCell /\ pairRun = NoPair /\ matrixFile = {}
  /\ \E made \in manifestFile : PinsHold(made)
  /\ compare_cold_warm(cellFiles[<<a, "cold">>], cellFiles[<<b, "warm">>])
  /\ \E records \in CaseRecords(PinnedManifest) :
       /\ validate_robustness_matrix_evidence(PinnedManifest, records, cellFiles[<<a, "cold">>], cellFiles[<<b, "warm">>])
       /\ matrixFile' = {[records |-> records, cold |-> cellFiles[<<a, "cold">>],
                          warm |-> cellFiles[<<b, "warm">>]]}
  /\ UNCHANGED <<corpus, prepVars, serverVars, cell, pairRun, cellFiles, comparisonFiles, cells, accEvents>>

(***************************************************************************)
(* The world.                                                              *)
(***************************************************************************)

(* What happens after the last cell the bound allows changes nothing.      *)
EventsLeft == accEvents < MaxAccEvents /\ (cells < MaxCells \/ cell # NoCell \/ pairRun # NoPair)

edit_corpus(p, i) ==
  /\ EventsLeft /\ corpus[p] # i
  /\ corpus' = [corpus EXCEPT ![p] = i] /\ accEvents' = accEvents + 1
  /\ UNCHANGED <<prepVars, serverVars, cell, pairRun, evidenceVars, cells>>

(* Another client publishes a revision; the server admits no two           *)
(* mutations of one workspace at a time.                                   *)
other_client(i) ==
  /\ EventsLeft /\ cell.state \notin {"idle", "prepare", "create"}
  /\ operation.status # "running"
  /\ LET ws == cell.space
         now == IF i \in Holds(ws) THEN Holds(ws) \ {i} ELSE Holds(ws) \cup {i}
     IN spaces' = [spaces EXCEPT ![ws].held = Append(@, now)]
  /\ accEvents' = accEvents + 1
  /\ UNCHANGED <<corpus, prepVars, roots, served, operation, cell, pairRun, evidenceVars, cells>>

serve_other_root(root) ==
  /\ EventsLeft /\ served # root /\ operation.status # "running"
  /\ cell.state \in {"idle", "prepare", "create"}
  /\ served' = root /\ accEvents' = accEvents + 1
  /\ UNCHANGED <<corpus, prepVars, roots, spaces, operation, cell, pairRun, evidenceVars, cells>>

(* A killed harness leaves its evidence as it was.                         *)
kill_harness ==
  /\ EventsLeft /\ cell # NoCell
  /\ cell' = NoCell /\ pairRun' = NoPair /\ accEvents' = accEvents + 1
  /\ UNCHANGED <<corpus, prepVars, serverVars, evidenceVars, cells>>

AcceptanceInit ==
  /\ corpus \in Corpora
  /\ inventory = {} /\ manifestFile = {} /\ prep = "none"
  /\ roots = [r \in DataRoots |-> "empty"] /\ served \in DataRoots
  /\ spaces = <<>> /\ operation = NoOperation
  /\ cell = NoCell /\ pairRun = NoPair
  /\ cellFiles = [f \in Outputs \X Sides |-> NoEvidence]
  /\ comparisonFiles = [o \in Outputs |-> {}] /\ matrixFile = {}
  /\ cells = 0 /\ accEvents = 0

AcceptanceNext ==
  \/ inventory_directory \/ write_manifest
  \/ \E o \in Outputs, root \in DataRoots : \/ run_full_cold_warm_pair(o, root)
                                            \/ \E side \in Sides : start_single_cell(o, side, root)
  \/ prepare_cell \/ create_workspace \/ upload_batch \/ poll_operation \/ check_operation
  \/ read_final_workspace \/ read_final_sources \/ ask_question
  \/ start_warm_cell \/ compare_pair
  \/ \E a, b \in Outputs : validate_robustness_matrix(a, b) \/ \E o \in Outputs : compare_files(a, b, o)
  \/ operation_ends
  \/ \E edit \in CorpusEdits : edit_corpus(edit[1], edit[2])
  \/ \E i \in OtherBytes : other_client(i)
  \/ \E root \in DataRoots : serve_other_root(root)
  \/ kill_harness

AcceptanceSpec == AcceptanceInit /\ [][AcceptanceNext]_accVars

(***************************************************************************)
(* Properties.                                                             *)
(***************************************************************************)

(* The two derivations of the population agree: a manifest built of a      *)
(* classifiable corpus always validates (prepare_corpus.py calls the       *)
(* validator on its own result), and it gives every admissible content     *)
(* exactly one eligible path, whatever copies the corpus holds.  (It is    *)
(* evaluated before the first cell, which changes no manifest.)            *)
PopulationIsPartitioned ==
  /\ prep # "invalid"
  /\ cells = 0 => \A made \in manifestFile :
       LET m == build_replacement_acceptance_manifest(made)
       IN \A p \in PathSet :
            LET row == m.rows[p]
                eligible == {q \in PathSet : m.rows[q].sha256 = row.sha256 /\ m.rows[q].disposition = "eligible"}
                admissible == /\ SizeOf[row.sha256] <= FileLimit(p)
                              /\ p \in PdfPaths => TextCheck[row.sha256] = "native"
            IN Cardinality(eligible) = IF admissible THEN 1 ELSE 0

(* The uploads of a cell send every eligible source once, each request     *)
(* within the file and byte limits of the API (batch_sources).             *)
BatchesFit ==
  cell.state = "create" =>
    /\ FlattenSeq(Batches) = PinnedManifest.sources
    /\ \A n \in DOMAIN Batches :
         /\ Len(Batches[n]) \in 1 .. MAX_FILES_PER_REQUEST
         /\ BytesOf(PinnedManifest, Batches[n]) <= MAX_BYTES_PER_REQUEST

(* Complete evidence names a revision that held exactly the manifest's     *)
(* eligible sources, although revision, sources and answers are separate   *)
(* requests and other clients publish in between (run_cell).               *)
CompleteIsPublished ==
  \A f \in DOMAIN cellFiles : cellFiles[f].status = "COMPLETE" =>
    spaces[cellFiles[f].space].held[cellFiles[f].revision] = PinnedIdentities

(* A comparison is of a cold and a warm cell of one pair and one data      *)
(* root, and the cold cell's workspace is the first ever made in that      *)
(* root, so nothing it measured was cached (compare_cold_warm,             *)
(* check_cache_state).                                                     *)
ComparedIsConsecutive ==
  \A o \in Outputs : \A c \in comparisonFiles[o] :
    /\ c[1].pair = c[2].pair /\ c[1].root = c[2].root /\ c[1].space < c[2].space
    /\ \A ws \in 1 .. c[1].space - 1 : spaces[ws].root # c[1].root

(* An accepted matrix has a rejected case for every path left out of the   *)
(* population, a successful retry for each mixed case, and both cells      *)
(* published that population (validate_robustness_matrix_evidence).        *)
MatrixIsCovered ==
  \A s \in matrixFile :
    /\ \A p \in PathSet : PinnedManifest.rows[p].disposition # "eligible" =>
         <<"individual", p>> \in DOMAIN s.records /\ s.records[<<"individual", p>>] = "rejected"
    /\ \A d \in Rejected : <<"mixed", d>> \in DOMAIN s.records
                           /\ s.records[<<"mixed", d>>] = "rejected_and_retried"
    /\ \A e \in {s.cold, s.warm} : spaces[e.space].held[e.revision] = PinnedIdentities

(* Acceptance speaks of the prepared corpus: it is partitioned, sent within  *)
(* the limits, published whole in each complete cell, compared cold to warm  *)
(* in one data root and covered case by case.                                *)
CorpusIsAccepted ==
  /\ PopulationIsPartitioned /\ BatchesFit /\ CompleteIsPublished
  /\ ComparedIsConsecutive /\ MatrixIsCovered
=============================================================================
