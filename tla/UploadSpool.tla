---------------------------- MODULE UploadSpool -----------------------------
(***************************************************************************)
(* How bytes enter the product: a multipart body or a list of local files  *)
(* is streamed into a staging directory under transport limits, an         *)
(* accepted workspace upload is planned and admitted against the whole     *)
(* desired set, its bytes are written to the vault (object first, metadata *)
(* last), and the desired set is rebuilt from the vault and published.     *)
(* A client decides the parts of its body as it goes; the process can die  *)
(* anywhere, and the next one quarantines abandoned workspace spools.      *)
(***************************************************************************)
EXTENDS Totals, FiniteSets, SequencesExt

CONSTANTS
  Uploads,        \* requests, each used once
  UpDocs,         \* contents a file can have
  Chunks,         \* Chunks[d]: the sizes of the pieces d arrives in
  Pdfs,           \* the contents with a .pdf name
  MaxParts,       \* bound: parts of one body
  max_files_per_ingest, max_bytes_per_document, max_pdf_bytes_per_document,
  max_total_upload_bytes, max_active_sources_per_workspace,
  max_active_source_bytes_per_workspace

ASSUME UploadAssumption ==
  /\ "none" \notin Uploads
  /\ Chunks \in [UpDocs -> Seq(Nat)]
  /\ {max_files_per_ingest, max_bytes_per_document, max_pdf_bytes_per_document,
      max_total_upload_bytes, max_active_sources_per_workspace,
      max_active_source_bytes_per_workspace, MaxParts} \subseteq Nat

VARIABLES
  up,        \* per upload: where it is, what it has spooled
  staging,   \* the uploads whose staging directory exists
  vault,     \* objects: <<upload, index>> |-> [doc, meta]
  sources,   \* source id |-> the vault object of its active version, or None
  served,    \* the documents of the workspace's published snapshot
  wsLease,   \* the upload whose worker holds the workspace lease, or "none"
  legacy,    \* the corpora written by POST /v1/ingest or the CLI
  upHost     \* [up, qualified]: is a process running, may it embed large PDFs

uploadVars == <<up, staging, vault, sources, served, wsLease, legacy, upHost>>

Routes == {"product", "local", "add", "replace"}
Http == {"product", "add", "replace"}
Spooling == {"spooling", "failed"}

(* A part of a body: the corpus field, a file with a good name, or one the *)
(* header checks refuse.                                                   *)
CorpusNames == {"own", "wsc", "invalid"}
UploadParts == [field : {"corpus"}, value : CorpusNames] \cup [field : {"files"}, value : UpDocs]
               \cup [field : {"refused"}, value : {"headers"}]
None == <<>>
NoPart == [field |-> "none", value |-> "none"]

DocBytes(d) == SumOf(Chunks[d])
source_limit_bytes(d) == IF d \in Pdfs THEN max_pdf_bytes_per_document ELSE max_bytes_per_document

Fresh == [st |-> "new", route |-> "none", part |-> NoPart, read |-> 0, size |-> 0, seen |-> 0,
          begun |-> 0, files |-> <<>>, total |-> 0, corpus |-> "none", desired |-> {}]

(* Whether the host may embed a large PDF: profile, memory and device, as  *)
(* the running process finds them.                                         *)
LargePdfEligibility == BOOLEAN

UploadInit ==
  /\ up = [u \in Uploads |-> Fresh]
  /\ staging = {}
  /\ vault = <<>>
  /\ sources = [s \in 1..(max_active_sources_per_workspace + 1) |-> None]
  /\ served = {}
  /\ wsLease = "none"
  /\ legacy = {}
  /\ upHost \in [up : {TRUE}, qualified : LargePdfEligibility]

(* What is left of an upload that has ended: its route, and its files,     *)
(* which name what the vault should hold.                                  *)
Ended(u, st) == [Fresh EXCEPT !.st = st, !.route = up[u].route, !.files = up[u].files]
Go(u, st) == up' = [up EXCEPT ![u] = IF st \in {"done", "refused"} THEN Ended(u, st)
                                      ELSE [@ EXCEPT !.st = st]]
Restored == UNCHANGED <<vault, sources, served, wsLease, legacy, upHost>>

(***************************************************************************)
(* Streaming.                                                              *)
(***************************************************************************)

(* The envelope is valid; the staging directory is made before any byte is *)
(* read.                                                                   *)
BeginMultipart(u, r) ==
  /\ upHost.up /\ up[u].st = "new" /\ r \in Http
  /\ up' = [up EXCEPT ![u].st = "spooling", ![u].route = r]
  /\ staging' = staging \cup {u}
  /\ Restored

(* A local ingest names its corpus and its n files at once: the name and   *)
(* the number are refused before anything is staged.                       *)
BeginLocal(u, c, n) ==
  /\ upHost.up /\ up[u].st = "new"
  /\ IF c = "invalid" \/ n = 0 \/ n > max_files_per_ingest
     THEN Go(u, "refused") /\ UNCHANGED staging
     ELSE /\ up' = [up EXCEPT ![u].st = "spooling", ![u].route = "local", ![u].corpus = c,
                              ![u].begun = MaxParts - n]
          /\ staging' = staging \cup {u}
  /\ Restored

(* on_part_begin and on_headers_finished: what the headers of a part say.  *)
(* Only the product route has a corpus field, at most one.                 *)
HeadersRefuse(u, p) ==
  \/ p.field = "refused"
  \/ p.field = "corpus" /\ (up[u].route # "product" \/ up[u].seen = 1)
  \/ p.field = "files" /\ up[u].route \in Http /\ Len(up[u].files) >= max_files_per_ingest

OnHeaders(u, p) ==
  /\ upHost.up /\ up[u].st = "spooling" /\ up[u].part = NoPart /\ up[u].begun < MaxParts
  /\ up[u].route = "local" => p.field # "corpus"
  /\ up' = [up EXCEPT ![u].begun = @ + 1,
                      ![u].part = p, ![u].read = 0, ![u].size = 0,
                      ![u].seen = @ + (IF p.field = "corpus" THEN 1 ELSE 0),
                      ![u].st = IF HeadersRefuse(u, p) THEN "failed" ELSE @]
  /\ UNCHANGED staging
  /\ Restored

(* Mutant: the multipart total counts completed files only.                *)
WriteUncounted(u, n) ==
  /\ up[u].size + n <= source_limit_bytes(up[u].part.value)
  /\ up[u].total - up[u].size + n <= max_total_upload_bytes

(* The file's own limit, then the request's.  The multipart spools count   *)
(* every byte already written in the total; spool_local_files adds a file  *)
(* to it only once the file is complete (OnPartData, OnPartEnd).           *)
WriteFits(u, n) ==
  /\ up[u].size + n <= source_limit_bytes(up[u].part.value)
  /\ up[u].total + n <= max_total_upload_bytes

OnPartData(u) ==
  LET d == up[u].part.value
      n == Chunks[d][up[u].read + 1]
      local == up[u].route = "local"
  IN /\ upHost.up /\ up[u].st = "spooling" /\ up[u].part.field = "files" /\ up[u].read < Len(Chunks[d])
     /\ up' = IF WriteFits(u, n)
              THEN [up EXCEPT ![u].read = @ + 1, ![u].size = @ + n,
                              ![u].total = @ + (IF local THEN 0 ELSE n)]
              ELSE [up EXCEPT ![u].st = "failed"]
     /\ UNCHANGED staging
     /\ Restored

(* on_part_end, and the end of one local file.  An empty file is refused;  *)
(* the product spools name a file by its digest and refuse it twice.       *)
EndRefuses(u) ==
  LET p == up[u].part
  IN \/ p.field = "corpus" /\ p.value = "invalid"
     \/ p.field = "files" /\ up[u].size = 0
     \/ p.field = "files" /\ up[u].route \in {"product", "local"}
        /\ \E i \in DOMAIN up[u].files : up[u].files[i] = p.value

OnPartEnd(u) ==
  LET p == up[u].part
  IN /\ upHost.up /\ up[u].st = "spooling"
     /\ \/ p.field = "corpus"
        \/ p.field = "files" /\ up[u].read = Len(Chunks[p.value])
     /\ up' = IF EndRefuses(u) THEN [up EXCEPT ![u].st = "failed"]
              ELSE [up EXCEPT ![u].part = NoPart, ![u].size = 0,
                     ![u].files = IF p.field = "files" THEN Append(@, p.value) ELSE @,
                     ![u].total = @ + (IF up[u].route = "local" THEN up[u].size ELSE 0),
                     ![u].corpus = IF p.field = "corpus" THEN p.value ELSE @]
     /\ UNCHANGED staging
     /\ Restored

(* What is missing at the end of a body.  An unfinished last part is not   *)
(* an error: the parser's finalize accepts it and the part is left out.    *)
Incomplete(u) ==
  \/ up[u].files = <<>>
  \/ up[u].route = "product" /\ up[u].corpus = "none"
  \/ up[u].route = "replace" /\ Len(up[u].files) # 1

EndOfBody(u) ==
  /\ upHost.up /\ up[u].st = "spooling"
  /\ up[u].route = "local" => up[u].part = NoPart /\ up[u].begun = MaxParts
  /\ IF Incomplete(u)
     THEN Go(u, "refused") /\ staging' = staging \ {u}
     ELSE Go(u, "accepted") /\ UNCHANGED staging
  /\ Restored

(* A refused part, a malformed body, a lost client or a failed read ends   *)
(* the upload and removes what it staged.                                  *)
Abandon(u) ==
  /\ upHost.up /\ up[u].st \in Spooling
  /\ Go(u, "refused")
  /\ staging' = staging \ {u}
  /\ Restored

(***************************************************************************)
(* The product route and the CLI: an accepted upload replaces a corpus     *)
(* that no workspace owns.                                                 *)
(***************************************************************************)

(* "wsc" is the backing corpus of the workspace directory, whether or not  *)
(* its record can be read.                                                 *)
assert_legacy_ingest_allowed(c) == c # "wsc"
(* The lifecycle may ingest only into the corpus of its own workspace.     *)
assert_authorized_workspace_corpus(c) == c = "wsc"

(* The HTTP route removes the staging directory of a refused ingest; the   *)
(* CLI leaves it behind.  An ingest that has its lease moves the files     *)
(* under the corpus and removes the rest of the directory.                 *)
ProductIngest(u, disconnected) ==
  /\ upHost.up /\ up[u].st = "accepted" /\ up[u].route \in {"product", "local"}
  /\ disconnected => up[u].route = "product"
  /\ IF disconnected \/ ~assert_legacy_ingest_allowed(up[u].corpus)
     THEN /\ Go(u, "refused")
          /\ staging' = IF up[u].route = "product" THEN staging \ {u} ELSE staging
          /\ UNCHANGED legacy
     ELSE /\ Go(u, "done")
          /\ staging' = staging \ {u}
          /\ legacy' = legacy \cup {up[u].corpus}
  /\ UNCHANGED <<vault, sources, served, wsLease, upHost>>

(***************************************************************************)
(* A workspace upload: reservation, plan, admission, vault, publication.   *)
(***************************************************************************)

DocOf(o) == vault[o].doc
Uploaded(o) == up[o[1]].files[o[2]]
Active == {s \in DOMAIN sources : sources[s] # None}
(* The desired set: pairs of a source and the object it will have.         *)
Kept(S) == {<<s, sources[s]>> : s \in S}
Added(u) == {<<u, k>> : k \in DOMAIN up[u].files}
ObjectOf(desired, s) == IF \E e \in desired : e[1] = s
                        THEN (CHOOSE e \in desired : e[1] = s)[2] ELSE None
Bytes(desired) ==
  SumOf([s \in DOMAIN sources |->
           LET o == ObjectOf(desired, s) IN IF o = None THEN 0 ELSE DocBytes(Uploaded(o))])

(* The reservation answers with a new operation, with the one the key      *)
(* already names, or with an error: in the last two the spool goes.        *)
ReserveUpload(u, launched) ==
  /\ upHost.up /\ up[u].st = "accepted" /\ up[u].route \in {"add", "replace"}
  /\ IF launched THEN Go(u, "queued") /\ UNCHANGED staging
                 ELSE Go(u, "refused") /\ staging' = staging \ {u}
  /\ Restored

(* Fresh source ids for the files of an add.                               *)
_plan_add(u) ==
  LET free == SetToSeq(DOMAIN sources \ Active)
  IN Kept(Active) \cup {<<free[k], <<u, k>>>> : k \in DOMAIN up[u].files}
_plan_replace(u, s) == Kept(Active \ {s}) \cup {<<s, <<u, 1>>>>}
_plan_remove(s) == Kept(Active \ {s})

(* An add refuses a document that is active or twice in the request.       *)
Duplicate(u) ==
  LET f == up[u].files
  IN \/ \E i \in DOMAIN f : \E s \in Active : Uploaded(sources[s]) = f[i]
     \/ \E i, j \in DOMAIN f : i # j /\ f[i] = f[j]

enforce_workspace_active_source_capacity(desired, kind) ==
  kind = "remove" \/ Cardinality(desired) <= max_active_sources_per_workspace
enforce_workspace_active_source_bytes(desired, kind) ==
  kind = "remove" \/ Bytes(desired) <= max_active_source_bytes_per_workspace
desired_requires_large_pdf(desired) ==
  \E e \in desired : LET d == Uploaded(e[2])
                     IN d \in Pdfs /\ DocBytes(d) > max_bytes_per_document
enforce_large_pdf_runtime(desired) == desired_requires_large_pdf(desired) => upHost.qualified

(* The gates of _execute_publication, over the complete desired set; the   *)
(* free disk space is what the host says at this moment.                   *)
Admits(desired, kind, disk) ==
  /\ enforce_workspace_active_source_capacity(desired, kind)
  /\ enforce_workspace_active_source_bytes(desired, kind)
  /\ enforce_large_pdf_runtime(desired)
  /\ disk

(* The worker takes the lease, plans, and is admitted or gives up, before  *)
(* it writes to the vault.  t is the source a replace is for.  An add that *)
(* has no source id left is above the ceiling on sources.                  *)
PlanUpload(u, t, disk) ==
  LET add == up[u].route = "add"
      fits == Cardinality(Active) + Len(up[u].files) <= Cardinality(DOMAIN sources)
      bad == IF add THEN Duplicate(u) \/ ~fits ELSE t \notin Active
      desired == IF add THEN _plan_add(u) ELSE _plan_replace(u, t)
  IN /\ upHost.up /\ up[u].st = "queued" /\ wsLease = "none"
     /\ add => t = 1
     /\ IF bad
        THEN Go(u, "refused") /\ staging' = staging \ {u} /\ UNCHANGED wsLease
        ELSE IF Admits(desired, up[u].route, disk)
        THEN /\ up' = [up EXCEPT ![u].st = "writing", ![u].desired = desired]
             /\ wsLease' = u /\ UNCHANGED staging
        ELSE Go(u, "refused") /\ staging' = staging \ {u} /\ UNCHANGED wsLease
     /\ UNCHANGED <<vault, sources, served, legacy, upHost>>

(* put_path: the copy is linked in place under its new id, then the        *)
(* metadata is written.                                                    *)
NextObject(u) == <<u, Cardinality({o \in DOMAIN vault : o[1] = u /\ vault[o].meta}) + 1>>
Missing(u) == NextObject(u)[2] <= Len(up[u].files)

Extended(o, r) == [x \in DOMAIN vault \cup {o} |-> IF x = o THEN r ELSE vault[x]]

PutObject(u) ==
  LET o == NextObject(u)
  IN /\ upHost.up /\ up[u].st = "writing" /\ Missing(u) /\ o \notin DOMAIN vault
     /\ vault' = Extended(o, [doc |-> Uploaded(o), meta |-> FALSE])
     /\ UNCHANGED <<up, staging, sources, served, wsLease, legacy, upHost>>

PutMeta(u) ==
  LET o == NextObject(u)
  IN /\ upHost.up /\ up[u].st = "writing" /\ Missing(u) /\ o \in DOMAIN vault
     /\ vault' = [vault EXCEPT ![o].meta = TRUE]
     /\ UNCHANGED <<up, staging, sources, served, wsLease, legacy, upHost>>

(* A failed write takes an object without metadata away again; objects     *)
(* already committed for the same request stay.                            *)
PutFails(u) ==
  /\ upHost.up /\ up[u].st = "writing" /\ Missing(u)
  /\ vault' = [o \in {x \in DOMAIN vault : x[1] # u \/ vault[x].meta} |-> vault[o]]
  /\ Go(u, "refused") /\ wsLease' = "none" /\ staging' = staging \ {u}
  /\ UNCHANGED <<sources, served, legacy, upHost>>

(* verify_object and get_meta: the stored bytes are those of the metadata. *)
verify_object(o) == o \in DOMAIN vault /\ vault[o].meta /\ DocOf(o) = Uploaded(o)

(* materialize_desired_sources reads every source back; the copy for the   *)
(* pipeline refuses two sources with one content.                          *)
materialize_desired_sources(desired) == \A e \in desired : verify_object(e[2])
Distinct(desired) == \A e, f \in desired : DocOf(e[2]) = DocOf(f[2]) => e = f

Commit(desired) ==
  /\ sources' = [s \in DOMAIN sources |-> ObjectOf(desired, s)]
  /\ served' = {DocOf(e[2]) : e \in desired}

PublishUpload(u, ok) ==
  LET desired == up[u].desired
      good == ok /\ materialize_desired_sources(desired) /\ Distinct(desired)
              /\ assert_authorized_workspace_corpus("wsc")
  IN /\ upHost.up /\ up[u].st = "writing" /\ ~Missing(u)
     /\ IF good THEN Commit(desired) ELSE UNCHANGED <<sources, served>>
     /\ Go(u, IF good THEN "done" ELSE "refused")
     /\ wsLease' = "none" /\ staging' = staging \ {u}
     /\ UNCHANGED <<vault, legacy, upHost>>

(* Removing a source rebuilds what is left of the desired set through the  *)
(* same gates; removing the last one publishes nothing.                    *)
RemoveSource(s, disk) ==
  LET desired == _plan_remove(s)
  IN /\ upHost.up /\ wsLease = "none" /\ s \in Active
     /\ desired # {} => /\ Admits(desired, "remove", disk)
                        /\ materialize_desired_sources(desired)
     /\ Commit(desired)
     /\ UNCHANGED <<up, staging, vault, wsLease, legacy, upHost>>

(***************************************************************************)
(* The world: stored bytes rot, processes die, the next one starts.        *)
(***************************************************************************)
DamageObject(o) ==
  /\ o \in DOMAIN vault /\ vault[o].meta /\ DocOf(o) # "damaged"
  /\ vault' = [vault EXCEPT ![o].doc = "damaged"]
  /\ UNCHANGED <<up, staging, sources, served, wsLease, legacy, upHost>>

CrashUploads ==
  /\ upHost.up
  /\ upHost' = [upHost EXCEPT !.up = FALSE]
  /\ up' = [u \in Uploads |->
       IF up[u].st \in {"new", "done", "refused"} THEN up[u] ELSE Ended(u, "lost")]
  /\ wsLease' = "none"
  /\ UNCHANGED <<staging, vault, sources, served, legacy>>

(* Abandoned workspace spools are moved aside; the staging directories of  *)
(* the product routes stay.                                                *)
quarantine_orphan_workspace_spools == {u \in staging : up[u].route \in {"product", "local"}}

RestartUploads ==
  /\ ~upHost.up
  /\ \E q \in LargePdfEligibility : upHost' = [up |-> TRUE, qualified |-> q]
  /\ staging' = quarantine_orphan_workspace_spools
  /\ UNCHANGED <<up, vault, sources, served, wsLease, legacy>>

UploadNext ==
  \/ \E u \in Uploads :
       \/ \E r \in Http : BeginMultipart(u, r)
       \/ \E c \in CorpusNames, n \in 0..MaxParts : BeginLocal(u, c, n)
       \/ \E p \in UploadParts : OnHeaders(u, p)
       \/ OnPartData(u) \/ OnPartEnd(u) \/ EndOfBody(u) \/ Abandon(u)
       \/ \E b \in BOOLEAN : ProductIngest(u, b) \/ ReserveUpload(u, b) \/ PublishUpload(u, b)
       \/ \E t \in DOMAIN sources, disk \in BOOLEAN : PlanUpload(u, t, disk)
       \/ PutObject(u) \/ PutMeta(u) \/ PutFails(u)
  \/ \E s \in DOMAIN sources, disk \in BOOLEAN : RemoveSource(s, disk)
  \/ \E o \in DOMAIN vault : DamageObject(o)
  \/ CrashUploads \/ RestartUploads

UploadSpec == UploadInit /\ [][UploadNext]_uploadVars

(***************************************************************************)
(* Properties.                                                             *)
(***************************************************************************)

SpooledBytes(u) == up[u].size + SumOf([i \in DOMAIN up[u].files |-> DocBytes(up[u].files[i])])

(* However its parts are cut into chunks, an HTTP request never has more   *)
(* bytes on disk than max_total_upload_bytes, nor more files than allowed, *)
(* and no file above the limit of its media type (both _ActiveFile.write). *)
StagedWithinLimits ==
  \A u \in staging : up[u].route \in Http =>
    /\ SpooledBytes(u) <= max_total_upload_bytes
    /\ Len(up[u].files) <= max_files_per_ingest
    /\ \A i \in DOMAIN up[u].files : DocBytes(up[u].files[i]) <= source_limit_bytes(up[u].files[i])

(* The same total for a local ingest (cli.py, spool_local_files with       *)
(* apply_transport_limits).  The code does not keep it: no run checks it.  *)
LocalWithinTotal ==
  \A u \in Uploads :
    (up[u].route = "local" /\ up[u].st = "accepted") => SpooledBytes(u) <= max_total_upload_bytes

(* A running process has no workspace spool without a request that will    *)
(* clean it up: refusals, replays, failed workers and, after a crash, the  *)
(* quarantine of the next start see to it (upload_spool.py, workspaces.py).*)
StagingIsOwned ==
  upHost.up => \A u \in staging : up[u].route \in {"add", "replace"} =>
                 up[u].st \in {"spooling", "failed", "accepted", "queued", "writing"}

(* What a snapshot serves is what was uploaded for its active sources,     *)
(* though it is rebuilt from the vault after crashes, failed writes and    *)
(* damage to stored bytes (materialize_desired_sources, verify_object).    *)
ServedIsUploaded == served = {Uploaded(sources[s]) : s \in Active}

(* The whole workspace, not the request, is held to the ceilings: no       *)
(* committed add or replace leaves more sources or bytes than allowed.     *)
WithinCeilings ==
  /\ Cardinality(Active) <= max_active_sources_per_workspace
  /\ Bytes(Kept(Active)) <= max_active_source_bytes_per_workspace

(* A workspace's corpus is never replaced by POST /v1/ingest or the CLI.   *)
LegacyKeepsOut == "wsc" \notin legacy

(* From the first chunk of an upload to the snapshot that serves it: the    *)
(* limits hold on disk and over the whole workspace, every spool has an     *)
(* owner, what is served is what was uploaded, and the legacy route never   *)
(* replaces a workspace's corpus.                                           *)
UploadIsSound ==
  StagedWithinLimits /\ StagingIsOwned /\ ServedIsUploaded /\ WithinCeilings /\ LegacyKeepsOut
=============================================================================
