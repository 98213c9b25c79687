----------------------------- MODULE GoldLedger ------------------------------
(***************************************************************************)
(* The Gold Lab's campaigns under review (app/gold_lab): reviewers append  *)
(* to a campaign's ledger under an idempotency catalog, anyone folds the   *)
(* ledger into the current state without a lease, and an export publishes  *)
(* the finished cases as a dataset and registers it for the campaign.      *)
(*                                                                         *)
(* A record file, a catalog entry, a dataset directory and a registration  *)
(* are each one atomic write; a call that dies between two of them leaves  *)
(* what it wrote and frees its leases.                                     *)
(***************************************************************************)
EXTENDS Integers, Sequences, FiniteSets, FiniteSetsExt

CONSTANTS
  Campaigns,  \* every campaign has a project of its own
  Cases, Candidates, \* the reviewable cases and the candidates of each
  Clients, Keys,
  Requests,   \* what a client may send to a campaign
  HardCalls,  \* the designated judgments, <<case, candidate>>
  Reviewed,   \* the ledgers at the start
  SeededIds   \* record ids handed out before

VARIABLES
  ledger,    \* per campaign, the records in sequence
  catalog,   \* per campaign, key -> reservation
  open,      \* campaigns not closed
  live,      \* campaigns whose project is not archived
  datasets,  \* the published datasets, named by their content
  registered,\* the registrations: dataset, campaign, projection
  call,      \* each client's call
  acks,      \* what clients were told
  ids        \* record ids handed out

goldVars == <<ledger, catalog, open, live, datasets, registered, call, acks, ids>>

None  == 0
Idle  == [op |-> "idle"]
Free  == [status |-> "absent"]
Proposal == [query |-> "P", meta |-> "P"]

(* --- The fold of a ledger ------------------------------------------------- *)

LastIn(S) == IF S = {} THEN 0 ELSE Max(S)

(* The current Question Check of a case: the last one. *)
CurrentQuestion(led, case) ==
  LastIn({i \in 1..Len(led) : led[i].req.kind = "question_check" /\ led[i].req.case = case})

(* The effective values; a rejected or unchecked case has none. *)
Active(led, case) ==
  LET i == CurrentQuestion(led, case) IN i # 0 /\ led[i].req.decision # "reject"
EffectiveValues(led, case) ==
  LET req == led[CurrentQuestion(led, case)].req IN
  IF req.decision = "accept" THEN Proposal ELSE req.values

CurrentAbsolute(led, case, cand, query) ==
  LastIn({i \in 1..Len(led) : /\ led[i].req.kind = "absolute_relevance"
                              /\ led[i].req.case = case /\ led[i].req.cand = cand
                              /\ led[i].query = query})

IdOf(led, i) == IF i = 0 THEN None ELSE led[i].id

(* What _validate_supersession demands of the record that follows led. *)
Chained(led, rec) ==
  CASE rec.req.kind = "question_check" ->
         rec.supersedes = IdOf(led, CurrentQuestion(led, rec.req.case))
    [] rec.req.kind = "absolute_relevance" ->
         /\ Active(led, rec.req.case)
         /\ EffectiveValues(led, rec.req.case).query = rec.query
         /\ rec.supersedes = IdOf(led, CurrentAbsolute(led, rec.req.case, rec.req.cand, rec.query))
    [] OTHER -> rec.supersedes = None

FoldsWithoutError(led) ==
  /\ \A i, j \in 1..Len(led) : i # j => led[i].id # led[j].id /\ led[i].key # led[j].key
  /\ \A i \in 1..Len(led) : Chained(SubSeq(led, 1, i - 1), led[i])

(* --- The projection ------------------------------------------------------- *)

(* _current_judgments: the grades of a case under its effective query. *)
CurrentJudgments(led, case) ==
  LET query == EffectiveValues(led, case).query
      at == [k \in Candidates[case] |-> CurrentAbsolute(led, case, k, query)]
  IN [k \in {c \in Candidates[case] : at[c] # 0} |-> led[at[k]].req.grade]

Complete(case, judgments) ==
  /\ Candidates[case] # {} /\ DOMAIN judgments = Candidates[case]
  /\ \E c \in DOMAIN judgments : judgments[c] >= 1

Review(status, judgments, values) == [status |-> status, judgments |-> judgments, values |-> values]
ProjectCase(led, case) ==
  LET q == led[CurrentQuestion(led, case)].req
      j == CurrentJudgments(led, case)
  IN IF CurrentQuestion(led, case) = 0 THEN Review("pending", <<>>, Proposal)
     ELSE IF q.decision = "reject" THEN Review("rejected", <<>>, Proposal)
     ELSE IF ~Complete(case, j) THEN Review("pending", j, EffectiveValues(led, case))
     ELSE IF q.decision = "accept" THEN Review("accepted", j, Proposal)
     ELSE Review("edited", j, q.values)
Projection(led) == [case \in Cases |-> ProjectCase(led, case)]

(* build_gold_cases: the finished cases with their positive grades; the id of *)
(* a dataset is a hash of exactly this.                                       *)
Approved(p) == {case \in Cases : p[case].status \in {"accepted", "edited"}}
Positives(judgments) == {<<c, judgments[c]>> : c \in {d \in DOMAIN judgments : judgments[d] >= 1}}
Dataset(p) == {<<case, p[case].values, Positives(p[case].judgments)>> : case \in Approved(p)}
CaseIds(dataset) == {row[1] : row \in dataset}

(* _reconstruct_from_ledger: the projection of a registration, from a prefix. *)
Reconstructible(led, p) == \E n \in 0..Len(led) : Projection(SubSeq(led, 1, n)) = p

(* --- The contribution ----------------------------------------------------- *)

Total(amount, S) == FoldSet(LAMBDA case, n : n + amount[case], 0, S)
ExpertJudgments(led) ==
  LET judged == {case \in Cases : Active(led, case)} IN
  Total([case \in judged |-> Cardinality(DOMAIN CurrentJudgments(led, case))], judged)
QuestionsReviewed(led) == Cardinality({case \in Cases : CurrentQuestion(led, case) # 0})
CasesCompleted(led) ==
  Cardinality({case \in Cases : /\ Active(led, case) /\ Candidates[case] # {}
                                /\ DOMAIN CurrentJudgments(led, case) = Candidates[case]})
HardCallsResolved(led) ==
  Cardinality({h \in HardCalls : Active(led, h[1]) /\ h[2] \in DOMAIN CurrentJudgments(led, h[1])})
Finalized(c) == UNION {CaseIds(r.dataset) : r \in {x \in registered : x.campaign = c}}
Contribution(c) ==
  ExpertJudgments(ledger[c]) + 5 * QuestionsReviewed(ledger[c])
    + 10 * CasesCompleted(ledger[c]) + 15 * Cardinality(Finalized(c))
    + 5 * HardCallsResolved(ledger[c])

(* --- Leases and records --------------------------------------------------- *)

(* The project and campaign leases of c: a call that is under way holds both. *)
(* None waits: one that finds them taken is answered busy.                      *)
Held(c) == \E cl \in Clients : call[cl].op # "idle" /\ call[cl].campaign = c
DatasetHeld(d) == \E cl \in Clients : call[cl].op = "published" /\ call[cl].dataset = d

OpenLifecycle(c) == c \in live /\ c \in open

(* The requests a case allows now. *)
Prepared(led, req) ==
  CASE req.kind = "absolute_relevance" -> Active(led, req.case)
    [] req.kind = "auxiliary_preference" -> req.cand # req.other
    [] OTHER -> req.decision = "edit" => req.values # Proposal

RecordFor(led, req, key, id) ==
  LET query == IF req.kind = "absolute_relevance" THEN EffectiveValues(led, req.case).query ELSE "none"
  IN [id |-> id, key |-> key, req |-> req, query |-> query,
      supersedes |-> CASE req.kind = "question_check" -> IdOf(led, CurrentQuestion(led, req.case))
                       [] req.kind = "absolute_relevance" ->
                            IdOf(led, CurrentAbsolute(led, req.case, req.cand, query))
                       [] OTHER -> None]

(* The start: ledgers an earlier review left, grades that the schema allows. *)
IsSequence(led) == led \in Seq({led[i] : i \in 1..Len(led)})
Graded(req) == req.kind = "absolute_relevance" => req.grade \in 0..2
ASSUME GoldAssumption ==
  /\ DOMAIN Candidates = Cases /\ SeededIds \in Nat
  /\ Reviewed = [c \in Campaigns |-> Reviewed[c]]
  /\ \A c \in Campaigns : \A req \in Requests[c] : Graded(req)
  /\ \A c \in Campaigns :
       /\ IsSequence(Reviewed[c]) /\ FoldsWithoutError(Reviewed[c])
       /\ \A i \in 1..Len(Reviewed[c]) :
            LET rec == Reviewed[c][i] IN
            rec.key \notin Keys /\ rec.id \in 1..SeededIds /\ Graded(rec.req)

ReservedRecords(led, id) == {led[i] : i \in {j \in 1..Len(led) : led[j].id = id}}

(* --- _execute_mutation ---------------------------------------------------- *)

Reserved(cl, c, key, req, id) ==
  call' = [call EXCEPT ![cl] = [op |-> "reserved", campaign |-> c, key |-> key, req |-> req, id |-> id]]
Tell(c, key, req, id) == acks' = acks \cup {[campaign |-> c, key |-> key, req |-> req, id |-> id]}

(* Mutant: a key is answered whatever request it was reserved for. *)
AnyRequest(entry, req) == TRUE
SameRequest(entry, req) == entry.req = req

Reservation(req, id) == [status |-> "pending", req |-> req, id |-> id]

(* A new key: the whole record is prepared before the reservation is written. *)
SubmitNew(cl, c, key, req) ==
  /\ call[cl].op = "idle" /\ ~Held(c) /\ catalog[c][key].status = "absent"
  /\ \A i \in 1..Len(ledger[c]) : ledger[c][i].key # key
  /\ OpenLifecycle(c) /\ Prepared(ledger[c], req)
  /\ ids' = ids + 1
  /\ catalog' = [catalog EXCEPT ![c][key] = Reservation(req, ids')]
  /\ Reserved(cl, c, key, req, ids')
  /\ UNCHANGED <<ledger, open, live, datasets, registered, acks>>

(* A known key whose record is in the ledger, committed or still pending. *)
SubmitReplayed(cl, c, key, req) ==
  LET entry == catalog[c][key] IN
  /\ call[cl].op = "idle" /\ ~Held(c) /\ entry.status # "absent" /\ SameRequest(entry, req)
  /\ ReservedRecords(ledger[c], entry.id) # {}
  /\ catalog' = [catalog EXCEPT ![c][key].status = "committed"]
  /\ Tell(c, key, req, entry.id)
  /\ UNCHANGED <<ledger, open, live, datasets, registered, call, ids>>

(* A reservation without its record: the gates again, with the same ids. *)
SubmitRetried(cl, c, key, req) ==
  LET entry == catalog[c][key] IN
  /\ call[cl].op = "idle" /\ ~Held(c) /\ entry.status = "pending" /\ SameRequest(entry, req)
  /\ ReservedRecords(ledger[c], entry.id) = {}
  /\ OpenLifecycle(c) /\ Prepared(ledger[c], req)
  /\ Reserved(cl, c, key, req, entry.id)
  /\ UNCHANGED <<ledger, catalog, open, live, datasets, registered, acks, ids>>

Appended(led, rec) == Append(led, rec)

(* append_under_lease asks the lifecycle once more. *)
AppendRecord(cl) ==
  LET k == call[cl] IN
  /\ k.op = "reserved" /\ OpenLifecycle(k.campaign)
  /\ ledger' = [ledger EXCEPT ![k.campaign] = Appended(@, RecordFor(@, k.req, k.key, k.id))]
  /\ call' = [call EXCEPT ![cl].op = "appended"]
  /\ UNCHANGED <<catalog, open, live, datasets, registered, acks, ids>>

MarkCommitted(cl) ==
  LET k == call[cl] IN
  /\ k.op = "appended"
  /\ catalog' = [catalog EXCEPT ![k.campaign][k.key].status = "committed"]
  /\ Tell(k.campaign, k.key, k.req, k.id) /\ call' = [call EXCEPT ![cl] = Idle]
  /\ UNCHANGED <<ledger, open, live, datasets, registered, ids>>

(* --- The lifecycle -------------------------------------------------------- *)

(* Closing takes the campaign lease, archiving the project's. *)
CloseCampaign(c) == /\ ~Held(c) /\ c \in open /\ open' = open \ {c}
                    /\ UNCHANGED <<ledger, catalog, live, datasets, registered, call, acks, ids>>
ArchiveProject(c) == /\ ~Held(c) /\ c \in live /\ live' = live \ {c}
                     /\ UNCHANGED <<ledger, catalog, open, datasets, registered, call, acks, ids>>

(* --- export_and_register -------------------------------------------------- *)

(* Fold, write the projection and finalize it into a candidate directory.     *)
(* Closed campaigns and archived projects export too.                         *)
Export(cl, c) ==
  LET p == Projection(ledger[c]) IN
  /\ call[cl].op = "idle" /\ ~Held(c) /\ Approved(p) # {}
  /\ call' = [call EXCEPT ![cl] = [op |-> "exporting", campaign |-> c, projection |-> p,
                                   dataset |-> Dataset(p)]]
  /\ UNCHANGED <<ledger, catalog, open, live, datasets, registered, acks, ids>>

(* Under the dataset lease: promote the candidate, or use what is there. A    *)
(* registered dataset that is gone is not replaced.                           *)
PublishDataset(cl) ==
  LET k == call[cl] IN
  /\ k.op = "exporting" /\ ~DatasetHeld(k.dataset)
  /\ k.dataset \in datasets \/ \A r \in registered : r.dataset # k.dataset
  /\ datasets' = datasets \cup {k.dataset}
  /\ call' = [call EXCEPT ![cl].op = "published"]
  /\ UNCHANGED <<ledger, catalog, open, live, registered, acks, ids>>

ValidRegistration(reg) == reg.dataset \in datasets /\ CaseIds(reg.dataset) \subseteq Cases
(* An equal registration is returned; one with another projection conflicts. *)
Register(cl) ==
  LET k == call[cl]
      reg == [dataset |-> k.dataset, campaign |-> k.campaign, projection |-> k.projection]
  IN /\ k.op = "published" /\ ValidRegistration(reg)
     /\ \A r \in registered : r.dataset = reg.dataset /\ r.campaign = reg.campaign => r = reg
     /\ registered' = registered \cup {reg}
     /\ call' = [call EXCEPT ![cl] = Idle]
     /\ UNCHANGED <<ledger, catalog, open, live, datasets, acks, ids>>

(* A refused or failed write, a lease that is taken, a conflict, a process    *)
(* that dies: the call ends where it is.                                      *)
CallEnds(cl) == /\ call[cl].op # "idle" /\ call' = [call EXCEPT ![cl] = Idle]
                /\ UNCHANGED <<ledger, catalog, open, live, datasets, registered, acks, ids>>

(* --- The specification ---------------------------------------------------- *)

GoldInit ==
  /\ ledger = Reviewed /\ catalog = [c \in Campaigns |-> [k \in Keys |-> Free]]
  /\ open = Campaigns /\ live = Campaigns /\ datasets = {} /\ registered = {}
  /\ call = [cl \in Clients |-> Idle] /\ acks = {} /\ ids = SeededIds

GoldNext ==
  \/ \E cl \in Clients, c \in Campaigns :
       \/ Export(cl, c)
       \/ \E key \in Keys, req \in Requests[c] :
            SubmitNew(cl, c, key, req) \/ SubmitReplayed(cl, c, key, req) \/ SubmitRetried(cl, c, key, req)
  \/ \E cl \in Clients : AppendRecord(cl) \/ MarkCommitted(cl) \/ PublishDataset(cl) \/ Register(cl) \/ CallEnds(cl)
  \/ \E c \in Campaigns : CloseCampaign(c) \/ ArchiveProject(c)

GoldSpec == GoldInit /\ [][GoldNext]_goldVars

(* --- Properties ----------------------------------------------------------- *)

Entries == [status : {"absent"}] \cup [status : {"pending", "committed"}, req : UNION {Requests[c] : c \in Campaigns}, id : Nat]

(* Every record has its id from the counter, every reservation names a        *)
(* request of its campaign, and only leases that exclude each other are held. *)
GoldTypeOK ==
  /\ \A c \in Campaigns : \A i \in 1..Len(ledger[c]) : ledger[c][i].id \in 1..ids
  /\ \A c \in Campaigns : \A k \in Keys : catalog[c][k] \in Entries
  /\ open \subseteq Campaigns /\ live \subseteq Campaigns
  /\ \A a, b \in Clients : a # b /\ call[a].op # "idle" /\ call[b].op # "idle"
                            => call[a].campaign # call[b].campaign

(* Readers fold a ledger without a lease, so no moment of any mutation, retry *)
(* or crash may leave one that fails the fold: no key or id twice, every      *)
(* judgment under the question current when it was made, every correction     *)
(* superseding exactly the current judgment of its query (effective_state).   *)
LedgerFolds == \A c \in Campaigns : FoldsWithoutError(ledger[c])

(* The catalog and the ledger agree at every moment: a committed key has its  *)
(* record and a record of a client's key has its reservation, so a retry is   *)
(* never answered committed_missing_ledger or orphan_ledger_key.              *)
CatalogAgrees ==
  \A c \in Campaigns :
    /\ \A k \in Keys : catalog[c][k].status = "committed" => ReservedRecords(ledger[c], catalog[c][k].id) # {}
    /\ \A i \in 1..Len(ledger[c]) :
         LET rec == ledger[c][i] IN
         rec.key \in Keys => /\ catalog[c][rec.key].status # "absent" /\ catalog[c][rec.key].id = rec.id
                             /\ catalog[c][rec.key].req = rec.req

(* Whatever a client is told was recorded is recorded, with its own request,  *)
(* and stays so: a retried key is answered with the one record of that key.   *)
AcknowledgedIsRecorded ==
  \A a \in acks : /\ \E r \in ReservedRecords(ledger[a.campaign], a.id) : r.key = a.key /\ r.req = a.req
                  /\ \A b \in acks : b.campaign = a.campaign /\ b.key = a.key => b.id = a.id

(* Every registered dataset is there, with the cases the registration names,  *)
(* whatever step of an export failed (validate_registration_against_authority).*)
RegisteredIsPublished == \A r \in registered : r.dataset \in datasets

(* Every grade of a registered dataset was given to that candidate for the    *)
(* query the dataset exports, and no candidate of an exported case was left   *)
(* without one: an edit of the question never carries old grades along.       *)
ExportedIsJudged ==
  \A r \in registered : \A row \in r.dataset :
    LET given(cand, grades) == \E i \in 1..Len(ledger[r.campaign]) :
          LET rec == ledger[r.campaign][i] IN
          /\ rec.req.kind = "absolute_relevance" /\ rec.req.case = row[1] /\ rec.req.cand = cand
          /\ rec.query = row[2].query /\ rec.req.grade \in grades
    IN /\ \A cand \in Candidates[row[1]] : given(cand, 0..2)
       /\ \A pos \in row[3] : given(pos[1], {pos[2]})

(* _reconstruct_from_ledger finds the projection of every registration again: *)
(* some prefix of the ledger still projects to it, however it went on.        *)
PackageIsRecoverable ==
  \A r \in registered : Reconstructible(ledger[r.campaign], r.projection) /\ Dataset(r.projection) = r.dataset

(* A closed campaign's ledger, and one of an archived project, never grows,   *)
(* retries of reservations made before included.                              *)
ClosedIsFrozen ==
  \A c \in Campaigns : c \notin open \/ c \notin live => ledger'[c] = ledger[c]

(* Judging a candidate again for the same query earns nothing.                *)
CorrectionEarnsNothing ==
  \A c \in Campaigns : Len(ledger'[c]) > Len(ledger[c]) =>
    LET rec == ledger'[c][Len(ledger'[c])] IN
    rec.req.kind = "absolute_relevance" /\ rec.supersedes # None => Contribution(c)' = Contribution(c)

(* A campaign's records are authoritative: every ledger folds, agrees with  *)
(* its catalog and holds what clients were told, and every registered       *)
(* dataset is published, judged and recoverable from the ledger.            *)
LedgerIsSound ==
  /\ GoldTypeOK /\ LedgerFolds /\ CatalogAgrees /\ AcknowledgedIsRecorded
  /\ RegisteredIsPublished /\ ExportedIsJudged /\ PackageIsRecoverable
=============================================================================
