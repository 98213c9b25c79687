--------------------------- MODULE ServingProofs ----------------------------
(***************************************************************************)
(* Proofs about questions that are served while workspaces are mutated,    *)
(* for any number of questions, revisions, snapshots and traces, and about *)
(* the product settings, for any environments, requests and clients.       *)
(***************************************************************************)
EXTENDS MCServing, FiniteSetTheorems, TLAPS

Before == {"idle", "read", "scoped", "resolver", "bind", "held", "execute"}
Retaining == {"retain", "retain_turn"}
Ending == {"write_turn", "retain_turn", "answered"}

\* Each row names the one selected source that holds its document in the
\* revision of the question, and an answer has rows for what it cites.
RowsOf(x) ==
    LET rec == History[x.rev] IN
    /\ \A r \in x.rows : {s \in x.selected : rec.sources[s] = r[1]} = {r[2]}
    /\ x.status = "answered" => {r[1] : r \in x.rows} = x.cited

\* What the step of a question says about it.
Placed(x) ==
    /\ x.pc \in {"scoped", "resolver", "bind"} \cup Holding => x.snap \in Snaps
    /\ x.pc \in {"scoped", "enrich"} => x.kind # "product"
    /\ x.pc \in {"resolver", "write_turn", "retain_turn"} => x.kind = "conversation"
    /\ (x.pc \notin {"idle", "read", "failed"} /\ x.kind # "product")
          => x.rev \in DOMAIN History /\ x.snap = History[x.rev].snapshot
    /\ x.pc \in Before => x.status = "none" /\ x.cited = {}
    /\ x.pc \in Before \cup {"write", "retain", "enrich"} => x.rows = {}
    /\ x.pc \in Before \cup {"write", "retain"} => ~x.traced
    /\ (x.pc \in Ending /\ x.kind # "product") => RowsOf(x)
    /\ x.pc \in {"write", "retain", "enrich"} => x.status # "clarification_required"
    /\ x.status = "clarification_required" => ~x.traced
    /\ x.pc \notin Retaining => x.doomed = {}
    /\ x.pc \notin {"write", "retain", "failed"} => x.code = "none"

\* The traces a question has left.
QueryTrace(q, x) == [by |-> q, at |-> x.at, status |-> x.status, code |-> x.code, query |-> FALSE]
TurnFile(q, x) == [by |-> q, at |-> x.cat, status |-> x.status, code |-> x.code, query |-> x.traced]
Told(q, x, files) ==
    /\ (x.pc = "retain" \/ (x.pc \in {"enrich"} \cup Ending /\ x.status \in Success))
          => QueryTrace(q, x) \in files["query"]
    /\ (x.pc = "retain_turn" \/ (x.pc = "answered" /\ x.kind = "conversation"))
          => TurnFile(q, x) \in files["conversation"]

\* A trace that a pass may drop: too old, or not among the newest.
Newer(t, x) == {y \in committed[t] \ {x} : y.at >= x.at}
Outdated(t, x) == clock - x.at > MaxAge \/ Cardinality(Newer(t, x)) >= MaxRetained

\* A retention pass of store t under way in question x.
PassOf(x, t) == x.pc = (IF t = "query" THEN "retain" ELSE "retain_turn")

\* The stores: what is gone or about to go is outdated, and a store beyond its
\* bound is under a pass that brings it back, unless an unlink failed.
Stored ==
    \A t \in Stores :
        /\ IsFiniteSet(committed[t])
        /\ \A x \in committed[t] \ traces[t] : Outdated(t, x)
        /\ \A q \in Queries : PassOf(query[q], t) =>
              \A x \in query[q].doomed : x \in committed[t] /\ Outdated(t, x)
        /\ \/ Cardinality(traces[t]) <= MaxRetained
           \/ \E q \in Queries : query[q].code = "internal_error"
           \/ \E q \in Queries : /\ PassOf(query[q], t)
                                 /\ Cardinality(traces[t] \ query[q].doomed) <= MaxRetained

\* The inductive invariant.
ServeInv ==
    /\ ServeTypeOK
    /\ \A q \in Queries : Placed(query[q]) /\ Told(q, query[q], committed)
    /\ BorrowedIsOpen /\ IdleIsLatest
    /\ Stored

USE ServeAssumption

-----------------------------------------------------------------------------
(* What the actions have in common                                         *)

\* A step of one question.
LEMMA QueryWritten ==
    ASSUME ServeTypeOK, NEW q \in Queries, NEW y \in QueryRecords, Q(q, y)
    PROVE  /\ query' \in [Queries -> QueryRecords] /\ query'[q] = y
           /\ \A p \in Queries : p # q => query'[p] = query[p]
BY DEF ServeTypeOK, Q

\* The snapshots and sources a revision names are among those of the history.
LEMMA Named ==
    ASSUME NEW r \in DOMAIN History
    PROVE  /\ History[r].snapshot \in Snaps \cup {"none"}
           /\ History[r].status = "active" => History[r].snapshot \in Snaps
           /\ \A s \in SourceIds : History[r].sources[s] \in Docs \cup {"none"}
<1>1. /\ History[r].snapshot \in Snaps \cup {"none"}
      /\ History[r].status = "active" => History[r].snapshot \in Snaps
  BY DEF Snaps
<1>2. ASSUME NEW s \in SourceIds, History[r].sources[s] # "none"
      PROVE  History[r].sources[s] \in Docs
  <2>1. {History[r].sources[x] : x \in SourceIds}
          \in {{History[p].sources[x] : x \in SourceIds} : p \in DOMAIN History}
    OBVIOUS
  <2>2. History[r].sources[s] \in {History[r].sources[x] : x \in SourceIds}
    OBVIOUS
  <2>. DEFINE all == {{History[p].sources[x] : x \in SourceIds} : p \in DOMAIN History}
              own == {History[r].sources[x] : x \in SourceIds}
              d == History[r].sources[s]
  <2>3. d \in own /\ own \in all
    BY <2>1, <2>2
  <2>4. Docs = (UNION all) \ {"none"} /\ d # "none"
    BY <1>2 DEF Docs
  <2>. HIDE DEF all, own, d
  <2>5. d \in Docs
    BY <2>3, <2>4
  <2>q. QED
    BY <2>5 DEF d
<1>q. QED
  BY <1>1, <1>2

\* Borrowers and runtimes stay as they are.
LEMMA RuntimeKept ==
    ASSUME ServeInv, UNCHANGED cache,
           \A p \in Queries :
              /\ query'[p].pc \in Holding <=> query[p].pc \in Holding
              /\ query[p].pc \in Holding => query'[p].snap = query[p].snap
    PROVE  BorrowedIsOpen' /\ IdleIsLatest'
<1>1. \A s \in Snaps : {p \in Queries : query'[p].pc \in Holding /\ query'[p].snap = s}
                         = {p \in Queries : query[p].pc \in Holding /\ query[p].snap = s}
  OBVIOUS
<1>2. BorrowedIsOpen'
  BY <1>1 DEF ServeInv, BorrowedIsOpen
<1>3. IdleIsLatest'
  BY DEF ServeInv, IdleIsLatest
<1>q. QED
  BY <1>2, <1>3

\* The passes under way and the files stay as they are; time goes on.
LEMMA StoredKept ==
    ASSUME ServeInv, UNCHANGED <<traces, committed>>, clock' \in Nat, clock' >= clock,
           \A p \in Queries :
              /\ query[p].pc \in Retaining \/ query'[p].pc \in Retaining => query'[p] = query[p]
              /\ query[p].code = "internal_error" => query'[p].code = "internal_error"
    PROVE  Stored'
<1>. SUFFICES ASSUME NEW t \in Stores
              PROVE  /\ \A x \in committed[t] \ traces[t] : Outdated(t, x)'
                     /\ \A q \in Queries : PassOf(query'[q], t) =>
                           \A x \in query'[q].doomed : x \in committed[t] /\ Outdated(t, x)'
                     /\ \/ Cardinality(traces[t]) <= MaxRetained
                        \/ \E q \in Queries : query'[q].code = "internal_error"
                        \/ \E q \in Queries : /\ PassOf(query'[q], t)
                                              /\ Cardinality(traces[t] \ query'[q].doomed) <= MaxRetained
  BY DEF ServeInv, Stored
<1>1. \A x \in committed[t] : Outdated(t, x) => Outdated(t, x)'
  <2>. SUFFICES ASSUME NEW x \in committed[t], Outdated(t, x) PROVE Outdated(t, x)'
    OBVIOUS
  <2>1. Newer(t, x)' = Newer(t, x)
    BY DEF Newer
  <2>2. x.at \in Int /\ clock \in Nat
    BY DEF ServeInv, ServeTypeOK, TraceFiles
  <2>q. QED
    BY <2>1, <2>2 DEF Outdated
<1>2. \A q \in Queries : (PassOf(query[q], t) \/ PassOf(query'[q], t)) => query'[q] = query[q]
  BY DEF PassOf, Retaining
<1>q. QED
  BY <1>1, <1>2 DEF ServeInv, Stored

\* A question moves without touching runtimes or stores.
LEMMA QuietStep ==
    ASSUME ServeInv, NEW q \in Queries, NEW y \in QueryRecords, Q(q, y), AfterFailure,
           Placed(y), Told(q, y, committed),
           query[q].pc \in Holding <=> y.pc \in Holding,
           query[q].pc \in Holding => y.snap = query[q].snap,
           query[q].pc \notin {"write", "retain", "retain_turn", "failed"}, y.pc \notin Retaining
    PROVE  ServeInv'
<1>1. /\ query' \in [Queries -> QueryRecords] /\ query'[q] = y
      /\ \A p \in Queries : p # q => query'[p] = query[p]
  BY QueryWritten DEF ServeInv
<1>2. ServeTypeOK'
  BY <1>1 DEF ServeInv, ServeTypeOK, AfterFailure
<1>3. \A p \in Queries : Placed(query'[p]) /\ Told(p, query'[p], committed')
  BY <1>1 DEF ServeInv, AfterFailure
<1>4. BorrowedIsOpen' /\ IdleIsLatest'
  BY <1>1, RuntimeKept DEF AfterFailure
<1>5. query[q].code # "internal_error"
  BY DEF ServeInv, Placed
<1>6. clock' \in Nat /\ clock' >= clock
  BY DEF ServeInv, ServeTypeOK, AfterFailure
<1>7. Stored'
  BY <1>1, <1>5, <1>6, StoredKept DEF AfterFailure, Retaining
<1>q. QED
  BY <1>2, <1>3, <1>4, <1>7 DEF ServeInv

\* A question that fails before it borrows anything, or after it gave it back.
LEMMA FailedRecord ==
    ASSUME NEW q, NEW c \in Codes
    PROVE  /\ Fresh \in QueryRecords /\ Failed(q, c) \in QueryRecords
           /\ Failed(q, c).pc = "failed" /\ Failed(q, c).code = c
           /\ Placed(Failed(q, c)) /\ \A files : Told(q, Failed(q, c), files)
<1>1. Fresh \in QueryRecords
  BY DEF Fresh, QueryRecords, Steps, Kinds, Statuses, Codes
<1>2. /\ Failed(q, c) \in QueryRecords /\ Failed(q, c).pc = "failed" /\ Failed(q, c).code = c
      /\ Failed(q, c).status = "none" /\ Failed(q, c).doomed = {} /\ ~Failed(q, c).traced
  BY <1>1 DEF Failed, Fresh, QueryRecords, Steps
<1>3. Placed(Failed(q, c))
  BY <1>2 DEF Placed, Before, Holding, Retaining, Ending
<1>4. \A files : Told(q, Failed(q, c), files)
  BY <1>2 DEF Told, Ending
<1>q. QED
  BY <1>1, <1>2, <1>3, <1>4

LEMMA QuietFailure ==
    ASSUME ServeInv, NEW q \in Queries, NEW c \in Codes, Fail(q, c), AfterFailure,
           query[q].pc \notin Holding \cup Retaining \cup {"failed"}
    PROVE  ServeInv'
<1>1. /\ Failed(q, c) \in QueryRecords /\ Failed(q, c).pc = "failed"
      /\ Placed(Failed(q, c)) /\ Told(q, Failed(q, c), committed)
  BY FailedRecord
<1>q. QED
  BY <1>1, QuietStep DEF Fail, Holding, Retaining

-----------------------------------------------------------------------------
(* From the request to the runtime                                         *)

LEMMA BeginStep ==
    ASSUME ServeInv, NEW q \in Queries, At(q, "idle"), AfterFailure, NEW y \in QueryRecords,
           Q(q, y), y.pc = "read", y.status = "none", y.cited = {}, y.rows = {}, ~y.traced,
           y.doomed = {}, y.code = "none"
    PROVE  ServeInv'
<1>1. Placed(y) /\ Told(q, y, committed)
  BY DEF Placed, Told, Ending, Before, Holding, Retaining
<1>q. QED
  BY <1>1, QuietStep DEF At, Holding, Retaining

LEMMA FreshRecord ==
    /\ Fresh \in QueryRecords
    /\ Fresh.status = "none" /\ Fresh.cited = {} /\ Fresh.rows = {} /\ ~Fresh.traced
    /\ Fresh.doomed = {} /\ Fresh.code = "none"
BY DEF Fresh, QueryRecords, Steps, Kinds, Statuses, Codes

LEMMA BeginTurnStep ==
    ASSUME ServeInv, NEW q \in Queries, NEW roles \in Roles, BeginTurn(q, roles)
    PROVE  ServeInv'
<1>. DEFINE y == [Fresh EXCEPT !.pc = "read", !.kind = "conversation", !.turns = Len(roles)]
<1>. USE DEF BeginTurn, At
<1>1. CASE Fail(q, "request_invalid")
  BY <1>1, QuietFailure DEF Codes, Holding, Retaining
<1>2. CASE Q(q, y)
  <2>1. Len(roles) \in Nat
    BY DEF Roles
  <2>2. /\ y \in QueryRecords /\ y.pc = "read" /\ y.status = "none" /\ y.cited = {} /\ y.rows = {}
        /\ ~y.traced /\ y.doomed = {} /\ y.code = "none"
    BY <2>1, FreshRecord DEF QueryRecords, Steps, Kinds
  <2>. HIDE DEF y
  <2>q. QED
    BY <1>2, <2>2, BeginStep
<1>q. QED
  BY <1>1, <1>2

LEMMA BeginQueryStep ==
    ASSUME ServeInv, NEW q \in Queries, NEW kind \in {"product", "workspace"},
           NEW valid \in BOOLEAN, BeginQuery(q, kind, valid)
    PROVE  ServeInv'
<1>. DEFINE y == [Fresh EXCEPT !.pc = "read", !.kind = kind]
<1>. USE DEF BeginQuery, At
<1>1. CASE Fail(q, "request_invalid")
  BY <1>1, QuietFailure DEF Codes, Holding, Retaining
<1>2. CASE Q(q, y)
  <2>1. /\ y \in QueryRecords /\ y.pc = "read" /\ y.status = "none" /\ y.cited = {} /\ y.rows = {}
        /\ ~y.traced /\ y.doomed = {} /\ y.code = "none"
    BY FreshRecord DEF QueryRecords, Steps, Kinds
  <2>. HIDE DEF y
  <2>q. QED
    BY <1>2, <2>1, BeginStep
<1>q. QED
  BY <1>1, <1>2

LEMMA ResolveCurrentStep ==
    ASSUME ServeInv, NEW q \in Queries, ResolveCurrent(q)
    PROVE  ServeInv'
<1>. DEFINE y == [query[q] EXCEPT !.pc = "bind", !.snap = published, !.docs = Docs]
<1>. USE DEF ResolveCurrent, At
<1>1. CASE published = "none"
  BY <1>1, QuietFailure DEF Codes, Holding, Retaining
<1>2. CASE published # "none"
  <2>1. query[q] \in QueryRecords /\ published \in Snaps /\ Placed(query[q])
    BY <1>2 DEF ServeInv, ServeTypeOK
  <2>2. /\ y \in QueryRecords /\ y.pc = "bind" /\ y.snap \in Snaps /\ y.kind = "product"
        /\ y.status = query[q].status /\ y.cited = query[q].cited /\ y.rows = query[q].rows
        /\ y.traced = query[q].traced /\ y.doomed = query[q].doomed /\ y.code = query[q].code
    BY <2>1 DEF QueryRecords, Steps
  <2>. HIDE DEF y
  <2>3. Placed(y) /\ Told(q, y, committed)
    BY <2>1, <2>2 DEF Placed, Told, Ending, Before, Retaining, Holding
  <2>4. Q(q, y) /\ AfterFailure
    BY <1>2 DEF y
  <2>q. QED
    BY <2>2, <2>3, <2>4, QuietStep DEF Holding, Retaining
<1>q. QED
  BY <1>1, <1>2

LEMMA ReadWorkspaceStep ==
    ASSUME ServeInv, NEW q \in Queries, NEW chosen \in SUBSET SourceIds, ReadWorkspace(q, chosen)
    PROVE  ServeInv'
<1>. DEFINE rec == History[revision]
            ids == IF chosen = {} THEN ActiveSources(rec) ELSE chosen
            y == [query[q] EXCEPT !.pc = "scoped", !.rev = revision, !.snap = rec.snapshot,
                                  !.selected = ids, !.docs = {rec.sources[s] : s \in ids}]
<1>. USE DEF ReadWorkspace, At
<1>1. CASE Fail(q, "workspace_not_ready") \/ Fail(q, "source_unknown")
  BY <1>1, QuietFailure DEF Codes, Holding, Retaining
<1>2. CASE rec.status = "active" /\ ids \subseteq ActiveSources(rec) /\ Q(q, y)
  <2>1. query[q] \in QueryRecords /\ Placed(query[q]) /\ revision \in DOMAIN History
    BY DEF ServeInv, ServeTypeOK
  <2>2. rec.snapshot \in Snaps /\ revision \in Nat
    BY <1>2, <2>1, Named
  <2>3. ids \subseteq SourceIds /\ {rec.sources[s] : s \in ids} \subseteq Docs
    BY <1>2, <2>1, Named DEF ActiveSources
  <2>. HIDE DEF ids
  <2>4. /\ y \in QueryRecords /\ y.pc = "scoped" /\ y.rev = revision /\ y.snap = rec.snapshot
        /\ y.kind = query[q].kind
        /\ y.status = query[q].status /\ y.cited = query[q].cited /\ y.rows = query[q].rows
        /\ y.traced = query[q].traced /\ y.doomed = query[q].doomed /\ y.code = query[q].code
    BY <2>1, <2>2, <2>3 DEF QueryRecords, Steps
  <2>. HIDE DEF y
  <2>5. Placed(y) /\ Told(q, y, committed)
    BY <2>1, <2>2, <2>4 DEF Placed, Told, Ending, Before, Retaining, Holding
  <2>q. QED
    BY <1>2, <2>4, <2>5, QuietStep DEF Holding, Retaining
<1>q. QED
  BY <1>1, <1>2

\* A question in scope goes on with its binding.
LEMMA BoundStep ==
    ASSUME ServeInv, NEW q \in Queries, AfterFailure, NEW y \in QueryRecords, Q(q, y),
           query[q].pc \in {"scoped", "resolver"}, y.pc \in {"resolver", "bind"},
           y.pc = "resolver" => query[q].kind = "conversation",
           y.kind = query[q].kind, y.rev = query[q].rev, y.snap = query[q].snap,
           y.status = query[q].status, y.cited = query[q].cited, y.rows = query[q].rows,
           y.traced = query[q].traced, y.doomed = query[q].doomed, y.code = query[q].code
    PROVE  ServeInv'
<1>1. query[q] \in QueryRecords /\ Placed(query[q])
  BY DEF ServeInv, ServeTypeOK
<1>2. Placed(y) /\ Told(q, y, committed)
  BY <1>1 DEF Placed, Told, Ending, Before, Retaining, Holding
<1>q. QED
  BY <1>2, QuietStep DEF Holding, Retaining

LEMMA RecheckStep ==
    ASSUME ServeInv, NEW q \in Queries, Recheck(q)
    PROVE  ServeInv'
<1>. DEFINE y == [query[q] EXCEPT !.pc = "bind"]
<1>. USE DEF Recheck, At
<1>1. CASE Fail(q, "workspace_conflict")
  BY <1>1, QuietFailure DEF Codes, Holding, Retaining
<1>2. CASE Q(q, y)
  <2>1. query[q] \in QueryRecords
    BY DEF ServeInv, ServeTypeOK
  <2>2. /\ y \in QueryRecords /\ y.pc = "bind"
        /\ y.kind = query[q].kind /\ y.rev = query[q].rev /\ y.snap = query[q].snap
        /\ y.status = query[q].status /\ y.cited = query[q].cited /\ y.rows = query[q].rows
        /\ y.traced = query[q].traced /\ y.doomed = query[q].doomed /\ y.code = query[q].code
    BY <2>1 DEF QueryRecords, Steps
  <2>. HIDE DEF y
  <2>q. QED
    BY <1>2, <2>2, BoundStep
<1>q. QED
  BY <1>1, <1>2

LEMMA AdmitTurnStep ==
    ASSUME ServeInv, NEW q \in Queries, AdmitTurn(q)
    PROVE  ServeInv'
<1>. DEFINE y == [query[q] EXCEPT !.pc = "resolver", !.cat = clock]
<1>. USE DEF AdmitTurn, At
<1>1. query[q] \in QueryRecords /\ clock \in Nat
  BY DEF ServeInv, ServeTypeOK
<1>2. /\ y \in QueryRecords /\ y.pc = "resolver"
      /\ y.kind = query[q].kind /\ y.rev = query[q].rev /\ y.snap = query[q].snap
      /\ y.status = query[q].status /\ y.cited = query[q].cited /\ y.rows = query[q].rows
      /\ y.traced = query[q].traced /\ y.doomed = query[q].doomed /\ y.code = query[q].code
  BY <1>1 DEF QueryRecords, Steps
<1>3. Q(q, y) /\ AfterFailure
  OBVIOUS
<1>. HIDE DEF y
<1>q. QED
  BY <1>2, <1>3, BoundStep

\* A clarification ends without an answer; a resolved question is bound as it
\* was admitted.
LEMMA ResolveContextStep ==
    ASSUME ServeInv, NEW q \in Queries, NEW output, NEW referring, NEW fits,
           ResolveContext(q, output, referring, fits)
    PROVE  ServeInv'
<1>. DEFINE c == [query[q] EXCEPT !.pc = "write_turn", !.turns = 0, !.status = "clarification_required"]
            y == [query[q] EXCEPT !.pc = "bind", !.turns = 0]
<1>. USE DEF At
<1>1. query[q] \in QueryRecords /\ Placed(query[q]) /\ query[q].pc = "resolver" /\ AfterFailure
  BY DEF ServeInv, ServeTypeOK, ResolveContext
<1>2. \/ \E k \in {"generation_failed", "generation_unavailable", "request_invalid"} : Fail(q, k)
      \/ Q(q, c) \/ Q(q, y)
  BY DEF ResolveContext
<1>3. ASSUME NEW k \in {"generation_failed", "generation_unavailable", "request_invalid"}, Fail(q, k)
      PROVE  ServeInv'
  BY <1>1, <1>3, QuietFailure DEF Codes, Holding, Retaining
<1>4. CASE Q(q, y)
  <2>1. /\ y \in QueryRecords /\ y.pc = "bind"
        /\ y.kind = query[q].kind /\ y.rev = query[q].rev /\ y.snap = query[q].snap
        /\ y.status = query[q].status /\ y.cited = query[q].cited /\ y.rows = query[q].rows
        /\ y.traced = query[q].traced /\ y.doomed = query[q].doomed /\ y.code = query[q].code
    BY <1>1 DEF QueryRecords, Steps
  <2>. HIDE DEF y
  <2>q. QED
    BY <1>1, <1>4, <2>1, BoundStep
<1>5. CASE Q(q, c)
  <2>1. /\ c \in QueryRecords /\ c.pc = "write_turn" /\ c.status = "clarification_required"
        /\ c.kind = query[q].kind /\ c.rev = query[q].rev /\ c.snap = query[q].snap
        /\ c.cited = query[q].cited /\ c.rows = query[q].rows
        /\ c.traced = query[q].traced /\ c.doomed = query[q].doomed /\ c.code = query[q].code
    BY <1>1 DEF QueryRecords, Steps, Statuses
  <2>. HIDE DEF c
  <2>2. c.rows = {}
    BY <1>1, <2>1 DEF Placed, Before
  <2>3. RowsOf(c)
    BY <2>1, <2>2 DEF RowsOf
  <2>4. Placed(c) /\ Told(q, c, committed)
    BY <1>1, <2>1, <2>3 DEF Placed, Told, Ending, Before, Retaining, Holding, Success
  <2>q. QED
    BY <1>1, <1>5, <2>1, <2>4, QuietStep DEF Holding, Retaining
<1>q. QED
  BY <1>2, <1>3, <1>4, <1>5

-----------------------------------------------------------------------------
(* The runtime                                                             *)

Users(s) == {p \in Queries : query[p].pc \in Holding /\ query[p].snap = s}

LEMMA UsersFinite ==
    ASSUME NEW s
    PROVE  IsFiniteSet(Users(s)) /\ Cardinality(Users(s)) \in Nat
BY FS_Subset, FS_CardinalityType DEF Users

LEMMA AcquireStep ==
    ASSUME ServeInv, NEW q \in Queries, NEW builds \in BOOLEAN, Acquire(q, builds)
    PROVE  ServeInv'
<1>0. PICK s : s = query[q].snap
  OBVIOUS
<1>. DEFINE e == cache.entry[s]
            y == [query[q] EXCEPT !.pc = "held"]
            grown == [cache.entry EXCEPT ![s] = [state |-> "open", refs |-> e.refs + 1]]
<1>1. /\ query[q] \in QueryRecords /\ Placed(query[q]) /\ query[q].pc = "bind" /\ s \in Snaps
      /\ UNCHANGED <<revision, published, traces, committed, clock>>
  BY <1>0 DEF ServeInv, ServeTypeOK, Acquire, At, Placed
<1>2. CASE /\ UNCHANGED cache
           /\ \/ Fail(q, "request_cancelled") \/ Fail(q, "runtime_not_ready")
              \/ Fail(q, "snapshot_unavailable")
  BY <1>1, <1>2, QuietFailure DEF Codes, Holding, Retaining, AfterFailure
<1>3. CASE /\ ~cache.closed /\ Q(q, y)
           /\ cache' = _prune_idle_superseded([closed |-> FALSE, latest |-> s, entry |-> grown])
  <2>1. /\ y \in QueryRecords /\ y.pc = "held"
        /\ y.kind = query[q].kind /\ y.rev = query[q].rev /\ y.snap = query[q].snap
        /\ y.status = query[q].status /\ y.cited = query[q].cited /\ y.rows = query[q].rows
        /\ y.traced = query[q].traced /\ y.doomed = query[q].doomed /\ y.code = query[q].code
    BY <1>1 DEF QueryRecords, Steps
  <2>2. Q(q, y)
    BY <1>3
  <2>. HIDE DEF y
  <2>3. /\ query' \in [Queries -> QueryRecords] /\ query'[q] = y
        /\ \A p \in Queries : p # q => query'[p] = query[p]
    BY <2>1, <2>2, QueryWritten DEF ServeInv
  <2>4. \A p \in Queries : Placed(query'[p]) /\ Told(p, query'[p], committed')
    <3>1. Placed(y) /\ Told(q, y, committed)
      BY <1>1, <2>1 DEF Placed, Told, Ending, Before, Retaining, Holding
    <3>q. QED
      BY <1>1, <2>3, <3>1 DEF ServeInv
  <2>5. /\ grown \in [Snaps -> [state: {"none", "open", "closed"}, refs: Nat]]
        /\ grown[s].state = "open" /\ grown[s].refs = cache.entry[s].refs + 1
        /\ \A x \in Snaps : x # s => grown[x] = cache.entry[x]
        /\ \A x \in Snaps : cache.entry[x].refs \in Nat
    BY <1>1 DEF ServeInv, ServeTypeOK
  <2>. HIDE DEF grown
  <2>6. /\ ~cache'.closed /\ cache'.latest = s
        /\ cache'.entry \in [Snaps -> [state: {"none", "open", "closed"}, refs: Nat]]
        /\ cache' = [closed |-> FALSE, latest |-> s, entry |-> cache'.entry]
        /\ \A x \in Snaps : cache'.entry[x] = IF grown[x].refs = 0 /\ x # s THEN NoEntry ELSE grown[x]
    BY <1>3, <2>5 DEF _prune_idle_superseded, NoEntry
  <2>7. Users(s)' = Users(s) \cup {q} /\ q \notin Users(s)
    BY <1>0, <1>1, <2>1, <2>3 DEF Users, Holding
  <2>8. \A x \in Snaps : x # s => Users(x)' = Users(x)
    BY <1>0, <1>1, <2>1, <2>3 DEF Users, Holding
  <2>9. Cardinality(Users(s)') = Cardinality(Users(s)) + 1
    BY <2>7, UsersFinite, FS_AddElement
  <2>10. \A x \in Snaps : /\ cache.entry[x].refs = Cardinality(Users(x))
                          /\ Users(x) # {} => cache.entry[x].state = "open"
    BY <1>3 DEF ServeInv, BorrowedIsOpen, Users
  <2>11. \A x \in Snaps : Users(x) # {} => Cardinality(Users(x)) # 0
    BY UsersFinite, FS_EmptySet
  <2>12. BorrowedIsOpen'
    <3>. SUFFICES ASSUME NEW x \in Snaps
                  PROVE  /\ cache'.entry[x].refs = Cardinality(Users(x)')
                         /\ Users(x)' # {} => cache'.entry[x].state = "open"
      BY DEF BorrowedIsOpen, Users
    <3>1. CASE x = s
      <4>1. cache'.entry[s] = grown[s]
        BY <1>1, <2>6
      <4>q. QED
        BY <1>1, <2>5, <2>9, <2>10, <3>1, <4>1
    <3>2. CASE x # s
      BY <2>5, <2>6, <2>8, <2>10, <2>11, <3>2 DEF NoEntry
    <3>q. QED
      BY <3>1, <3>2
  <2>13. IdleIsLatest'
    BY <2>5, <2>6 DEF IdleIsLatest, NoEntry
  <2>14. ServeTypeOK'
    <3>1. cache' \in [closed: BOOLEAN, latest: Snaps \cup {"none"},
                       entry: [Snaps -> [state: {"none", "open", "closed"}, refs: Nat]]]
      <4>. DEFINE ent == cache'.entry
      <4>1. cache' = [closed |-> FALSE, latest |-> s, entry |-> ent]
        BY <2>6
      <4>2. ent \in [Snaps -> [state: {"none", "open", "closed"}, refs: Nat]]
        BY <2>6
      <4>. HIDE DEF ent
      <4>q. QED
        BY <1>1, <4>1, <4>2
    <3>q. QED
      BY <1>1, <2>3, <3>1 DEF ServeInv, ServeTypeOK
  <2>15. Stored'
    <3>1. clock' \in Nat /\ clock' >= clock
      BY <1>1 DEF ServeInv, ServeTypeOK
    <3>q. QED
      BY <1>1, <2>1, <2>3, <3>1, StoredKept DEF Retaining
  <2>q. QED
    BY <2>4, <2>12, <2>13, <2>14, <2>15 DEF ServeInv
<1>q. QED
  BY <1>0, <1>2, <1>3 DEF Acquire

\* A question gives its runtime back.
LEMMA RuntimeReleased ==
    ASSUME ServeInv, NEW q \in Queries, query[q].pc \in Holding,
           cache' = Released(cache, query[q].snap), query'[q].pc \notin Holding,
           \A p \in Queries : p # q => query'[p] = query[p]
    PROVE  /\ cache' \in [closed: BOOLEAN, latest: Snaps \cup {"none"},
                          entry: [Snaps -> [state: {"none", "open", "closed"}, refs: Nat]]]
           /\ BorrowedIsOpen' /\ IdleIsLatest'
<1>0. PICK s : s = query[q].snap
  OBVIOUS
<1>. DEFINE e == cache.entry[s]
            less == [cache.entry EXCEPT ![s] =
                        [state |-> e.state, refs |-> IF e.refs > 0 THEN e.refs - 1 ELSE 0]]
<1>1. /\ s \in Snaps
      /\ cache \in [closed: BOOLEAN, latest: Snaps \cup {"none"},
                    entry: [Snaps -> [state: {"none", "open", "closed"}, refs: Nat]]]
  BY <1>0 DEF ServeInv, ServeTypeOK, Placed
<1>2. \A x \in Snaps : cache.entry[x].refs = Cardinality(Users(x)) /\ Cardinality(Users(x)) \in Nat
  BY UsersFinite DEF ServeInv, BorrowedIsOpen, Users
<1>3. \A x \in Snaps : Users(x) # {} /\ ~cache.closed => cache.entry[x].state = "open"
  BY DEF ServeInv, BorrowedIsOpen, Users
<1>4. q \in Users(s) /\ Users(s)' = Users(s) \ {q}
  BY <1>0 DEF Users
<1>5. \A x \in Snaps : x # s => Users(x)' = Users(x)
  BY <1>0 DEF Users
<1>6. e.refs > 0 /\ Cardinality(Users(s)') = e.refs - 1
  <2>1. IsFiniteSet(Users(s)) /\ Cardinality(Users(s)) \in Nat /\ e.refs = Cardinality(Users(s))
    BY <1>1, <1>2, UsersFinite
  <2>2. Cardinality(Users(s) \ {q}) = Cardinality(Users(s)) - 1
    BY <1>4, <2>1, FS_RemoveElement
  <2>3. Cardinality(Users(s)) # 0
    BY <1>4, <2>1, FS_EmptySet
  <2>q. QED
    BY <1>4, <2>1, <2>2, <2>3
<1>7. /\ less \in [Snaps -> [state: {"none", "open", "closed"}, refs: Nat]]
      /\ less[s].state = e.state /\ less[s].refs = Cardinality(Users(s)')
      /\ \A x \in Snaps : x # s => less[x] = cache.entry[x]
  BY <1>1, <1>2, <1>6
<1>8. \/ cache.closed /\ cache' = [closed |-> cache.closed, latest |-> cache.latest, entry |-> less]
      \/ /\ ~cache.closed
         /\ cache' = _prune_idle_superseded([closed |-> cache.closed, latest |-> cache.latest, entry |-> less])
  BY <1>0 DEF Released
<1>. HIDE DEF less
<1>9. \A x \in Snaps : /\ less[x].refs = Cardinality(Users(x)')
                       /\ Users(x)' # {} /\ ~cache.closed => less[x].state = "open"
                       /\ Users(x)' # {} => less[x].refs # 0
  <2>1. \A x \in Snaps : /\ less[x].refs = Cardinality(Users(x)')
                         /\ Users(x)' # {} /\ ~cache.closed => less[x].state = "open"
    <3>. SUFFICES ASSUME NEW x \in Snaps
                  PROVE  /\ less[x].refs = Cardinality(Users(x)')
                         /\ Users(x)' # {} /\ ~cache.closed => less[x].state = "open"
      OBVIOUS
    <3>1. CASE x = s
      BY <1>1, <1>3, <1>4, <1>7, <3>1
    <3>2. CASE x # s
      BY <1>2, <1>3, <1>5, <1>7, <3>2
    <3>q. QED
      BY <3>1, <3>2
  <2>2. \A x \in Snaps : IsFiniteSet(Users(x)')
    BY FS_Subset DEF Users
  <2>q. QED
    BY <2>1, <2>2, FS_EmptySet
<1>10. /\ cache'.closed = cache.closed /\ cache'.latest = cache.latest
       /\ cache'.entry \in [Snaps -> [state: {"none", "open", "closed"}, refs: Nat]]
       /\ cache' = [closed |-> cache.closed, latest |-> cache.latest, entry |-> cache'.entry]
       /\ \A x \in Snaps :
             \/ cache.closed /\ cache'.entry[x] = less[x]
             \/ /\ ~cache.closed
                /\ cache'.entry[x] = IF less[x].refs = 0 /\ x # cache.latest THEN NoEntry ELSE less[x]
  BY <1>1, <1>7, <1>8 DEF _prune_idle_superseded, NoEntry
<1>11. BorrowedIsOpen'
  <2>. SUFFICES ASSUME NEW x \in Snaps
                PROVE  /\ cache'.entry[x].refs = Cardinality(Users(x)')
                       /\ Users(x)' # {} /\ ~cache.closed => cache'.entry[x].state = "open"
    BY <1>10 DEF BorrowedIsOpen, Users
  <2>q. QED
    BY <1>9, <1>10 DEF NoEntry
<1>12. IdleIsLatest'
  BY <1>9, <1>10 DEF IdleIsLatest, NoEntry
<1>q. QED
  BY <1>1, <1>10, <1>11, <1>12

\* A question fails while it has a runtime and is in no retention pass.
LEMMA ReleaseStep ==
    ASSUME ServeInv, NEW q \in Queries, query[q].pc \in {"held", "write"}, NEW c \in Codes,
           Fail(q, c), query[q].code = "internal_error" => c = "internal_error",
           cache' = Released(cache, query[q].snap),
           UNCHANGED <<revision, published, traces, committed, clock>>
    PROVE  ServeInv'
<1>1. /\ Failed(q, c) \in QueryRecords /\ Failed(q, c).pc = "failed" /\ Failed(q, c).code = c
      /\ Placed(Failed(q, c)) /\ Told(q, Failed(q, c), committed)
  BY FailedRecord
<1>2. /\ query' \in [Queries -> QueryRecords] /\ query'[q] = Failed(q, c)
      /\ \A p \in Queries : p # q => query'[p] = query[p]
  BY <1>1, QueryWritten DEF ServeInv, Fail
<1>3. /\ cache' \in [closed: BOOLEAN, latest: Snaps \cup {"none"},
                     entry: [Snaps -> [state: {"none", "open", "closed"}, refs: Nat]]]
      /\ BorrowedIsOpen' /\ IdleIsLatest'
  BY <1>1, <1>2, RuntimeReleased DEF Holding
<1>4. ServeTypeOK'
  BY <1>2, <1>3 DEF ServeInv, ServeTypeOK
<1>5. \A p \in Queries : Placed(query'[p]) /\ Told(p, query'[p], committed')
  BY <1>1, <1>2 DEF ServeInv
<1>6. clock' \in Nat /\ clock' >= clock
  BY DEF ServeInv, ServeTypeOK
<1>7. Stored'
  BY <1>1, <1>2, <1>6, StoredKept DEF Retaining
<1>q. QED
  BY <1>3, <1>4, <1>5, <1>7 DEF ServeInv

LEMMA StartTraceStep ==
    ASSUME ServeInv, NEW q \in Queries, NEW cancelled \in BOOLEAN, StartTrace(q, cancelled)
    PROVE  ServeInv'
<1>. DEFINE y == [query[q] EXCEPT !.pc = "execute", !.at = clock]
<1>. USE DEF StartTrace, At
<1>1. query[q] \in QueryRecords /\ Placed(query[q]) /\ query[q].pc = "held" /\ clock \in Nat
  BY DEF ServeInv, ServeTypeOK
<1>2. CASE cancelled
  BY <1>1, <1>2, ReleaseStep DEF Codes, Placed
<1>3. CASE ~cancelled
  <2>1. /\ y \in QueryRecords /\ y.pc = "execute"
        /\ y.kind = query[q].kind /\ y.rev = query[q].rev /\ y.snap = query[q].snap
        /\ y.status = query[q].status /\ y.cited = query[q].cited /\ y.rows = query[q].rows
        /\ y.traced = query[q].traced /\ y.doomed = query[q].doomed /\ y.code = query[q].code
    BY <1>1 DEF QueryRecords, Steps
  <2>2. Q(q, y) /\ AfterFailure
    BY <1>3 DEF AfterFailure
  <2>. HIDE DEF y
  <2>3. Placed(y) /\ Told(q, y, committed)
    BY <1>1, <2>1 DEF Placed, Told, Ending, Before, Retaining, Holding
  <2>q. QED
    BY <1>1, <2>1, <2>2, <2>3, QuietStep DEF Holding, Retaining
<1>q. QED
  BY <1>2, <1>3

LEMMA ExecuteStep ==
    ASSUME ServeInv, NEW q \in Queries, NEW status \in Success \cup {"none"}, NEW code \in Codes,
           NEW cited \in SUBSET Docs, Execute(q, status, code, cited)
    PROVE  ServeInv'
<1>. DEFINE y == [query[q] EXCEPT !.pc = "write", !.status = status, !.code = code, !.cited = cited]
<1>1. query[q] \in QueryRecords /\ Placed(query[q]) /\ query[q].pc = "execute"
  BY DEF ServeInv, ServeTypeOK, Execute, At
<1>2. /\ y \in QueryRecords /\ y.pc = "write" /\ y.status \in Success \cup {"none"}
      /\ y.kind = query[q].kind /\ y.rev = query[q].rev /\ y.snap = query[q].snap
      /\ y.rows = query[q].rows
      /\ y.traced = query[q].traced /\ y.doomed = query[q].doomed
  BY <1>1 DEF QueryRecords, Steps, Statuses
<1>3. Q(q, y) /\ AfterFailure
  BY DEF Execute
<1>. HIDE DEF y
<1>4. Placed(y) /\ Told(q, y, committed)
  BY <1>1, <1>2 DEF Placed, Told, Ending, Before, Retaining, Holding, Success
<1>q. QED
  BY <1>1, <1>2, <1>3, <1>4, QuietStep DEF Holding, Retaining

\* Every cited document is held by exactly one of the selected sources.
LEMMA EnrichStep ==
    ASSUME ServeInv, NEW q \in Queries, Enrich(q)
    PROVE  ServeInv'
<1>. DEFINE x == query[q]
            all == {<<d, s>> : d \in x.cited, s \in UNION {SourcesOf(q, d2) : d2 \in x.cited}}
            rows == {r \in all : r[2] \in SourcesOf(q, r[1])}
            mapped == \A d \in x.cited : Cardinality(SourcesOf(q, d)) = 1
            y == [x EXCEPT !.rows = rows, !.pc = IF x.kind = "workspace" THEN "answered" ELSE "write_turn"]
<1>1. x \in QueryRecords /\ Placed(x) /\ x.pc = "enrich" /\ Told(q, x, committed) /\ AfterFailure
  BY DEF ServeInv, ServeTypeOK, Enrich, At
<1>2. CASE ~mapped
  BY <1>1, <1>2, QuietFailure DEF Enrich, Codes, Holding, Retaining
<1>3. CASE mapped
  <2>1. x.cited \subseteq Docs /\ x.selected \subseteq SourceIds
    BY <1>1 DEF QueryRecords
  <2>2. \A d \in x.cited : \E s \in SourceIds : SourcesOf(q, d) = {s}
    <3>. SUFFICES ASSUME NEW d \in x.cited PROVE \E s \in SourceIds : SourcesOf(q, d) = {s}
      OBVIOUS
    <3>1. SourcesOf(q, d) \subseteq SourceIds
      BY <2>1 DEF SourcesOf
    <3>2. IsFiniteSet(SourcesOf(q, d))
      BY <3>1, FS_Subset DEF SourceIds
    <3>3. \E s : SourcesOf(q, d) = {s}
      BY <1>3, <3>2, FS_Singleton
    <3>q. QED
      BY <3>1, <3>3
  <2>3. \A r \in rows : r = <<r[1], r[2]>> /\ r[1] \in x.cited /\ r[2] \in SourcesOf(q, r[1])
    OBVIOUS
  <2>4. \A r \in rows : SourcesOf(q, r[1]) = {r[2]} /\ r[2] \in SourceIds
    BY <2>2, <2>3
  <2>5. rows \in SUBSET (Docs \X SourceIds)
    BY <2>1, <2>3, <2>4
  <2>6. \A d \in x.cited : \E r \in rows : r[1] = d
    <3>. SUFFICES ASSUME NEW d \in x.cited PROVE \E r \in rows : r[1] = d
      OBVIOUS
    <3>1. PICK s : SourcesOf(q, d) = {s}
      BY <2>2
    <3>2. s \in UNION {SourcesOf(q, d2) : d2 \in x.cited}
      BY <3>1
    <3>3. <<d, s>> \in rows
      BY <3>1, <3>2
    <3>q. QED
      BY <3>3
  <2>7. Q(q, y)
    BY <1>3 DEF Enrich
  <2>. HIDE DEF rows
  <2>8. /\ y \in QueryRecords /\ y.rows = rows
        /\ y.pc = IF x.kind = "workspace" THEN "answered" ELSE "write_turn"
        /\ y.kind = x.kind /\ y.rev = x.rev /\ y.snap = x.snap /\ y.selected = x.selected
        /\ y.status = x.status /\ y.cited = x.cited /\ y.at = x.at
        /\ y.traced = x.traced /\ y.doomed = x.doomed /\ y.code = x.code
    BY <1>1, <2>5 DEF QueryRecords, Steps
  <2>. HIDE DEF y
  <2>9. RowsOf(y)
    <3>1. \A r \in y.rows : {s \in y.selected : History[y.rev].sources[s] = r[1]} = {r[2]}
      BY <2>4, <2>8 DEF SourcesOf
    <3>2. {r[1] : r \in y.rows} = y.cited
      BY <2>3, <2>6, <2>8
    <3>q. QED
      BY <3>1, <3>2 DEF RowsOf
  <2>10. x.kind \in Kinds
    BY <1>1 DEF QueryRecords
  <2>11. Placed(y)
    BY <1>1, <2>8, <2>9, <2>10 DEF Placed, Ending, Before, Retaining, Holding, Kinds
  <2>12. Told(q, y, committed)
    BY <1>1, <2>8, <2>10 DEF Told, Ending, QueryTrace, Kinds, Placed
  <2>q. QED
    BY <1>1, <2>7, <2>8, <2>11, <2>12, QuietStep DEF Holding, Retaining
<1>q. QED
  BY <1>2, <1>3

-----------------------------------------------------------------------------
(* The traces                                                              *)

\* A trace that was outdated stays so when more are written.
LEMMA OutdatedStays ==
    ASSUME ServeInv, NEW t \in Stores, NEW x \in committed[t], Outdated(t, x), clock' = clock,
           committed[t] \subseteq committed'[t], IsFiniteSet(committed'[t])
    PROVE  Outdated(t, x)'
<1>1. Newer(t, x) \subseteq Newer(t, x)' /\ IsFiniteSet(Newer(t, x)')
  BY FS_Subset DEF Newer
<1>2. /\ Cardinality(Newer(t, x)) <= Cardinality(Newer(t, x)')
      /\ Cardinality(Newer(t, x)) \in Nat /\ Cardinality(Newer(t, x)') \in Nat
  BY <1>1, FS_Subset, FS_CardinalityType
<1>q. QED
  BY <1>2 DEF Outdated

\* A trace is written and the directory listed: what the pass will drop is
\* outdated, and what it leaves is within the bound.
LEMMA Listed ==
    ASSUME ServeInv, NEW q \in Queries, query[q].pc \in {"write", "write_turn"},
           NEW f \in TraceFiles, WriteThenList(q, f), UNCHANGED clock
    PROVE  /\ traces' \in [Stores -> SUBSET TraceFiles] /\ committed' \in [Stores -> SUBSET TraceFiles]
           /\ \A t \in Stores : traces'[t] \subseteq committed'[t] /\ committed[t] \subseteq committed'[t]
           /\ f \in committed'[StoreOf(q)]
           /\ \E d \in SUBSET TraceFiles :
                Q(q, [query[q] EXCEPT !.doomed = d,
                                      !.pc = IF query[q].pc = "write" THEN "retain" ELSE "retain_turn"])
           /\ Stored'
<1>0. PICK t : t = StoreOf(q)
  OBVIOUS
<1>. DEFINE files == traces[t] \cup {f}
            live == {x \in files : clock - x.at <= MaxAge}
<1>1. /\ t \in Stores /\ t = IF query[q].pc = "write" THEN "query" ELSE "conversation"
  BY <1>0 DEF StoreOf, At, Stores
<1>2. PICK d \in BeyondNewest(live) :
            Q(q, [query[q] EXCEPT !.doomed = d \cup (files \ live),
                                  !.pc = IF StoreOf(q) = "query" THEN "retain" ELSE "retain_turn"])
  BY <1>0 DEF WriteThenList
<1>3. /\ traces' \in [Stores -> SUBSET TraceFiles] /\ committed' \in [Stores -> SUBSET TraceFiles]
      /\ traces'[t] = files /\ committed'[t] = committed[t] \cup {f}
      /\ \A x \in Stores : x # t => traces'[x] = traces[x] /\ committed'[x] = committed[x]
      /\ \A x \in Stores : traces[x] \subseteq committed[x]
  BY <1>0, <1>1 DEF WriteThenList, ServeInv, ServeTypeOK
<1>4. /\ d \subseteq live /\ live \subseteq files /\ files \subseteq committed'[t]
      /\ Cardinality(live \ d) <= MaxRetained
      /\ d # {} => Cardinality(live \ d) = MaxRetained
      /\ \A x \in d, y \in live \ d : x.at <= y.at
  BY <1>1, <1>2, <1>3 DEF BeyondNewest
<1>. DEFINE doomed == d \cup (files \ live)
            y == [query[q] EXCEPT !.doomed = doomed,
                                  !.pc = IF query[q].pc = "write" THEN "retain" ELSE "retain_turn"]
<1>5. doomed \in SUBSET TraceFiles /\ Q(q, y)
  BY <1>0, <1>1, <1>2, <1>3, <1>4 DEF ServeInv, ServeTypeOK
<1>6. query[q] \in QueryRecords
  BY DEF ServeInv, ServeTypeOK
<1>. HIDE DEF doomed
<1>7. /\ y \in QueryRecords /\ y.doomed = doomed /\ y.code = query[q].code
      /\ y.pc = IF query[q].pc = "write" THEN "retain" ELSE "retain_turn"
  BY <1>5, <1>6 DEF QueryRecords, Steps
<1>. HIDE DEF y
<1>8. query'[q] = y /\ \A p \in Queries : p # q => query'[p] = query[p]
  BY <1>5, <1>7, QueryWritten DEF ServeInv
<1>9. \A x \in Stores : IsFiniteSet(committed'[x])
  <2>1. \A x \in Stores : IsFiniteSet(committed[x])
    BY DEF ServeInv, Stored
  <2>2. IsFiniteSet(committed[t] \cup {f})
    BY <1>1, <2>1, FS_AddElement
  <2>q. QED
    BY <1>3, <2>1, <2>2
<1>10. \A x \in Stores : \A z \in committed[x] : Outdated(x, z) => Outdated(x, z)'
  BY <1>3, <1>9, OutdatedStays
<1>11. ASSUME NEW z \in doomed PROVE z \in committed'[t] /\ Outdated(t, z)'
  <2>1. z \in files /\ files \subseteq TraceFiles /\ clock \in Nat
    BY <1>1, <1>4, <1>11 DEF doomed, ServeInv, ServeTypeOK
  <2>2. CASE z \notin live
    <3>1. z.at \in Int
      BY <2>1 DEF TraceFiles
    <3>q. QED
      BY <1>4, <2>1, <2>2, <3>1 DEF Outdated
  <2>3. CASE z \in live
    <3>1. z \in d
      BY <1>11, <2>3 DEF doomed
    <3>2. live \ d \subseteq Newer(t, z)'
      <4>. SUFFICES ASSUME NEW w \in live \ d PROVE w \in Newer(t, z)'
        OBVIOUS
      <4>1. z.at <= w.at /\ w # z /\ w \in committed'[t]
        BY <1>4, <3>1
      <4>2. z.at \in Int /\ w.at \in Int
        BY <1>4, <2>1 DEF TraceFiles
      <4>q. QED
        BY <4>1, <4>2 DEF Newer
    <3>3. IsFiniteSet(Newer(t, z)')
      BY <1>1, <1>9, FS_Subset DEF Newer
    <3>4. Cardinality(live \ d) = MaxRetained
      BY <1>4, <3>1
    <3>5. Cardinality(Newer(t, z)') >= MaxRetained
      BY <3>2, <3>3, <3>4, FS_Subset, FS_CardinalityType
    <3>q. QED
      BY <1>4, <2>1, <3>5 DEF Outdated
  <2>q. QED
    BY <2>2, <2>3
<1>12. files \ doomed = live \ d
  BY <1>4 DEF doomed
<1>13. Stored'
  <2>. SUFFICES ASSUME NEW x \in Stores
                PROVE  /\ \A z \in committed'[x] \ traces'[x] : Outdated(x, z)'
                       /\ \A p \in Queries : PassOf(query'[p], x) =>
                             \A z \in query'[p].doomed : z \in committed'[x] /\ Outdated(x, z)'
                       /\ \/ Cardinality(traces'[x]) <= MaxRetained
                          \/ \E p \in Queries : query'[p].code = "internal_error"
                          \/ \E p \in Queries : /\ PassOf(query'[p], x)
                                                /\ Cardinality(traces'[x] \ query'[p].doomed) <= MaxRetained
    BY <1>9 DEF Stored
  <2>1. committed[x] \subseteq committed'[x]
    BY <1>3
  <2>2. \A z \in committed'[x] \ traces'[x] : Outdated(x, z)'
    <3>1. committed'[x] \ traces'[x] \subseteq committed[x] \ traces[x]
      BY <1>3
    <3>q. QED
      BY <1>10, <3>1 DEF ServeInv, Stored
  <2>3. ASSUME NEW p \in Queries, PassOf(query'[p], x), NEW z \in query'[p].doomed
        PROVE  z \in committed'[x] /\ Outdated(x, z)'
    <3>1. CASE p = q
      <4>1. x = t
        BY <1>1, <1>7, <1>8, <2>3, <3>1 DEF PassOf, Stores
      <4>q. QED
        BY <1>7, <1>8, <1>11, <2>3, <3>1, <4>1
    <3>2. CASE p # q
      BY <1>8, <1>10, <2>1, <2>3, <3>2 DEF ServeInv, Stored
    <3>q. QED
      BY <3>1, <3>2
  <2>4. \/ Cardinality(traces'[x]) <= MaxRetained
        \/ \E p \in Queries : query'[p].code = "internal_error"
        \/ \E p \in Queries : /\ PassOf(query'[p], x)
                              /\ Cardinality(traces'[x] \ query'[p].doomed) <= MaxRetained
    <3>1. CASE x = t
      <4>1. PassOf(query'[q], t) /\ traces'[t] \ query'[q].doomed = live \ d
        BY <1>1, <1>3, <1>7, <1>8, <1>12 DEF PassOf
      <4>q. QED
        BY <1>4, <3>1, <4>1
    <3>2. CASE x # t
      <4>1. traces'[x] = traces[x]
        BY <1>3, <3>2
      <4>2. ~PassOf(query[q], x)
        BY DEF PassOf
      <4>3. \A p \in Queries : query'[p].code = query[p].code
        BY <1>7, <1>8
      <4>q. QED
        BY <1>8, <4>1, <4>2, <4>3 DEF ServeInv, Stored
    <3>q. QED
      BY <3>1, <3>2
  <2>q. QED
    BY <2>2, <2>3, <2>4
<1>q. QED
  BY <1>0, <1>1, <1>3, <1>4, <1>5, <1>13 DEF y

\* A pass unlinks what it listed and ends.
LEMMA Unlinked ==
    ASSUME ServeInv, NEW q \in Queries, NEW t \in Stores, PassOf(query[q], t),
           UNCHANGED <<committed, clock>>,
           traces' = [traces EXCEPT ![t] = traces[t] \ query[q].doomed],
           query'[q].pc \notin Retaining,
           query[q].code = "internal_error" => query'[q].code = "internal_error",
           \A p \in Queries : p # q => query'[p] = query[p]
    PROVE  /\ traces' \in [Stores -> SUBSET TraceFiles]
           /\ \A x \in Stores : traces'[x] \subseteq committed'[x]
           /\ Stored'
<1>1. /\ traces' \in [Stores -> SUBSET TraceFiles] /\ traces'[t] = traces[t] \ query[q].doomed
      /\ \A x \in Stores : x # t => traces'[x] = traces[x]
      /\ \A x \in Stores : traces[x] \subseteq committed[x]
  BY DEF ServeInv, ServeTypeOK
<1>2. \A x, z : Outdated(x, z)' = Outdated(x, z)
  BY DEF Outdated, Newer
<1>3. Stored'
  <2>. SUFFICES ASSUME NEW x \in Stores
                PROVE  /\ \A z \in committed[x] \ traces'[x] : Outdated(x, z)
                       /\ \A p \in Queries : PassOf(query'[p], x) =>
                             \A z \in query'[p].doomed : z \in committed[x] /\ Outdated(x, z)
                       /\ \/ Cardinality(traces'[x]) <= MaxRetained
                          \/ \E p \in Queries : query'[p].code = "internal_error"
                          \/ \E p \in Queries : /\ PassOf(query'[p], x)
                                                /\ Cardinality(traces'[x] \ query'[p].doomed) <= MaxRetained
    BY <1>2 DEF ServeInv, Stored
  <2>1. \A z \in committed[x] \ traces'[x] : Outdated(x, z)
    <3>1. \A z \in query[q].doomed : Outdated(t, z)
      BY DEF ServeInv, Stored
    <3>q. QED
      BY <1>1, <3>1 DEF ServeInv, Stored
  <2>2. \A p \in Queries : PassOf(query'[p], x) => p # q /\ query'[p] = query[p]
    BY DEF PassOf, Retaining
  <2>3. /\ IsFiniteSet(traces[x]) /\ IsFiniteSet(traces'[x])
        /\ traces'[x] \subseteq traces[x]
    BY <1>1, FS_Subset DEF ServeInv, Stored
  <2>4. /\ Cardinality(traces'[x]) <= Cardinality(traces[x])
        /\ Cardinality(traces[x]) \in Nat /\ Cardinality(traces'[x]) \in Nat
    BY <2>3, FS_Subset, FS_CardinalityType
  <2>5. \A p \in Queries :
           Cardinality(traces[x] \ query[p].doomed) <= MaxRetained
             => Cardinality(traces'[x] \ query[p].doomed) <= MaxRetained
    <3>. TAKE p \in Queries
    <3>0. PICK old, new : old = traces[x] \ query[p].doomed /\ new = traces'[x] \ query[p].doomed
      OBVIOUS
    <3>1. new \subseteq old /\ IsFiniteSet(old) /\ IsFiniteSet(new)
      BY <2>3, <3>0, FS_Subset
    <3>2. Cardinality(new) <= Cardinality(old) /\ Cardinality(new) \in Nat /\ Cardinality(old) \in Nat
      BY <3>1, FS_Subset, FS_CardinalityType
    <3>3. MaxRetained \in Nat
      OBVIOUS
    <3>4. Cardinality(old) <= MaxRetained => Cardinality(new) <= MaxRetained
      BY <3>2, <3>3
    <3>q. QED
      BY <3>0, <3>4
  <2>6. \/ Cardinality(traces'[x]) <= MaxRetained
        \/ \E p \in Queries : query'[p].code = "internal_error"
        \/ \E p \in Queries : /\ PassOf(query'[p], x)
                              /\ Cardinality(traces'[x] \ query'[p].doomed) <= MaxRetained
    <3>1. CASE Cardinality(traces[x]) <= MaxRetained
      BY <2>4, <3>1
    <3>2. CASE \E p \in Queries : query[p].code = "internal_error"
      BY <3>2
    <3>3. ASSUME NEW p \in Queries, PassOf(query[p], x),
                 Cardinality(traces[x] \ query[p].doomed) <= MaxRetained
          PROVE  \/ Cardinality(traces'[x]) <= MaxRetained
                 \/ \E w \in Queries : /\ PassOf(query'[w], x)
                                       /\ Cardinality(traces'[x] \ query'[w].doomed) <= MaxRetained
      <4>1. CASE p = q
        <5>1. x = t
          BY <3>3, <4>1 DEF PassOf, Stores
        <5>q. QED
          BY <1>1, <3>3, <4>1, <5>1
      <4>2. CASE p # q
        BY <2>5, <3>3, <4>2
      <4>q. QED
        BY <4>1, <4>2
    <3>q. QED
      BY <3>1, <3>2, <3>3 DEF ServeInv, Stored
  <2>7. \A p \in Queries : PassOf(query'[p], x) =>
           \A z \in query'[p].doomed : z \in committed[x] /\ Outdated(x, z)
    BY <2>2 DEF ServeInv, Stored
  <2>q. QED
    BY <2>1, <2>6, <2>7
<1>q. QED
  BY <1>1, <1>3

\* A question writes its trace and lists the store.
LEMMA TraceWritten ==
    ASSUME ServeInv, NEW q \in Queries, query[q].pc \in {"write", "write_turn"},
           NEW f \in TraceFiles, WriteThenList(q, f), UNCHANGED <<revision, published, cache, clock>>,
           f = IF query[q].pc = "write" THEN QueryTrace(q, query[q]) ELSE TurnFile(q, query[q])
    PROVE  ServeInv'
<1>1. PICK x : x = query[q]
  OBVIOUS
<1>2. /\ traces' \in [Stores -> SUBSET TraceFiles] /\ committed' \in [Stores -> SUBSET TraceFiles]
      /\ \A t \in Stores : traces'[t] \subseteq committed'[t] /\ committed[t] \subseteq committed'[t]
      /\ f \in committed'[StoreOf(q)] /\ Stored'
  BY Listed
<1>3. PICK d \in SUBSET TraceFiles :
          Q(q, [query[q] EXCEPT !.doomed = d,
                                !.pc = IF query[q].pc = "write" THEN "retain" ELSE "retain_turn"])
  BY Listed
<1>4. x \in QueryRecords /\ Placed(x) /\ Told(q, x, committed)
  BY <1>1 DEF ServeInv, ServeTypeOK
<1>. DEFINE y == [x EXCEPT !.doomed = d, !.pc = IF x.pc = "write" THEN "retain" ELSE "retain_turn"]
<1>5. /\ y \in QueryRecords /\ y.pc = IF x.pc = "write" THEN "retain" ELSE "retain_turn"
      /\ y.kind = x.kind /\ y.rev = x.rev /\ y.snap = x.snap /\ y.selected = x.selected
      /\ y.status = x.status /\ y.cited = x.cited /\ y.rows = x.rows /\ y.at = x.at /\ y.cat = x.cat
      /\ y.traced = x.traced /\ y.code = x.code
  BY <1>3, <1>4 DEF QueryRecords, Steps
<1>6. Q(q, y)
  BY <1>1, <1>3
<1>. HIDE DEF y
<1>7. /\ query' \in [Queries -> QueryRecords] /\ query'[q] = y
      /\ \A p \in Queries : p # q => query'[p] = query[p]
  BY <1>5, <1>6, QueryWritten DEF ServeInv
<1>8. Placed(y)
  <2>1. RowsOf(x) => RowsOf(y)
    BY <1>5 DEF RowsOf
  <2>q. QED
    BY <1>1, <1>4, <1>5, <2>1 DEF Placed, Ending, Before, Retaining, Holding
<1>9. Told(q, y, committed')
  <2>1. QueryTrace(q, y) = QueryTrace(q, x) /\ TurnFile(q, y) = TurnFile(q, x)
    BY <1>5 DEF QueryTrace, TurnFile
  <2>2. CASE x.pc = "write"
    <3>1. QueryTrace(q, x) \in committed'["query"]
      BY <1>1, <1>2, <2>2 DEF StoreOf, At
    <3>q. QED
      BY <1>5, <2>1, <2>2, <3>1 DEF Told, Ending
  <2>3. CASE x.pc = "write_turn"
    <3>1. TurnFile(q, x) \in committed'["conversation"]
      BY <1>1, <1>2, <2>3 DEF StoreOf, At
    <3>2. x.status \in Success => QueryTrace(q, x) \in committed'["query"]
      BY <1>2, <1>4, <2>3 DEF Told, Ending, Stores
    <3>q. QED
      BY <1>5, <2>1, <2>3, <3>1, <3>2 DEF Told, Ending
  <2>q. QED
    BY <1>1, <2>2, <2>3
<1>10. \A p \in Queries : Placed(query'[p]) /\ Told(p, query'[p], committed')
  <2>. SUFFICES ASSUME NEW p \in Queries, p # q
                PROVE  Placed(query'[p]) /\ Told(p, query'[p], committed')
    BY <1>7, <1>8, <1>9
  <2>1. query'[p] = query[p] /\ Placed(query[p]) /\ Told(p, query[p], committed)
    BY <1>7 DEF ServeInv
  <2>2. committed["query"] \subseteq committed'["query"]
        /\ committed["conversation"] \subseteq committed'["conversation"]
    BY <1>2 DEF Stores
  <2>q. QED
    BY <2>1, <2>2 DEF Told
<1>11. BorrowedIsOpen' /\ IdleIsLatest'
  BY <1>1, <1>5, <1>7, RuntimeKept DEF Holding
<1>12. ServeTypeOK'
  BY <1>2, <1>7 DEF ServeInv, ServeTypeOK
<1>q. QED
  BY <1>2, <1>10, <1>11, <1>12 DEF ServeInv

LEMMA CommitTraceStep ==
    ASSUME ServeInv, NEW q \in Queries, CommitTrace(q)
    PROVE  ServeInv'
<1>1. query[q] \in QueryRecords /\ Placed(query[q]) /\ query[q].pc = "write"
  BY DEF ServeInv, ServeTypeOK, CommitTrace, At
<1>2. query[q].traced = FALSE
  BY <1>1 DEF Placed, QueryRecords
<1>3. Trace(q, query[q]) = QueryTrace(q, query[q])
  BY <1>2 DEF Trace, QueryTrace
<1>4. Trace(q, query[q]) \in TraceFiles
  BY <1>1 DEF Trace, TraceFiles, QueryRecords
<1>q. QED
  BY <1>1, <1>3, <1>4, TraceWritten DEF CommitTrace

LEMMA CommitTurnStep ==
    ASSUME ServeInv, NEW q \in Queries, CommitTurn(q)
    PROVE  ServeInv'
<1>1. query[q] \in QueryRecords /\ query[q].pc = "write_turn"
  BY DEF ServeInv, ServeTypeOK, CommitTurn, At
<1>2. TurnTrace(q) = TurnFile(q, query[q])
  BY DEF Trace, TurnTrace, TurnFile
<1>3. TurnFile(q, query[q]) \in TraceFiles
  BY <1>1 DEF TurnFile, TraceFiles, QueryRecords
<1>q. QED
  BY <1>1, <1>2, <1>3, TraceWritten DEF CommitTurn

LEMMA CommitFailsStep ==
    ASSUME ServeInv, NEW q \in Queries, CommitFails(q)
    PROVE  ServeInv'
BY ReleaseStep DEF CommitFails, At, Codes

LEMMA CommitTurnFailsStep ==
    ASSUME ServeInv, NEW q \in Queries, CommitTurnFails(q)
    PROVE  ServeInv'
BY QuietFailure DEF CommitTurnFails, At, Codes, Holding, Retaining

\* A pass ends: it unlinked what it listed, or the question fails.
LEMMA PassEnds ==
    ASSUME ServeInv, NEW q \in Queries, NEW t \in Stores, PassOf(query[q], t),
           NEW unlinks \in BOOLEAN, UNCHANGED <<committed, clock>>,
           traces' = IF unlinks THEN [traces EXCEPT ![t] = @ \ query[q].doomed] ELSE traces,
           query'[q].pc \notin Retaining,
           ~unlinks \/ query[q].code = "internal_error" => query'[q].code = "internal_error",
           \A p \in Queries : p # q => query'[p] = query[p]
    PROVE  /\ traces' \in [Stores -> SUBSET TraceFiles]
           /\ \A x \in Stores : traces'[x] \subseteq committed'[x]
           /\ Stored'
<1>1. CASE unlinks
  BY <1>1, Unlinked
<1>2. CASE ~unlinks
  <2>1. traces' = traces /\ query'[q].code = "internal_error"
    BY <1>2
  <2>2. \A x, z : Outdated(x, z)' = Outdated(x, z)
    BY DEF Outdated, Newer
  <2>3. \A p \in Queries, x \in Stores : PassOf(query'[p], x) => p # q /\ query'[p] = query[p]
    BY DEF PassOf, Retaining
  <2>4. \A x \in Stores :
           /\ IsFiniteSet(committed[x])
           /\ \A z \in committed[x] \ traces[x] : Outdated(x, z)
           /\ \A p \in Queries : PassOf(query'[p], x) =>
                 \A z \in query'[p].doomed : z \in committed[x] /\ Outdated(x, z)
    BY <2>3 DEF ServeInv, Stored
  <2>5. Stored'
    BY <2>1, <2>2, <2>4 DEF Stored
  <2>q. QED
    BY <2>1, <2>5 DEF ServeInv, ServeTypeOK
<1>q. QED
  BY <1>1, <1>2

\* What is common to the ends of both passes.
LEMMA RetainStep ==
    ASSUME ServeInv, NEW q \in Queries, NEW unlinks \in BOOLEAN, Retain(q, unlinks)
    PROVE  ServeInv'
<1>1. PICK x : x = query[q]
  OBVIOUS
<1>. DEFINE a == [x EXCEPT !.traced = TRUE, !.doomed = {},
                           !.pc = IF x.kind = "product" THEN "answered" ELSE "enrich"]
            y == IF ~unlinks THEN Failed(q, "internal_error")
                 ELSE IF x.code # "none" THEN Failed(q, x.code) ELSE a
<1>2. /\ x \in QueryRecords /\ Placed(x) /\ Told(q, x, committed) /\ x.pc = "retain" /\ x.code \in Codes
      /\ Q(q, y) /\ cache' = Released(cache, x.snap)
      /\ UNCHANGED <<revision, published, committed, clock>>
  BY <1>1 DEF ServeInv, ServeTypeOK, Retain, At, QueryRecords
<1>3. /\ a \in QueryRecords /\ a.pc = IF x.kind = "product" THEN "answered" ELSE "enrich"
      /\ a.kind = x.kind /\ a.rev = x.rev /\ a.snap = x.snap
      /\ a.status = x.status /\ a.cited = x.cited /\ a.rows = x.rows /\ a.at = x.at
      /\ a.doomed = {} /\ a.code = x.code
  BY <1>2 DEF QueryRecords, Steps
<1>. HIDE DEF a
<1>4. "internal_error" \in Codes
  BY DEF Codes
<1>5. x.code = "none" => Placed(a) /\ Told(q, a, committed)
  <2>1. QueryTrace(q, a) = QueryTrace(q, x)
    BY <1>3 DEF QueryTrace
  <2>2. x.code = "none" => Placed(a)
    BY <1>2, <1>3 DEF Placed, Ending, Before, Retaining, Holding
  <2>3. Told(q, a, committed)
    BY <1>2, <1>3, <2>1 DEF Told, Ending
  <2>q. QED
    BY <2>2, <2>3
<1>6. /\ y \in QueryRecords /\ Placed(y) /\ Told(q, y, committed)
      /\ y.pc \notin Holding /\ y.pc \notin Retaining
      /\ ~unlinks \/ x.code = "internal_error" => y.code = "internal_error"
  <2>1. CASE y = Failed(q, "internal_error")
    BY <1>4, <2>1, FailedRecord DEF Holding, Retaining
  <2>2. CASE unlinks /\ x.code # "none" /\ y = Failed(q, x.code)
    BY <1>2, <2>2, FailedRecord DEF Holding, Retaining
  <2>3. CASE unlinks /\ x.code = "none" /\ y = a
    BY <1>3, <1>5, <2>3 DEF Holding, Retaining
  <2>q. QED
    BY <2>1, <2>2, <2>3
<1>. HIDE DEF y
<1>7. /\ query' \in [Queries -> QueryRecords] /\ query'[q] = y
      /\ \A p \in Queries : p # q => query'[p] = query[p]
  BY <1>2, <1>6, QueryWritten DEF ServeInv
<1>8. \A p \in Queries : Placed(query'[p]) /\ Told(p, query'[p], committed')
  BY <1>2, <1>6, <1>7 DEF ServeInv
<1>9. /\ cache' \in [closed: BOOLEAN, latest: Snaps \cup {"none"},
                     entry: [Snaps -> [state: {"none", "open", "closed"}, refs: Nat]]]
      /\ BorrowedIsOpen' /\ IdleIsLatest'
  BY <1>1, <1>2, <1>6, <1>7, RuntimeReleased DEF Holding
<1>10. "query" \in Stores /\ PassOf(query[q], "query")
  BY <1>1, <1>2 DEF Stores, PassOf
<1>11. traces' = IF unlinks THEN [traces EXCEPT !["query"] = @ \ query[q].doomed] ELSE traces
  BY DEF Retain
<1>12. /\ traces' \in [Stores -> SUBSET TraceFiles]
       /\ \A t \in Stores : traces'[t] \subseteq committed'[t]
       /\ Stored'
  BY <1>1, <1>2, <1>6, <1>7, <1>10, <1>11, PassEnds
<1>13. ServeTypeOK'
  BY <1>2, <1>7, <1>9, <1>12 DEF ServeInv, ServeTypeOK
<1>q. QED
  BY <1>8, <1>9, <1>12, <1>13 DEF ServeInv

LEMMA RetainTurnStep ==
    ASSUME ServeInv, NEW q \in Queries, NEW unlinks \in BOOLEAN, RetainTurn(q, unlinks)
    PROVE  ServeInv'
<1>1. PICK x : x = query[q]
  OBVIOUS
<1>. DEFINE a == [x EXCEPT !.pc = "answered", !.doomed = {}]
            y == IF unlinks THEN a ELSE Failed(q, "internal_error")
<1>2. /\ x \in QueryRecords /\ Placed(x) /\ Told(q, x, committed) /\ x.pc = "retain_turn"
      /\ Q(q, y) /\ UNCHANGED <<revision, published, cache, committed, clock>>
  BY <1>1 DEF ServeInv, ServeTypeOK, RetainTurn, At
<1>3. /\ a \in QueryRecords /\ a.pc = "answered"
      /\ a.kind = x.kind /\ a.rev = x.rev /\ a.snap = x.snap /\ a.selected = x.selected
      /\ a.status = x.status /\ a.cited = x.cited /\ a.rows = x.rows /\ a.at = x.at /\ a.cat = x.cat
      /\ a.traced = x.traced /\ a.doomed = {} /\ a.code = x.code
  BY <1>2 DEF QueryRecords, Steps
<1>. HIDE DEF a
<1>4. Placed(a) /\ Told(q, a, committed)
  <2>1. QueryTrace(q, a) = QueryTrace(q, x) /\ TurnFile(q, a) = TurnFile(q, x)
    BY <1>3 DEF QueryTrace, TurnFile
  <2>2. RowsOf(x) => RowsOf(a)
    BY <1>3 DEF RowsOf
  <2>3. Placed(a)
    BY <1>2, <1>3, <2>2 DEF Placed, Ending, Before, Retaining, Holding
  <2>4. Told(q, a, committed)
    BY <1>2, <1>3, <2>1 DEF Told, Ending
  <2>q. QED
    BY <2>3, <2>4
<1>5. "internal_error" \in Codes
  BY DEF Codes
<1>6. /\ y \in QueryRecords /\ Placed(y) /\ Told(q, y, committed)
      /\ y.pc \notin Holding /\ y.pc \notin Retaining
      /\ ~unlinks \/ x.code = "internal_error" => y.code = "internal_error"
  <2>1. CASE ~unlinks /\ y = Failed(q, "internal_error")
    BY <1>5, <2>1, FailedRecord DEF Holding, Retaining
  <2>2. CASE unlinks /\ y = a
    BY <1>3, <1>4, <2>2 DEF Holding, Retaining
  <2>q. QED
    BY <2>1, <2>2
<1>. HIDE DEF y
<1>7. /\ query' \in [Queries -> QueryRecords] /\ query'[q] = y
      /\ \A p \in Queries : p # q => query'[p] = query[p]
  BY <1>2, <1>6, QueryWritten DEF ServeInv
<1>8. \A p \in Queries : Placed(query'[p]) /\ Told(p, query'[p], committed')
  BY <1>2, <1>6, <1>7 DEF ServeInv
<1>9. BorrowedIsOpen' /\ IdleIsLatest'
  BY <1>1, <1>2, <1>6, <1>7, RuntimeKept DEF Holding
<1>10. "conversation" \in Stores /\ PassOf(query[q], "conversation")
  BY <1>1, <1>2 DEF Stores, PassOf
<1>11. traces' = IF unlinks THEN [traces EXCEPT !["conversation"] = @ \ query[q].doomed] ELSE traces
  BY DEF RetainTurn
<1>12. /\ traces' \in [Stores -> SUBSET TraceFiles]
       /\ \A t \in Stores : traces'[t] \subseteq committed'[t]
       /\ Stored'
  BY <1>1, <1>2, <1>6, <1>7, <1>10, <1>11, PassEnds
<1>13. ServeTypeOK'
  BY <1>2, <1>7, <1>12 DEF ServeInv, ServeTypeOK
<1>q. QED
  BY <1>8, <1>9, <1>12, <1>13 DEF ServeInv

-----------------------------------------------------------------------------
(* The world around the questions                                          *)

\* A mutation publishes or commits, or time passes.
LEMMA WorldStep ==
    ASSUME ServeInv, Publish \/ MutateWorkspace \/ Tick \/ UNCHANGED serveVars
    PROVE  ServeInv'
<1>1. UNCHANGED <<cache, query, traces, committed>>
  BY DEF Publish, MutateWorkspace, Tick, serveVars
<1>2. clock' \in Nat /\ clock' >= clock
  BY DEF ServeInv, ServeTypeOK, Publish, MutateWorkspace, Tick, serveVars
<1>3. revision' \in DOMAIN History /\ published' \in Snaps \cup {"none"}
  <2>1. revision \in DOMAIN History /\ published \in Snaps \cup {"none"}
    BY DEF ServeInv, ServeTypeOK
  <2>2. revision < Len(History) => revision + 1 \in DOMAIN History
    BY <2>1
  <2>q. QED
    BY <2>1, <2>2, Named DEF Publish, MutateWorkspace, Tick, serveVars
<1>4. ServeTypeOK'
  BY <1>1, <1>2, <1>3 DEF ServeInv, ServeTypeOK
<1>5. BorrowedIsOpen' /\ IdleIsLatest'
  BY <1>1, RuntimeKept
<1>6. Stored'
  BY <1>1, <1>2, StoredKept
<1>q. QED
  BY <1>1, <1>4, <1>5, <1>6 DEF ServeInv

\* The cache closes while its runtimes may be in use.
LEMMA CloseCacheStep ==
    ASSUME ServeInv, CloseCache
    PROVE  ServeInv'
<1>1. /\ UNCHANGED <<revision, published, query, traces, committed, clock>>
      /\ ~cache.closed
      /\ cache.entry \in [Snaps -> [state: {"none", "open", "closed"}, refs: Nat]]
  BY DEF ServeInv, ServeTypeOK, CloseCache
<1>. DEFINE ent == [s \in Snaps |-> IF cache.entry[s].state = "open"
                                    THEN [state |-> "closed", refs |-> cache.entry[s].refs]
                                    ELSE NoEntry]
<1>2. cache' = [closed |-> TRUE, latest |-> "none", entry |-> ent]
  BY DEF CloseCache
<1>3. /\ ent \in [Snaps -> [state: {"none", "open", "closed"}, refs: Nat]]
      /\ \A s \in Snaps : ent[s].refs = IF cache.entry[s].state = "open" THEN cache.entry[s].refs ELSE 0
  BY <1>1 DEF NoEntry
<1>. HIDE DEF ent
<1>4. \A s \in Snaps : ent[s].refs = Cardinality(Users(s))
  <2>. SUFFICES ASSUME NEW s \in Snaps PROVE ent[s].refs = Cardinality(Users(s))
    OBVIOUS
  <2>1. /\ cache.entry[s].refs = Cardinality(Users(s))
        /\ Users(s) # {} => cache.entry[s].state = "open"
    BY <1>1 DEF ServeInv, BorrowedIsOpen, Users
  <2>2. Users(s) = {} => Cardinality(Users(s)) = 0
    BY FS_EmptySet
  <2>q. QED
    BY <1>3, <2>1, <2>2
<1>5. BorrowedIsOpen'
  BY <1>1, <1>2, <1>4 DEF BorrowedIsOpen, Users
<1>6. IdleIsLatest'
  BY <1>2 DEF IdleIsLatest
<1>7. ServeTypeOK'
  BY <1>1, <1>2, <1>3 DEF ServeInv, ServeTypeOK
<1>8. clock' \in Nat /\ clock' >= clock
  BY <1>1 DEF ServeInv, ServeTypeOK
<1>9. Stored'
  BY <1>1, <1>8, StoredKept
<1>q. QED
  BY <1>1, <1>5, <1>6, <1>7, <1>9 DEF ServeInv

-----------------------------------------------------------------------------
(* The specification                                                       *)

LEMMA ServeStarts == ServeInit => ServeInv
<1>. SUFFICES ASSUME ServeInit PROVE ServeInv
  OBVIOUS
<1>1. 1 \in DOMAIN History /\ History[1].snapshot \in Snaps \cup {"none"}
  BY Named
<1>2. Fresh \in QueryRecords /\ Fresh.pc = "idle" /\ Fresh.status = "none" /\ Fresh.cited = {}
      /\ Fresh.rows = {} /\ ~Fresh.traced /\ Fresh.doomed = {} /\ Fresh.code = "none"
  BY FreshRecord DEF Fresh
<1>3. \A q \in Queries : query[q] = Fresh
  BY DEF ServeInit
<1>4. Older \in TraceFiles
  BY DEF Older, TraceFiles, Statuses, Success, Codes
<1>5. /\ cache \in [closed: BOOLEAN, latest: Snaps \cup {"none"},
                    entry: [Snaps -> [state: {"none", "open", "closed"}, refs: Nat]]]
      /\ \A s \in Snaps : cache.entry[s].state = "none" /\ cache.entry[s].refs = 0
  BY DEF ServeInit, NoEntry
<1>6. ServeTypeOK
  BY <1>1, <1>2, <1>4, <1>5 DEF ServeInit, ServeTypeOK
<1>7. \A q \in Queries : Placed(query[q]) /\ Told(q, query[q], committed)
  <2>1. Placed(Fresh)
    BY <1>2 DEF Placed, Before, Holding, Retaining, Ending
  <2>2. \A q : Told(q, Fresh, committed)
    BY <1>2 DEF Told, Ending
  <2>q. QED
    BY <1>3, <2>1, <2>2
<1>8. BorrowedIsOpen /\ IdleIsLatest
  <2>1. \A s \in Snaps : Users(s) = {}
    BY <1>2, <1>3 DEF Users, Holding
  <2>2. BorrowedIsOpen
    BY <1>5, <2>1, FS_EmptySet DEF BorrowedIsOpen, Users
  <2>3. IdleIsLatest
    BY <1>5 DEF IdleIsLatest
  <2>q. QED
    BY <2>2, <2>3
<1>9. Stored
  <2>1. \A t \in Stores : /\ traces[t] \in {{}, {Older}} /\ committed[t] = traces[t]
    BY DEF ServeInit
  <2>2. \A t \in Stores : IsFiniteSet(traces[t]) /\ Cardinality(traces[t]) <= 1
    <3>1. IsFiniteSet({}) /\ Cardinality({}) = 0
      BY FS_EmptySet
    <3>2. IsFiniteSet({Older}) /\ Cardinality({Older}) = 1
      BY FS_Singleton
    <3>3. ASSUME NEW t \in Stores PROVE IsFiniteSet(traces[t]) /\ Cardinality(traces[t]) <= 1
      <4>1. CASE traces[t] = {}
        BY <3>1, <4>1
      <4>2. CASE traces[t] = {Older}
        BY <3>2, <4>2
      <4>q. QED
        BY <2>1, <4>1, <4>2
    <3>q. QED
      BY <3>3
  <2>3. \A q \in Queries, t \in Stores : ~PassOf(query[q], t)
    BY <1>2, <1>3 DEF PassOf
  <2>4. \A t \in Stores : Cardinality(traces[t]) <= MaxRetained
    BY <2>2, FS_CardinalityType
  <2>q. QED
    BY <2>1, <2>2, <2>3, <2>4 DEF Stored
<1>q. QED
  BY <1>6, <1>7, <1>8, <1>9 DEF ServeInv

LEMMA QuestionStep ==
    ASSUME ServeInv, NEW q \in Queries, Ask(q) \/ Serve(q)
    PROVE  ServeInv'
<1>1. CASE Ask(q)
  BY <1>1, BeginTurnStep, BeginQueryStep DEF Ask
<1>2. CASE \/ ResolveCurrent(q) \/ Recheck(q) \/ AdmitTurn(q)
           \/ \E chosen \in {c \in SUBSET SourceIds : Cardinality(c) <= 1} : ReadWorkspace(q, chosen)
           \/ \E output \in {"object", "other", "fault", "absent"}, referring, fits \in BOOLEAN :
                 ResolveContext(q, output, referring, fits)
  BY <1>2, ResolveCurrentStep, RecheckStep, AdmitTurnStep, ReadWorkspaceStep, ResolveContextStep
<1>3. CASE \/ \E builds \in BOOLEAN : Acquire(q, builds)
           \/ \E cancelled \in BOOLEAN : StartTrace(q, cancelled)
  BY <1>3, AcquireStep, StartTraceStep
<1>4. ASSUME NEW status \in Success, NEW cited \in SUBSET Docs, Execute(q, status, "none", cited)
      PROVE  ServeInv'
  BY <1>4, ExecuteStep DEF Codes
<1>5. ASSUME NEW code \in {"runtime_not_ready", "internal_error"}, Execute(q, "none", code, {})
      PROVE  ServeInv'
  BY <1>5, ExecuteStep DEF Codes
<1>6. CASE CommitTrace(q) \/ CommitFails(q) \/ Enrich(q) \/ CommitTurn(q) \/ CommitTurnFails(q)
  BY <1>6, CommitTraceStep, CommitFailsStep, EnrichStep, CommitTurnStep, CommitTurnFailsStep
<1>7. CASE \E unlinks \in BOOLEAN : Retain(q, unlinks) \/ RetainTurn(q, unlinks)
  BY <1>7, RetainStep, RetainTurnStep
<1>q. QED
  BY <1>1, <1>2, <1>3, <1>4, <1>5, <1>6, <1>7 DEF Serve

\* The invariant of the questions served (query_runtime.py, the trace stores,
\* run_product_query, run_workspace_query, run_conversation_turn) holds in
\* every state, for any numbers of questions, revisions and traces.
THEOREM ServeInvariant == ServeSpec => []ServeInv
<1>1. ServeInit => ServeInv
  BY ServeStarts
<1>2. ServeInv /\ [ServeNext]_serveVars => ServeInv'
  <2>. SUFFICES ASSUME ServeInv, [ServeNext]_serveVars PROVE ServeInv'
    OBVIOUS
  <2>1. CASE \E q \in Queries : Ask(q) \/ Serve(q)
    BY <2>1, QuestionStep
  <2>2. CASE Publish \/ MutateWorkspace \/ Tick \/ UNCHANGED serveVars
    BY <2>2, WorldStep
  <2>3. CASE CloseCache
    BY <2>3, CloseCacheStep
  <2>q. QED
    BY <2>1, <2>2, <2>3 DEF ServeNext
<1>q. QED
  BY <1>1, <1>2, PTL DEF ServeSpec

\* A store beyond its bound is under a pass that has something to drop.
LEMMA RetentionFollows == ServeInv => NewestTracesKept /\ RetentionHolds
<1>. SUFFICES ASSUME ServeInv PROVE NewestTracesKept /\ RetentionHolds
  OBVIOUS
<1>1. NewestTracesKept
  BY DEF NewestTracesKept, ServeInv, Stored, Outdated, Newer
<1>2. RetentionHolds
  <2>. SUFFICES ASSUME NEW t \in Stores, ~(Cardinality(traces[t]) <= MaxRetained),
                       ~\E q \in Queries : query[q].code = "internal_error"
                PROVE  \E q \in Queries : query[q].doomed # {}
    BY DEF RetentionHolds
  <2>1. PICK q \in Queries : Cardinality(traces[t] \ query[q].doomed) <= MaxRetained
    BY DEF ServeInv, Stored
  <2>2. query[q].doomed = {} => traces[t] \ query[q].doomed = traces[t]
    OBVIOUS
  <2>q. QED
    BY <2>1, <2>2
<1>q. QED
  BY <1>1, <1>2

\* What an answered question left is what the client is told.
LEMMA AnswersFollow == ServeInv => AnswerIsOfOneRevision /\ AnswerIsTraced
<1>. SUFFICES ASSUME ServeInv PROVE AnswerIsOfOneRevision /\ AnswerIsTraced
  OBVIOUS
<1>1. \A q \in Queries : query[q] \in QueryRecords /\ Placed(query[q]) /\ Told(q, query[q], committed)
  BY DEF ServeInv, ServeTypeOK
<1>2. AnswerIsOfOneRevision
  BY <1>1 DEF AnswerIsOfOneRevision, Placed, RowsOf, Ending
<1>3. ASSUME NEW q \in Queries, query[q].pc = "answered"
      PROVE  /\ query[q].status \in Success => Trace(q, [query[q] EXCEPT !.traced = FALSE]) \in committed["query"]
             /\ query[q].kind = "conversation" => TurnTrace(q) \in committed["conversation"]
             /\ query[q].status = "clarification_required" => ~query[q].traced
  <2>1. Trace(q, [query[q] EXCEPT !.traced = FALSE]) = QueryTrace(q, query[q])
    BY <1>1 DEF Trace, QueryTrace, QueryRecords
  <2>2. TurnTrace(q) = TurnFile(q, query[q])
    BY DEF TurnTrace, Trace, TurnFile
  <2>q. QED
    BY <1>1, <1>3, <2>1, <2>2 DEF Told, Placed, Ending
<1>4. AnswerIsTraced
  BY <1>3 DEF AnswerIsTraced
<1>q. QED
  BY <1>2, <1>4

\* However questions, publications, mutations, the shutdown of the cache and
\* retention passes overlap, a question runs on a runtime that stays open, it
\* answers for one revision, its trace says what the client is told, and no
\* stale retention pass drops one of the newest traces.
THEOREM ServeHolds == ServeSpec => []QuestionsAreServed
<1>1. ServeInv => QuestionsAreServed
  BY RetentionFollows, AnswersFollow DEF ServeInv, QuestionsAreServed
<1>q. QED
  BY <1>1, ServeInvariant, PTL

\* A step of one question leaves the others where they are.
LEMMA OneQuestion ==
    ASSUME query \in [Queries -> QueryRecords], NEW p \in Queries, Ask(p) \/ Serve(p),
           NEW q \in Queries, q # p
    PROVE  query'[q] = query[q]
<1>. USE DEF Q, Fail
<1>1. CASE Ask(p)
  BY <1>1 DEF Ask, BeginTurn, BeginQuery
<1>2. CASE ResolveCurrent(p) \/ Recheck(p) \/ AdmitTurn(p)
  BY <1>2 DEF ResolveCurrent, Recheck, AdmitTurn
<1>3. ASSUME NEW chosen, ReadWorkspace(p, chosen) PROVE query'[q] = query[q]
  BY <1>3 DEF ReadWorkspace
<1>4. ASSUME NEW output, NEW referring, NEW fits, ResolveContext(p, output, referring, fits)
      PROVE  query'[q] = query[q]
  BY <1>4 DEF ResolveContext
<1>5. ASSUME NEW builds, Acquire(p, builds) PROVE query'[q] = query[q]
  BY <1>5 DEF Acquire
<1>6. ASSUME NEW cancelled, StartTrace(p, cancelled) PROVE query'[q] = query[q]
  BY <1>6 DEF StartTrace
<1>7. ASSUME NEW st, NEW code, NEW cited, Execute(p, st, code, cited) PROVE query'[q] = query[q]
  BY <1>7 DEF Execute
<1>8. CASE CommitTrace(p) \/ CommitTurn(p)
  BY <1>8 DEF CommitTrace, CommitTurn, WriteThenList
<1>9. CASE CommitFails(p) \/ CommitTurnFails(p)
  BY <1>9 DEF CommitFails, CommitTurnFails
<1>10. CASE Enrich(p)
  BY <1>10 DEF Enrich
<1>11. ASSUME NEW unlinks, Retain(p, unlinks) \/ RetainTurn(p, unlinks) PROVE query'[q] = query[q]
  BY <1>11 DEF Retain, RetainTurn
<1>q. QED
  BY <1>1, <1>2, <1>3, <1>4, <1>5, <1>6, <1>7, <1>8, <1>9, <1>10, <1>11 DEF Serve

\* A workspace query in scope can only be checked again.
LEMMA OnlyRecheck ==
    ASSUME NEW q \in Queries, Ask(q) \/ Serve(q), query[q].kind = "workspace",
           query[q].pc = "scoped"
    PROVE  Recheck(q)
<1>. USE DEF At
<1>1. ~Ask(q)
  BY DEF Ask, BeginTurn, BeginQuery
<1>2. ~ResolveCurrent(q) /\ ~AdmitTurn(q) /\ \A chosen : ~ReadWorkspace(q, chosen)
  BY DEF ResolveCurrent, AdmitTurn, ReadWorkspace
<1>3. \A output, referring, fits : ~ResolveContext(q, output, referring, fits)
  BY DEF ResolveContext
<1>4. \A b : ~Acquire(q, b) /\ ~StartTrace(q, b) /\ ~Retain(q, b) /\ ~RetainTurn(q, b)
  BY DEF Acquire, StartTrace, Retain, RetainTurn
<1>5. \A st, code, cited : ~Execute(q, st, code, cited)
  BY DEF Execute
<1>6. ~CommitTrace(q) /\ ~CommitFails(q) /\ ~Enrich(q) /\ ~CommitTurn(q) /\ ~CommitTurnFails(q)
  BY DEF CommitTrace, CommitFails, Enrich, CommitTurn, CommitTurnFails
<1>q. QED
  BY <1>1, <1>2, <1>3, <1>4, <1>5, <1>6 DEF Serve

\* A workspace query is bound only while the revision it read is the current
\* one (run_workspace_query reads the record a second time).
THEOREM BoundHolds == ServeSpec => [][BoundWhileCurrent]_serveVars
<1>1. ServeInv /\ [ServeNext]_serveVars => [BoundWhileCurrent]_serveVars
  <2>. SUFFICES ASSUME ServeInv, ServeNext, NEW q \in Queries, query[q].kind = "workspace",
                       query[q].pc = "scoped", query'[q].pc = "bind"
                PROVE  query[q].rev = revision
    BY DEF BoundWhileCurrent
  <2>1. query \in [Queries -> QueryRecords] /\ query'[q] # query[q]
    BY DEF ServeInv, ServeTypeOK
  <2>2. PICK p \in Queries : Ask(p) \/ Serve(p)
    BY <2>1 DEF ServeNext, Publish, MutateWorkspace, CloseCache, Tick
  <2>3. Recheck(q)
    BY <2>1, <2>2, OneQuestion, OnlyRecheck
  <2>4. ~Fail(q, "workspace_conflict")
    BY <2>1 DEF Fail, Q, Failed, Fresh
  <2>q. QED
    BY <2>3, <2>4 DEF Recheck
<1>q. QED
  BY <1>1, ServeInvariant, PTL DEF ServeSpec
-----------------------------------------------------------------------------
(* The product settings. *)

Groups == {"generation", "authoring"}
Values == [sel : [Selections -> Texts], approved : [Selections -> SUBSET Texts],
           plain : [Plain -> Texts], key : Texts, policy : Texts]
Files  == [saved : BOOLEAN, sel : [Selections -> Texts], policy : Texts,
           plain : [Plain -> Texts], key : Texts]
Saves  == [pc : {"idle", "checked", "saved", "refused"}, action : Actions, record : Files,
           probed : BOOLEAN, keySeen : Texts, pending : Values]

SettingsTypeOK ==
    /\ group \in Groups /\ env \in Envs /\ file \in Files
    /\ active \in [state : {"up", "config_error"}, s : Values]
    /\ save \in [Clients -> Saves]

WrittenKeys == {NoKey, "null", "K"}
Underway(x) == x.pc \in {"checked", "saved"}

\* A record the product may write under environment e.
Writable(g, e, r) ==
    /\ r.saved /\ r.key \in WrittenKeys
    /\ \A f \in Selections : r.sel[f] = Unowned <=> f \in Locks(e).sel
    /\ \A f \in Plain : f \in Locks(e).plain \/ r.plain[f] # Unowned
    /\ PolicyAllows(e.strict, r.sel["base_url"])
    /\ r.policy = IF g = "generation" \/ Locks(e).policy \/ r.sel["base_url"] = Unowned
                  THEN Unowned ELSE infer_authoring_network_policy(r.sel["base_url"])

\* The values of a process that runs: where the operator decides, the
\* environment's; a key of the layers below only while no file manages one.
Base(e) == WithEnv(Yaml, e)
Running(g, e, s, keyOf) ==
    LET locks == Locks(e) IN
    /\ \A f \in locks.sel : e.sel[f] # "none" => s.sel[f] = e.sel[f]
    /\ \A f \in locks.plain : s.plain[f] = e.plain[f]
    /\ locks.key => s.key = e.key
    /\ locks.key \/ s.key = Base(e).key \/ keyOf # NoKey
    /\ locks.policy => s.policy = e.policy
    /\ g = "generation" => s.policy = Base(e).policy

SaveOK(x) ==
    Underway(x) =>
        /\ active.state = "up" /\ Writable(group, env, x.record)
        /\ Running(group, env, active.s, x.record.key)
        /\ x.pc = "checked" /\ x.action = "keep" => x.record.key = x.keySeen
        /\ x.pc = "saved" => x.pending = _pending_effective_view(x.record)

SettingsInv ==
    /\ SettingsTypeOK /\ (file = NoFile \/ file.saved) /\ OwnFileLoads /\ BootstrapKeyNotWritten
    /\ active.state = "up" => Running(group, env, active.s, file.key)
    /\ \A c \in Clients : SaveOK(save[c])

LEMMA OverIsText ==
    ASSUME NEW low \in Texts, NEW high \in Texts PROVE Over(low, high) \in Texts
BY DEF Over

LEMMA YamlIsTyped == Yaml \in Values
BY SettingsAssumption DEF Yaml, Values

\* The environment merged over loaded values.
LEMMA WithEnvFields ==
    ASSUME NEW s \in Values, NEW e \in Envs
    PROVE  /\ WithEnv(s, e) \in Values
           /\ \A f \in Selections : WithEnv(s, e).sel[f] = Over(s.sel[f], e.sel[f])
           /\ \A f \in Selections : f \notin e.appr => WithEnv(s, e).approved[f] = s.approved[f]
           /\ \A f \in Plain : WithEnv(s, e).plain[f] = Over(s.plain[f], e.plain[f])
           /\ WithEnv(s, e).key = Over(s.key, e.key)
           /\ WithEnv(s, e).policy = Over(s.policy, e.policy)
<1>1. e \in Environments
  BY SettingsAssumption
<1>. DEFINE sel == [f \in Selections |-> Over(s.sel[f], e.sel[f])]
            approved == [f \in Selections |-> IF f \in e.appr THEN {"E", "P"} ELSE s.approved[f]]
            plain == [f \in Plain |-> Over(s.plain[f], e.plain[f])]
<1>2. /\ sel \in [Selections -> Texts] /\ plain \in [Plain -> Texts]
      /\ approved \in [Selections -> SUBSET Texts]
  <2>1. /\ s.sel \in [Selections -> Texts] /\ s.plain \in [Plain -> Texts]
        /\ s.approved \in [Selections -> SUBSET Texts] /\ {"E", "P"} \subseteq Texts
    BY SettingsAssumption DEF Values
  <2>2. e.sel \in [Selections -> Texts] /\ e.plain \in [Plain -> Texts]
    BY <1>1 DEF Environments
  <2>3. sel \in [Selections -> Texts] /\ plain \in [Plain -> Texts]
    BY <2>1, <2>2, OverIsText
  <2>4. approved \in [Selections -> SUBSET Texts]
    BY <2>1
  <2>q. QED
    BY <2>3, <2>4
<1>3. Over(s.key, e.key) \in Texts /\ Over(s.policy, e.policy) \in Texts
  BY <1>1, OverIsText DEF Values, Environments
<1>4. WithEnv(s, e) = [s EXCEPT !.sel = sel, !.approved = approved, !.plain = plain,
                                !.key = Over(s.key, e.key), !.policy = Over(s.policy, e.policy)]
  BY DEF WithEnv
<1>5. /\ \A f \in Selections : sel[f] = Over(s.sel[f], e.sel[f])
      /\ \A f \in Selections : f \notin e.appr => approved[f] = s.approved[f]
      /\ \A f \in Plain : plain[f] = Over(s.plain[f], e.plain[f])
  OBVIOUS
<1>. HIDE DEF sel, approved, plain
<1>q. QED
  BY <1>2, <1>3, <1>4, <1>5 DEF Values

\* The product file merged over loaded values.
LEMMA OverlayFields ==
    ASSUME NEW g \in Groups, NEW s \in Values, NEW fl \in Files, fl.saved
    PROVE  /\ Overlay(g, s, fl) \in Values
           /\ \A f \in Selections : Overlay(g, s, fl).sel[f] = Over(s.sel[f], fl.sel[f])
           /\ \A f \in Selections : fl.sel[f] # Unowned
                                      => Overlay(g, s, fl).approved[f] = {fl.sel[f]}
           /\ \A f \in Plain : Overlay(g, s, fl).plain[f] = Over(s.plain[f], fl.plain[f])
           /\ Overlay(g, s, fl).key = IF fl.key = NoKey THEN s.key ELSE fl.key
           /\ Overlay(g, s, fl).policy =
                IF g = "generation" THEN s.policy
                ELSE IF fl.policy # Unowned THEN fl.policy
                ELSE IF fl.sel["base_url"] # Unowned
                THEN infer_authoring_network_policy(fl.sel["base_url"]) ELSE s.policy
<1>. DEFINE sel == [f \in Selections |-> Over(s.sel[f], fl.sel[f])]
            approved == [f \in Selections |-> IF fl.sel[f] = Unowned THEN s.approved[f] ELSE {fl.sel[f]}]
            plain == [f \in Plain |-> Over(s.plain[f], fl.plain[f])]
            key == IF fl.key = NoKey THEN s.key ELSE fl.key
            policy == IF g = "generation" THEN s.policy
                      ELSE IF fl.policy # Unowned THEN fl.policy
                      ELSE IF fl.sel["base_url"] # Unowned
                      THEN infer_authoring_network_policy(fl.sel["base_url"]) ELSE s.policy
<1>2. /\ sel \in [Selections -> Texts] /\ plain \in [Plain -> Texts]
      /\ approved \in [Selections -> SUBSET Texts]
  BY OverIsText DEF Values, Files
<1>3. key \in Texts /\ policy \in Texts
  BY SettingsAssumption DEF Values, Files, infer_authoring_network_policy
<1>4. Overlay(g, s, fl) = [sel |-> sel, approved |-> approved, plain |-> plain,
                           key |-> key, policy |-> policy]
  BY DEF Overlay, generation_overlay, authoring_overlay, Values, Groups
<1>5. /\ \A f \in Selections : sel[f] = Over(s.sel[f], fl.sel[f])
      /\ \A f \in Selections : fl.sel[f] # Unowned => approved[f] = {fl.sel[f]}
      /\ \A f \in Plain : plain[f] = Over(s.plain[f], fl.plain[f])
  OBVIOUS
<1>. HIDE DEF sel, approved, plain
<1>q. QED
  BY <1>2, <1>3, <1>4, <1>5 DEF Values

LEMMA OverlayOfNone ==
    ASSUME NEW g \in Groups, NEW s \in Values, NEW fl \in Files, ~fl.saved,
           g = "authoring" => fl.policy = Unowned
    PROVE  Overlay(g, s, fl) = s
BY DEF Overlay, generation_overlay, authoring_overlay, Values, Groups


LEMMA BaseIsTyped == ASSUME NEW e \in Envs PROVE Base(e) \in Values
BY YamlIsTyped, WithEnvFields DEF Base

LEMMA NoFileIsTyped == NoFile \in Files /\ ~NoFile.saved
BY SettingsAssumption DEF NoFile, Files, Unowned, NoKey

\* What the process loads is what the environment and the file decide.
LEMMA LoadedIsRunning ==
    ASSUME NEW g \in Groups, NEW e \in Envs, NEW fl \in Files, fl = NoFile \/ fl.saved
    PROVE  /\ load_settings(g, e, fl) \in Values
           /\ Running(g, e, load_settings(g, e, fl), fl.key)
<1>. DEFINE s == load_settings(g, e, fl)
<1>1. e \in Environments
  BY SettingsAssumption
<1>2. Yaml.key = "Y" /\ Yaml.policy = "local"
  BY DEF Yaml
<1>3. Base(e).key = Over("Y", e.key) /\ Base(e).policy = Over("local", e.policy)
  BY <1>2, YamlIsTyped, WithEnvFields DEF Base
<1>4. ASSUME ~fl.saved PROVE s = Base(e)
  <2>1. fl.policy = Unowned /\ \A v \in Values : Overlay(g, v, fl) = v
    BY <1>4, OverlayOfNone DEF NoFile
  <2>q. QED
    BY <2>1, BaseIsTyped, YamlIsTyped DEF load_settings, Base
<1>5. CASE ~fl.saved
  <2>1. Running(g, e, Base(e), fl.key)
    BY <1>1, WithEnvFields, YamlIsTyped DEF Running, Locks, Base, Over, Environments
  <2>q. QED
    BY <2>1, <1>4, <1>5, BaseIsTyped
<1>6. CASE fl.saved /\ e.mode = "user"
  <2>1. s = Overlay(g, Base(e), fl)
    BY <1>6 DEF load_settings, Base
  <2>2. s \in Values /\ s.key = IF fl.key = NoKey THEN Base(e).key ELSE fl.key
    BY <1>6, <2>1, BaseIsTyped, OverlayFields
  <2>3. g = "generation" => s.policy = Base(e).policy
    BY <1>6, <2>1, BaseIsTyped, OverlayFields
  <2>q. QED
    BY <1>6, <2>2, <2>3 DEF Running, Locks
<1>7. CASE fl.saved /\ e.mode = "operator"
  <2>. DEFINE low == Overlay(g, Yaml, fl)
  <2>1. s = WithEnv(low, e)
    BY <1>7 DEF load_settings
  <2>2. low \in Values /\ low.key = IF fl.key = NoKey THEN "Y" ELSE fl.key
    BY <1>2, <1>7, YamlIsTyped, OverlayFields
  <2>3. g = "generation" => low.policy = "local"
    BY <1>2, <1>7, YamlIsTyped, OverlayFields
  <2>. HIDE DEF low
  <2>4. /\ s \in Values
        /\ \A f \in Selections : s.sel[f] = Over(low.sel[f], e.sel[f])
        /\ \A f \in Plain : s.plain[f] = Over(low.plain[f], e.plain[f])
        /\ s.key = Over(low.key, e.key) /\ s.policy = Over(low.policy, e.policy)
    BY <2>1, <2>2, WithEnvFields
  <2>. HIDE DEF s
  <2>5. /\ Locks(e).sel = {f \in Selections : e.sel[f] # "none"} \cup e.appr
        /\ Locks(e).plain = {f \in Plain : e.plain[f] # "none"}
        /\ Locks(e).key = (e.key # "none") /\ Locks(e).policy = (e.policy # "none")
        /\ e.appr \subseteq Selections
    BY <1>1, <1>7 DEF Locks, Environments
  <2>6. Running(g, e, s, fl.key)
    BY <1>3, <2>2, <2>3, <2>4, <2>5 DEF Running, Over
  <2>q. QED
    BY <2>4, <2>6 DEF s
<1>8. e.mode \in {"user", "operator"}
  BY <1>1 DEF Environments
<1>q. QED
  BY <1>5, <1>6, <1>7, <1>8

\* The pending view of a record.
LEMMA PendingFields ==
    ASSUME NEW r \in Files, active.s \in Values
    PROVE  LET told == _pending_effective_view(r)
               locks == Locks(env)
           IN /\ told \in Values
              /\ \A f \in Selections : told.sel[f] = IF f \in locks.sel \/ r.sel[f] = Unowned
                                                     THEN active.s.sel[f] ELSE r.sel[f]
              /\ \A f \in Plain : told.plain[f] = IF f \in locks.plain THEN active.s.plain[f]
                                                  ELSE r.plain[f]
              /\ told.key = IF locks.key \/ r.key = NoKey THEN active.s.key ELSE r.key
              /\ told.policy = IF locks.policy \/ r.policy = Unowned THEN active.s.policy
                               ELSE r.policy
<1>. DEFINE locks == Locks(env)
            s == active.s
            sel == [f \in Selections |-> IF f \in locks.sel \/ r.sel[f] = Unowned
                                         THEN s.sel[f] ELSE r.sel[f]]
            plain == [f \in Plain |-> IF f \in locks.plain THEN s.plain[f] ELSE r.plain[f]]
            key == IF locks.key \/ r.key = NoKey THEN s.key ELSE r.key
            policy == IF locks.policy \/ r.policy = Unowned THEN s.policy ELSE r.policy
<1>1. sel \in [Selections -> Texts] /\ plain \in [Plain -> Texts] /\ key \in Texts /\ policy \in Texts
  BY DEF Values, Files
<1>2. _pending_effective_view(r) = [s EXCEPT !.sel = sel, !.plain = plain, !.key = key,
                                             !.policy = policy]
  BY DEF _pending_effective_view
<1>3. /\ \A f \in Selections : sel[f] = IF f \in locks.sel \/ r.sel[f] = Unowned
                                        THEN s.sel[f] ELSE r.sel[f]
      /\ \A f \in Plain : plain[f] = IF f \in locks.plain THEN s.plain[f] ELSE r.plain[f]
  OBVIOUS
<1>4. s \in Values
  OBVIOUS
<1>. HIDE DEF sel, plain, s
<1>5. /\ _pending_effective_view(r) \in Values
      /\ _pending_effective_view(r).sel = sel /\ _pending_effective_view(r).plain = plain
      /\ _pending_effective_view(r).key = key /\ _pending_effective_view(r).policy = policy
  BY <1>1, <1>2, <1>4 DEF Values
<1>q. QED
  BY <1>3, <1>5 DEF s


\* The values the next start loads from a record the product wrote.
LEMMA NextFields ==
    ASSUME NEW g \in Groups, NEW e \in Envs, NEW r \in Files, Writable(g, e, r)
    PROVE  LET next == load_settings(g, e, r)
               locks == Locks(e)
           IN /\ \A f \in Plain : next.plain[f] = IF f \in locks.plain THEN e.plain[f] ELSE r.plain[f]
              /\ next.key = IF locks.key THEN e.key
                            ELSE IF r.key = NoKey THEN Base(e).key ELSE r.key
              /\ \A f \in locks.sel : e.sel[f] # "none" => next.sel[f] = e.sel[f]
              /\ \A f \in Selections \ locks.sel : /\ next.sel[f] = r.sel[f]
                                                   /\ next.approved[f] = {r.sel[f]}
              /\ next.policy = IF locks.policy THEN e.policy
                               ELSE IF r.policy # Unowned THEN r.policy ELSE next.policy
              /\ g = "generation" => next.policy = Base(e).policy
<1>. DEFINE next == load_settings(g, e, r)
<1>1. e \in Environments
  BY SettingsAssumption
<1>2. Yaml.key = "Y" /\ Yaml.policy = "local"
  BY DEF Yaml
<1>3. Base(e).key = Over("Y", e.key) /\ Base(e).policy = Over("local", e.policy)
  BY <1>2, YamlIsTyped, WithEnvFields DEF Base
<1>4. r.saved /\ r.key \in WrittenKeys /\ (g = "generation" => r.policy = Unowned)
  BY DEF Writable
<1>5. \A f \in Selections : r.sel[f] = Unowned <=> f \in Locks(e).sel
  BY DEF Writable
<1>6. \A f \in Plain : f \in Locks(e).plain \/ r.plain[f] # Unowned
  BY DEF Writable
<1>. DEFINE Fields(n) ==
       /\ \A f \in Plain : n.plain[f] = IF f \in Locks(e).plain THEN e.plain[f] ELSE r.plain[f]
       /\ n.key = IF Locks(e).key THEN e.key ELSE IF r.key = NoKey THEN Base(e).key ELSE r.key
       /\ \A f \in Locks(e).sel : e.sel[f] # "none" => n.sel[f] = e.sel[f]
       /\ \A f \in Selections \ Locks(e).sel : n.sel[f] = r.sel[f] /\ n.approved[f] = {r.sel[f]}
       /\ n.policy = IF Locks(e).policy THEN e.policy
                     ELSE IF r.policy # Unowned THEN r.policy ELSE n.policy
       /\ g = "generation" => n.policy = Base(e).policy
<1>7. CASE e.mode = "user"
  <2>1. next = Overlay(g, Base(e), r)
    BY <1>7 DEF load_settings, Base
  <2>. HIDE DEF next
  <2>2. /\ \A f \in Selections : next.sel[f] = Over(Base(e).sel[f], r.sel[f])
        /\ \A f \in Selections : r.sel[f] # Unowned => next.approved[f] = {r.sel[f]}
        /\ \A f \in Plain : next.plain[f] = Over(Base(e).plain[f], r.plain[f])
        /\ next.key = IF r.key = NoKey THEN Base(e).key ELSE r.key
        /\ g = "generation" => next.policy = Base(e).policy
        /\ g # "generation" /\ r.policy # Unowned => next.policy = r.policy
    BY <1>4, <2>1, BaseIsTyped, OverlayFields
  <2>3. Locks(e) = [sel |-> {}, plain |-> {}, key |-> FALSE, policy |-> FALSE]
    BY <1>7 DEF Locks
  <2>4. Fields(next)
    BY <1>4, <1>5, <1>6, <2>2, <2>3 DEF Over, Unowned
  <2>q. QED
    BY <2>4 DEF next
<1>8. CASE e.mode = "operator"
  <2>. DEFINE low == Overlay(g, Yaml, r)
  <2>1. next = WithEnv(low, e)
    BY <1>8 DEF load_settings
  <2>2. /\ low \in Values
        /\ \A f \in Selections : low.sel[f] = Over(Yaml.sel[f], r.sel[f])
        /\ \A f \in Selections : r.sel[f] # Unowned => low.approved[f] = {r.sel[f]}
        /\ \A f \in Plain : low.plain[f] = Over(Yaml.plain[f], r.plain[f])
        /\ low.key = IF r.key = NoKey THEN "Y" ELSE r.key
        /\ g = "generation" => low.policy = "local"
        /\ g # "generation" /\ r.policy # Unowned => low.policy = r.policy
    BY <1>2, <1>4, YamlIsTyped, OverlayFields
  <2>. HIDE DEF low, next
  <2>3. /\ \A f \in Selections : next.sel[f] = Over(low.sel[f], e.sel[f])
        /\ \A f \in Selections : f \notin e.appr => next.approved[f] = low.approved[f]
        /\ \A f \in Plain : next.plain[f] = Over(low.plain[f], e.plain[f])
        /\ next.key = Over(low.key, e.key) /\ next.policy = Over(low.policy, e.policy)
    BY <2>1, <2>2, WithEnvFields
  <2>4. /\ Locks(e).sel = {f \in Selections : e.sel[f] # "none"} \cup e.appr
        /\ Locks(e).plain = {f \in Plain : e.plain[f] # "none"}
        /\ Locks(e).key = (e.key # "none") /\ Locks(e).policy = (e.policy # "none")
        /\ e.appr \subseteq Selections
    BY <1>1, <1>8 DEF Locks, Environments
  <2>5. \A f \in Plain : next.plain[f] = IF f \in Locks(e).plain THEN e.plain[f] ELSE r.plain[f]
    BY <1>6, <2>2, <2>3, <2>4 DEF Over, Unowned
  <2>6. \A f \in Selections \ Locks(e).sel : next.sel[f] = r.sel[f] /\ next.approved[f] = {r.sel[f]}
    BY <1>5, <2>2, <2>3, <2>4 DEF Over, Unowned
  <2>7. \A f \in Locks(e).sel : e.sel[f] # "none" => next.sel[f] = e.sel[f]
    BY <2>3, <2>4 DEF Over
  <2>8. next.key = IF Locks(e).key THEN e.key ELSE IF r.key = NoKey THEN Base(e).key ELSE r.key
    BY <1>3, <2>2, <2>3, <2>4 DEF Over
  <2>9. /\ next.policy = IF Locks(e).policy THEN e.policy
                         ELSE IF r.policy # Unowned THEN r.policy ELSE next.policy
        /\ g = "generation" => next.policy = Base(e).policy
    BY <1>3, <1>4, <2>2, <2>3, <2>4 DEF Over, Unowned
  <2>q. QED
    BY <2>5, <2>6, <2>7, <2>8, <2>9 DEF next
<1>9. e.mode \in {"user", "operator"}
  BY <1>1 DEF Environments
<1>q. QED
  BY <1>7, <1>8, <1>9

\* A save announces what the next start loads.
LEMMA ToldIsLoaded ==
    ASSUME group \in Groups, env \in Envs, active.s \in Values, NEW r \in Files,
           Writable(group, env, r), Running(group, env, active.s, r.key)
    PROVE  LET next == load_settings(group, env, r)
               told == _pending_effective_view(r)
           IN /\ next.plain = told.plain /\ next.key = told.key
              /\ \A f \in Selections : ApprovalOnly(f) \/ next.sel[f] = told.sel[f]
              /\ PolicyOrphaned \/ next.policy = told.policy
<1>. DEFINE next == load_settings(group, env, r)
            told == _pending_effective_view(r)
            locks == Locks(env)
<1>1. env \in Environments
  BY SettingsAssumption
<1>2. next \in Values /\ told \in Values
  BY LoadedIsRunning, PendingFields DEF Writable
<1>3. /\ \A f \in Plain : next.plain[f] = IF f \in locks.plain THEN env.plain[f] ELSE r.plain[f]
      /\ next.key = IF locks.key THEN env.key ELSE IF r.key = NoKey THEN Base(env).key ELSE r.key
      /\ \A f \in locks.sel : env.sel[f] # "none" => next.sel[f] = env.sel[f]
      /\ \A f \in Selections \ locks.sel : next.sel[f] = r.sel[f]
      /\ next.policy = IF locks.policy THEN env.policy
                       ELSE IF r.policy # Unowned THEN r.policy ELSE next.policy
      /\ group = "generation" => next.policy = Base(env).policy
  BY NextFields
<1>4. /\ \A f \in Selections : told.sel[f] = IF f \in locks.sel \/ r.sel[f] = Unowned
                                              THEN active.s.sel[f] ELSE r.sel[f]
      /\ \A f \in Plain : told.plain[f] = IF f \in locks.plain THEN active.s.plain[f]
                                          ELSE r.plain[f]
      /\ told.key = IF locks.key \/ r.key = NoKey THEN active.s.key ELSE r.key
      /\ told.policy = IF locks.policy \/ r.policy = Unowned THEN active.s.policy ELSE r.policy
  BY PendingFields
<1>. HIDE DEF next, told
<1>5. next.plain = told.plain
  <2>1. \A f \in Plain : next.plain[f] = told.plain[f]
    BY <1>3, <1>4 DEF Running
  <2>q. QED
    BY <1>2, <2>1 DEF Values
<1>6. next.key = told.key
  BY <1>3, <1>4 DEF Running
<1>7. ASSUME NEW f \in Selections, ~ApprovalOnly(f) PROVE next.sel[f] = told.sel[f]
  <2>1. f \in locks.sel => env.sel[f] # "none"
    BY <1>1, <1>7 DEF ApprovalOnly, Locks, Environments
  <2>2. f \notin locks.sel => r.sel[f] # Unowned
    BY DEF Writable
  <2>q. QED
    BY <1>3, <1>4, <2>1, <2>2 DEF Running
<1>8. ASSUME ~PolicyOrphaned PROVE next.policy = told.policy
  <2>1. CASE locks.policy \/ r.policy # Unowned
    BY <1>3, <1>4, <2>1 DEF Running
  <2>2. CASE ~locks.policy /\ r.policy = Unowned
    <3>1. "base_url" \notin locks.sel
      BY <1>8, <2>2 DEF PolicyOrphaned
    <3>2. r.sel["base_url"] # Unowned
      BY <3>1, SettingsAssumption DEF Writable
    <3>3. group = "generation"
      BY <2>2, <3>2 DEF Writable, infer_authoring_network_policy, Unowned
    <3>q. QED
      BY <1>3, <1>4, <2>2, <3>3 DEF Running
  <2>q. QED
    BY <2>1, <2>2
<1>q. QED
  BY <1>5, <1>6, <1>7, <1>8 DEF next, told


\* Only the save that moves says anything new.
LEMMA OthersKeep ==
    ASSUME SettingsInv, UNCHANGED <<group, env, active>>, NEW c \in Clients, save'[c] = save[c]
    PROVE  SaveOK(save[c])'
<1>1. \A r : _pending_effective_view(r)' = _pending_effective_view(r)
  BY DEF _pending_effective_view
<1>2. SaveOK(save[c])
  BY DEF SettingsInv
<1>q. QED
  BY <1>1, <1>2 DEF SaveOK, Underway

LEMMA RequestIsTyped ==
    ASSUME NEW req \in Requests
    PROVE  /\ req \in SaveRequests /\ \A f \in Selections : req.sel[f] \in Texts /\ req.sel[f] # Unowned
           /\ \A f \in Plain : req.plain[f] \in Texts /\ req.plain[f] # Unowned
           /\ req.action \in Actions
<1>1. req \in SaveRequests
  BY SettingsAssumption
<1>q. QED
  BY <1>1 DEF SaveRequests

LEMMA LocksAreTyped ==
    ASSUME NEW e \in Envs
    PROVE  Locks(e).sel \subseteq Selections /\ Locks(e).plain \subseteq Plain
<1>1. e \in Environments
  BY SettingsAssumption
<1>q. QED
  BY <1>1 DEF Locks, Environments

\* The record a save is about to write.
LEMMA RecordIsWritable ==
    ASSUME SettingsInv, active.state = "up", NEW req \in Requests,
           LET r == Record(Locks(env), req) IN
           PolicyAllows(env.strict, r.sel["base_url"])
    PROVE  LET r == Record(Locks(env), req) IN
           /\ r \in Files /\ Writable(group, env, r) /\ Running(group, env, active.s, r.key)
           /\ req.action = "keep" => r.key = file.key
<1>. DEFINE locks == Locks(env)
            r == Record(locks, req)
            sel == OwnedSelection(locks, req)
            plain == [f \in Plain |-> IF f \in locks.plain THEN active.s.plain[f] ELSE req.plain[f]]
            key == KeyToWrite(req.action, file, active.s)
<1>1. /\ SettingsTypeOK /\ Running(group, env, active.s, file.key) /\ file.key \in WrittenKeys
      /\ active.s \in Values /\ group \in Groups /\ env \in Envs
  BY DEF SettingsInv, SettingsTypeOK, BootstrapKeyNotWritten, WrittenKeys
<1>2. sel \in [Selections -> Texts] /\ \A f \in Selections : sel[f] = Unowned <=> f \in locks.sel
  BY RequestIsTyped, SettingsAssumption DEF OwnedSelection, Unowned
<1>3. plain \in [Plain -> Texts] /\ \A f \in Plain : f \in locks.plain \/ plain[f] # Unowned
  BY <1>1, RequestIsTyped DEF Values
<1>4. /\ key \in WrittenKeys /\ key \in Texts
      /\ req.action = "keep" => key = file.key /\ (req.action # "keep" => key # NoKey)
  BY <1>1, RequestIsTyped, SettingsAssumption DEF KeyToWrite, WrittenKeys, Actions, NoKey
<1>5. req.action # "keep" => key # NoKey
  BY RequestIsTyped DEF KeyToWrite, Actions, NoKey
<1>6. PersistPolicy(locks, sel) \in Texts
  BY SettingsAssumption DEF PersistPolicy, infer_authoring_network_policy, Unowned
<1>7. r = [saved |-> TRUE, sel |-> sel, policy |-> PersistPolicy(locks, sel), plain |-> plain,
           key |-> key]
  BY DEF Record
<1>8. PersistPolicy(locks, sel) = IF group = "generation" \/ locks.policy \/ sel["base_url"] = Unowned
                                  THEN Unowned ELSE infer_authoring_network_policy(sel["base_url"])
  BY DEF PersistPolicy
<1>9. PolicyAllows(env.strict, r.sel["base_url"])
  OBVIOUS
<1>. HIDE DEF sel, plain, key, r
<1>10. r \in Files
  BY <1>2, <1>3, <1>4, <1>6, <1>7 DEF Files
<1>11. Writable(group, env, r)
  BY <1>2, <1>3, <1>4, <1>7, <1>8, <1>9 DEF Writable
<1>12. Running(group, env, active.s, key)
  BY <1>1, <1>4, <1>5 DEF Running
<1>q. QED
  BY <1>4, <1>7, <1>10, <1>11, <1>12 DEF r

LEMMA NoSaveIsTyped == NoSave \in Saves /\ ~Underway(NoSave)
BY YamlIsTyped, NoFileIsTyped, SettingsAssumption DEF NoSave, Saves, Actions, Underway, NoKey

\* The settings file and its readers after a step that writes no file.
LEMMA FileKept ==
    ASSUME SettingsInv, UNCHANGED <<group, env, active, file>>, save' \in [Clients -> Saves],
           \A c \in Clients : SaveOK(save[c])'
    PROVE  SettingsInv'
BY DEF SettingsInv, SettingsTypeOK, OwnFileLoads, BootstrapKeyNotWritten

LEMMA BeginSaveStep ==
    ASSUME SettingsInv, NEW c \in Clients, NEW req \in Requests, BeginSave(c, req)
    PROVE  SettingsInv'
<1>. DEFINE r == Record(Locks(env), req)
            refused == [NoSave EXCEPT !.pc = "refused"]
            checked == [NoSave EXCEPT !.pc = "checked", !.action = req.action, !.record = r,
                                      !.keySeen = file.key,
                                      !.probed = req.plain["enabled"] = "on"
                                                   /\ \E f \in Selections : r.sel[f] # Unowned]
<1>1. /\ UNCHANGED <<group, env, active, file>> /\ active.state = "up"
      /\ save \in [Clients -> Saves] /\ file \in Files /\ \A d \in Clients : SaveOK(save[d])
  BY DEF BeginSave, SettingsInv, SettingsTypeOK
<1>2. refused \in Saves /\ ~Underway(refused)
  BY NoSaveIsTyped DEF Saves, Underway
<1>3. CASE save' = [save EXCEPT ![c] = refused]
  <2>. HIDE DEF refused
  <2>1. save' \in [Clients -> Saves] /\ save'[c] = refused
    BY <1>1, <1>2, <1>3
  <2>2. SaveOK(save[c])'
    BY <1>2, <2>1 DEF SaveOK
  <2>3. \A d \in Clients \ {c} : SaveOK(save[d])'
    BY <1>1, <1>3, OthersKeep
  <2>q. QED
    BY <1>1, <2>1, <2>2, <2>3, FileKept
<1>4. CASE /\ save' = [save EXCEPT ![c] = checked]
           /\ PolicyAllows(env.strict, r.sel["base_url"])
  <2>1. /\ r \in Files /\ Writable(group, env, r) /\ Running(group, env, active.s, r.key)
        /\ req.action = "keep" => r.key = file.key
    BY <1>1, <1>4, RecordIsWritable
  <2>2. req.action \in Actions
    BY RequestIsTyped
  <2>. HIDE DEF r
  <2>3. /\ checked \in Saves /\ checked.pc = "checked" /\ checked.record = r
        /\ checked.action = req.action /\ checked.keySeen = file.key
    BY <1>1, <2>1, <2>2, NoSaveIsTyped DEF Saves, Files
  <2>. HIDE DEF checked
  <2>4. save' \in [Clients -> Saves] /\ save'[c] = checked
    BY <1>1, <1>4, <2>3
  <2>5. SaveOK(save[c])'
    BY <1>1, <2>1, <2>3, <2>4 DEF SaveOK
  <2>6. \A d \in Clients \ {c} : SaveOK(save[d])'
    BY <1>1, <1>4, OthersKeep
  <2>q. QED
    BY <1>1, <2>4, <2>5, <2>6, FileKept
<1>q. QED
  BY <1>3, <1>4 DEF BeginSave

LEMMA AnsweredStep ==
    ASSUME SettingsInv, NEW c \in Clients, Answered(c)
    PROVE  SettingsInv'
<1>1. /\ UNCHANGED <<group, env, active, file>> /\ save' = [save EXCEPT ![c] = NoSave]
      /\ save \in [Clients -> Saves]
  BY DEF Answered, SettingsInv, SettingsTypeOK
<1>2. save' \in [Clients -> Saves] /\ save'[c] = NoSave
  BY <1>1, NoSaveIsTyped
<1>3. SaveOK(save[c])'
  BY <1>2, NoSaveIsTyped DEF SaveOK
<1>4. \A d \in Clients \ {c} : SaveOK(save[d])'
  BY <1>1, OthersKeep
<1>q. QED
  BY <1>1, <1>2, <1>3, <1>4, FileKept

LEMMA FinishSaveStep ==
    ASSUME SettingsInv, NEW c \in Clients, NEW ok \in BOOLEAN, FinishSave(c, ok)
    PROVE  SettingsInv'
<1>. DEFINE r == save[c].record
            refused == [NoSave EXCEPT !.pc = "refused"]
            told == _pending_effective_view(r)
            done == [save[c] EXCEPT !.pc = "saved", !.pending = told]
<1>1. /\ UNCHANGED <<group, env, active>> /\ active.state = "up" /\ save[c].pc = "checked"
      /\ save \in [Clients -> Saves] /\ save[c] \in Saves /\ file \in Files /\ active.s \in Values
      /\ SettingsTypeOK
  BY DEF FinishSave, SettingsInv, SettingsTypeOK
<1>2. \A d \in Clients \ {c} : save'[d] = save[d]
  BY <1>1 DEF FinishSave
<1>3. \A d \in Clients \ {c} : SaveOK(save[d])'
  BY <1>1, <1>2, OthersKeep
<1>4. CASE UNCHANGED file /\ save' = [save EXCEPT ![c] = refused]
  <2>1. refused \in Saves /\ ~Underway(refused)
    BY NoSaveIsTyped DEF Saves, Underway
  <2>. HIDE DEF refused
  <2>2. save' \in [Clients -> Saves] /\ save'[c] = refused
    BY <1>1, <1>4, <2>1
  <2>3. SaveOK(save[c])'
    BY <2>1, <2>2 DEF SaveOK
  <2>q. QED
    BY <1>1, <1>3, <1>4, <2>2, <2>3, FileKept
<1>5. CASE file' = r /\ save' = [save EXCEPT ![c].pc = "saved", ![c].pending = told]
  <2>1. r \in Files /\ Writable(group, env, r) /\ Running(group, env, active.s, r.key)
    BY <1>1 DEF SettingsInv, SaveOK, Underway, Saves
  <2>2. told \in Values
    BY <1>1, <2>1, PendingFields
  <2>3. save' = [save EXCEPT ![c] = done]
    BY <1>1, <1>5
  <2>4. done \in Saves /\ done.pc = "saved" /\ done.record = r /\ done.pending = told
    BY <1>1, <2>1, <2>2 DEF Saves
  <2>5. \A z : _pending_effective_view(z)' = _pending_effective_view(z)
    BY <1>1 DEF _pending_effective_view
  <2>. HIDE DEF done
  <2>6. save' \in [Clients -> Saves] /\ save'[c] = done
    BY <1>1, <2>3, <2>4
  <2>7. /\ active'.state = "up" /\ Writable(group', env', save'[c].record)
        /\ Running(group', env', active'.s, save'[c].record.key)
        /\ save'[c].pc = "saved"
    BY <1>1, <2>1, <2>4, <2>6
  <2>8. SaveOK(save[c])'
    <3>1. save'[c].pending = _pending_effective_view(save'[c].record)
      BY <2>4, <2>6
    <3>q. QED
      BY <2>5, <2>7, <3>1 DEF SaveOK
  <2>9. /\ file' \in Files /\ file'.saved /\ file'.key \in WrittenKeys
        /\ PolicyAllows(env.strict, file'.sel["base_url"])
        /\ Running(group, env, active.s, file'.key)
    BY <1>5, <2>1 DEF Writable
  <2>10. OwnFileLoads' /\ BootstrapKeyNotWritten'
    BY <1>1, <2>9 DEF OwnFileLoads, BootstrapKeyNotWritten, WrittenKeys, PolicyAllows
  <2>11. SettingsTypeOK'
    BY <1>1, <2>6, <2>9 DEF SettingsTypeOK
  <2>q. QED
    BY <1>1, <1>3, <2>8, <2>9, <2>10, <2>11 DEF SettingsInv
<1>q. QED
  BY <1>4, <1>5 DEF FinishSave


LEMMA RestartStep ==
    ASSUME SettingsInv, NEW e \in Envs, Restart(e)
    PROVE  SettingsInv'
<1>1. /\ UNCHANGED <<group, file>> /\ env' = e /\ save' = [c \in Clients |-> NoSave]
      /\ group \in Groups /\ file \in Files /\ (file = NoFile \/ file.saved)
      /\ BootstrapKeyNotWritten
  BY DEF Restart, SettingsInv, SettingsTypeOK
<1>2. save' \in [Clients -> Saves] /\ \A c \in Clients : SaveOK(save[c])'
  BY <1>1, NoSaveIsTyped DEF SaveOK
<1>3. CASE LoadFails(e, file) /\ active' = [state |-> "config_error", s |-> Yaml]
  BY <1>1, <1>2, <1>3, YamlIsTyped
     DEF SettingsInv, SettingsTypeOK, OwnFileLoads, BootstrapKeyNotWritten, LoadFails, PolicyAllows
<1>4. CASE /\ ~LoadFails(e, file)
           /\ active' = [state |-> "up", s |-> load_settings(group, e, file)]
  <2>1. active'.s \in Values /\ Running(group, e, active'.s, file.key) /\ active'.state = "up"
    BY <1>1, <1>4, LoadedIsRunning
  <2>2. active' \in [state : {"up", "config_error"}, s : Values]
    BY <1>4, <2>1
  <2>3. OwnFileLoads' /\ BootstrapKeyNotWritten'
    BY <1>1, <1>4, <2>1 DEF OwnFileLoads, BootstrapKeyNotWritten, LoadFails, PolicyAllows
  <2>q. QED
    BY <1>1, <1>2, <2>1, <2>2, <2>3 DEF SettingsInv, SettingsTypeOK
<1>q. QED
  BY <1>3, <1>4 DEF Restart

LEMMA SettingsStart == SettingsInit => SettingsInv
<1>. SUFFICES ASSUME SettingsInit PROVE SettingsInv
  OBVIOUS
<1>1. /\ group \in Groups /\ env \in Envs /\ file = NoFile /\ NoFile \in Files
      /\ active = [state |-> "up", s |-> load_settings(group, env, NoFile)]
      /\ save = [c \in Clients |-> NoSave]
  BY NoFileIsTyped DEF SettingsInit, Groups
<1>2. active.s \in Values /\ Running(group, env, active.s, file.key) /\ active.state = "up"
  BY <1>1, LoadedIsRunning
<1>3. SettingsTypeOK
  BY <1>1, <1>2, NoSaveIsTyped DEF SettingsTypeOK
<1>4. \A c \in Clients : SaveOK(save[c])
  BY <1>1, NoSaveIsTyped DEF SaveOK
<1>5. NoFile.sel["base_url"] = "none" /\ NoFile.key = NoKey
  BY SettingsAssumption DEF NoFile, Unowned
<1>6. OwnFileLoads /\ BootstrapKeyNotWritten
  BY <1>1, <1>2, <1>5 DEF OwnFileLoads, BootstrapKeyNotWritten
<1>q. QED
  BY <1>1, <1>2, <1>3, <1>4, <1>6 DEF SettingsInv

\* The invariant of the product settings (save_generation_settings,
\* save_authoring_settings, load_settings) holds in every state, for any
\* environments, requests and number of overlapping saves.
THEOREM SettingsInvariant == SettingsSpec => []SettingsInv
<1>1. SettingsInit => SettingsInv
  BY SettingsStart
<1>2. SettingsInv /\ [SettingsNext]_settingsVars => SettingsInv'
  <2>. SUFFICES ASSUME SettingsInv, [SettingsNext]_settingsVars PROVE SettingsInv'
    OBVIOUS
  <2>1. CASE \E c \in Clients : \/ \E req \in Requests : BeginSave(c, req)
                                \/ \E ok \in BOOLEAN : FinishSave(c, ok)
                                \/ Answered(c)
    BY <2>1, BeginSaveStep, FinishSaveStep, AnsweredStep
  <2>2. CASE \E e \in Envs : Restart(e)
    BY <2>2, RestartStep
  <2>3. CASE UNCHANGED settingsVars
    <3>1. UNCHANGED <<group, env, active, file, save>> /\ save' \in [Clients -> Saves]
      BY <2>3 DEF settingsVars, SettingsInv, SettingsTypeOK
    <3>2. \A c \in Clients : SaveOK(save[c])'
      BY <3>1, OthersKeep
    <3>q. QED
      BY <3>1, <3>2, FileKept
  <2>q. QED
    BY <2>1, <2>2, <2>3 DEF SettingsNext
<1>q. QED
  BY <1>1, <1>2, PTL DEF SettingsSpec

\* Whatever saves overlap and restarts intervene: what a save announces and
\* what it probed is what the next start loads, no key of the operator's
\* reaches the file, and a file of the product stops a start only under a
\* stricter policy.
THEOREM SettingsHold == SettingsSpec => []SettingsAreSound
<1>1. SettingsInv => SettingsAreSound
  <2>. SUFFICES ASSUME SettingsInv PROVE SettingsAreSound
    OBVIOUS
  <2>1. ASSUME NEW c \in Clients, save[c].pc = "saved"
        PROVE  /\ save[c].record \in Files /\ Writable(group, env, save[c].record)
               /\ Running(group, env, active.s, save[c].record.key)
               /\ save[c].pending = _pending_effective_view(save[c].record)
               /\ group \in Groups /\ env \in Envs /\ active.s \in Values
    BY <2>1 DEF SettingsInv, SettingsTypeOK, SaveOK, Underway, Saves
  <2>2. PendingIsLoaded
    BY <2>1, ToldIsLoaded DEF PendingIsLoaded
  <2>3. ProbedIsApproved
    <3>. SUFFICES ASSUME NEW c \in Clients, save[c].pc = "saved", NEW f \in Selections,
                         save[c].record.sel[f] # Unowned
                  PROVE  LET next == load_settings(group, env, save[c].record)
                         IN next.sel[f] \in next.approved[f]
      BY DEF ProbedIsApproved
    <3>1. f \notin Locks(env).sel
      BY <2>1 DEF Writable
    <3>q. QED
      BY <2>1, <3>1, NextFields
  <2>q. QED
    BY <2>2, <2>3 DEF SettingsInv, SettingsAreSound
<1>q. QED
  BY <1>1, SettingsInvariant, PTL

\* A save is written by the step that ends it.
LEMMA SavedByFinish ==
    ASSUME SettingsInv, SettingsNext, NEW c \in Clients, save[c].pc = "checked",
           save'[c].pc = "saved"
    PROVE  file' = save[c].record /\ Writable(group, env, save[c].record)
<1>1. save \in [Clients -> Saves] /\ Writable(group, env, save[c].record)
  BY DEF SettingsInv, SettingsTypeOK, SaveOK, Underway
<1>2. ~\E e \in Envs : Restart(e)
  BY <1>1 DEF Restart, NoSave
<1>3. ASSUME NEW d \in Clients, NEW req \in Requests, BeginSave(d, req) PROVE FALSE
  BY <1>1, <1>3 DEF BeginSave, NoSave
<1>4. ASSUME NEW d \in Clients, Answered(d) PROVE FALSE
  BY <1>1, <1>4 DEF Answered, NoSave
<1>5. PICK d \in Clients : \E ok \in BOOLEAN : FinishSave(d, ok)
  BY <1>2, <1>3, <1>4 DEF SettingsNext
<1>6. d = c
  BY <1>1, <1>5 DEF FinishSave
<1>7. save' # [save EXCEPT ![c] = [NoSave EXCEPT !.pc = "refused"]]
  BY <1>1 DEF NoSave
<1>q. QED
  BY <1>1, <1>5, <1>6, <1>7 DEF FinishSave

\* A save that keeps the key never changes the one it read, and a locked
\* selection is never the product's after a save (_resolve_api_key_for_write,
\* persist_base_url, persist_model).
THEOREM SavesRespect == SettingsSpec => [][KeepKeepsKey /\ LockedIsNotOwned]_settingsVars
<1>1. SettingsInv /\ [SettingsNext]_settingsVars => [KeepKeepsKey /\ LockedIsNotOwned]_settingsVars
  <2>. SUFFICES ASSUME SettingsInv, SettingsNext PROVE KeepKeepsKey /\ LockedIsNotOwned
    OBVIOUS
  <2>1. KeepKeepsKey
    BY SavedByFinish DEF KeepKeepsKey, SettingsInv, SaveOK, Underway
  <2>2. LockedIsNotOwned
    <3>1. Locks(env).sel \subseteq Selections
      BY LocksAreTyped DEF SettingsInv, SettingsTypeOK
    <3>q. QED
      BY <3>1, SavedByFinish DEF LockedIsNotOwned, Writable
  <2>q. QED
    BY <2>1, <2>2
<1>q. QED
  BY <1>1, SettingsInvariant, PTL DEF SettingsSpec

\* Serving and settings side by side: each behaves as it does alone, so every
\* decisive step finds what it read before still true.
THEOREM ServingIsTimely == Spec => DecidedWhileCurrent
<1>. DEFINE Timely == BoundWhileCurrent /\ KeepKeepsKey /\ LockedIsNotOwned
            Saved == KeepKeepsKey /\ LockedIsNotOwned
<1>1. Spec => ServeSpec
  <2>1. Init => ServeInit
    BY DEF Init
  <2>2. [Next]_<<serveVars, settingsVars, part>> => [ServeNext]_serveVars
    BY DEF Next
  <2>q. QED
    BY <2>1, <2>2, PTL DEF Spec, ServeSpec
<1>2. Spec => SettingsSpec
  <2>1. Init => SettingsInit
    BY DEF Init
  <2>2. [Next]_<<serveVars, settingsVars, part>> => [SettingsNext]_settingsVars
    BY DEF Next
  <2>q. QED
    BY <2>1, <2>2, PTL DEF Spec, SettingsSpec
<1>3. UNCHANGED serveVars => BoundWhileCurrent
  BY DEF serveVars, BoundWhileCurrent
<1>4. UNCHANGED settingsVars => Saved
  BY DEF settingsVars, KeepKeepsKey, LockedIsNotOwned
<1>5. [BoundWhileCurrent]_serveVars /\ [Saved]_settingsVars => [Timely]_<<serveVars, settingsVars>>
  BY <1>3, <1>4
<1>q. QED
  BY <1>1, <1>2, <1>5, BoundHolds, SavesRespect, PTL DEF DecidedWhileCurrent, Timely, Saved
=============================================================================
