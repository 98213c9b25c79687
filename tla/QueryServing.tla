---------------------------- MODULE QueryServing ----------------------------
(***************************************************************************)
(* Questions served by the product: a corpus query, a workspace query and  *)
(* a conversation turn bind a published snapshot, borrow its runtime from  *)
(* the shared cache, run the grounded answer and leave a durable trace.    *)
(* Workspaces are mutated, snapshots published and the cache closed while  *)
(* they run.  What the grounded answer itself does is AnswerPipeline.      *)
(***************************************************************************)
EXTENDS Integers, Sequences, FiniteSets

CONSTANTS
  Queries,     \* threads that serve one question each
  History,     \* the records a workspace goes through, one per revision
  MaxRetained, \* MAX_RETAINED_TRACES, MAX_RETAINED_CONVERSATION_TRACES
  MaxAge,      \* MAX_TRACE_AGE, in ticks of the clock
  MaxClock,
  MaxPrior     \* MAX_PRIOR_ROLE_TURNS

(* A record: its status, the snapshot it serves ("none" for none) and the    *)
(* document of each active source ("none" for an inactive one).              *)
ASSUME ServeAssumption ==
  /\ IsFiniteSet(Queries) /\ MaxRetained \in Nat \ {0} /\ MaxClock \in Nat
  /\ MaxAge \in Nat /\ MaxPrior \in Nat
  /\ Len(History) \in Nat \ {0} /\ DOMAIN History = 1 .. Len(History)
  /\ IsFiniteSet(DOMAIN History[1].sources)
  /\ \A r \in DOMAIN History :
       /\ DOMAIN History[r].sources = DOMAIN History[1].sources
       /\ History[r].status = "active" => History[r].snapshot # "none"

SourceIds == DOMAIN History[1].sources
Snaps     == {History[r].snapshot : r \in DOMAIN History} \ {"none"}
Docs      == (UNION {{History[r].sources[s] : s \in SourceIds} : r \in DOMAIN History}) \ {"none"}
Kinds     == {"product", "workspace", "conversation"}
Stores    == {"query", "conversation"}
Success   == {"answered", "abstained"}  \* abstained: insufficient_evidence, model_abstain
Statuses  == Success \cup {"none", "clarification_required"}
Codes     == {"none", "request_invalid", "corpus_not_ready", "workspace_not_ready",
              "source_unknown", "workspace_conflict", "generation_failed",
              "generation_unavailable", "runtime_not_ready", "snapshot_unavailable",
              "request_cancelled", "internal_error", "citation_invalid"}
Steps     == {"idle", "read", "scoped", "resolver", "bind", "held", "execute", "write", "retain",
              "enrich", "write_turn", "retain_turn", "answered", "failed"}

VARIABLES
  revision,  \* the revision of the workspace
  published, \* the snapshot current.json of its corpus names
  cache,     \* closed; latest acquired; per snapshot: entry state and ref_count
  query,     \* each thread
  traces,    \* each store: the trace files
  committed, \* each store: every trace ever written (history)
  clock

serveVars == <<revision, published, cache, query, traces, committed, clock>>

NoEntry == [state |-> "none", refs |-> 0]
Fresh   == [pc |-> "idle", kind |-> "product", turns |-> 0, rev |-> 0, snap |-> "none",
            selected |-> {}, docs |-> {}, at |-> 0, cat |-> 0, status |-> "none", code |-> "none",
            cited |-> {}, rows |-> {}, traced |-> FALSE, doomed |-> {}]

TraceFiles == [by: Queries \cup {"earlier"}, at: Int, status: Statuses, code: Codes,
               query: BOOLEAN]
QueryRecords ==
  [pc: Steps, kind: Kinds, turns: Nat, rev: Nat, snap: Snaps \cup {"none"},
   selected: SUBSET SourceIds, docs: SUBSET Docs, at: Nat, cat: Nat, status: Statuses,
   code: Codes, cited: SUBSET Docs, rows: SUBSET (Docs \X SourceIds), traced: BOOLEAN,
   doomed: SUBSET TraceFiles]

Trace(q, x) == [by |-> q, at |-> x.at, status |-> x.status, code |-> x.code, query |-> x.traced]
Older == [by |-> "earlier", at |-> -1, status |-> "answered", code |-> "none", query |-> TRUE]

ServeInit ==
  /\ revision = 1 /\ published = History[1].snapshot /\ clock = 0
  /\ cache = [closed |-> FALSE, latest |-> "none", entry |-> [s \in Snaps |-> NoEntry]]
  /\ query = [q \in Queries |-> Fresh]
  /\ traces = [t \in Stores |-> IF t = "query" THEN {Older} ELSE {}] /\ committed = traces

Q(q, changes) == query' = [query EXCEPT ![q] = changes]
Failed(q, c) == [Fresh EXCEPT !.pc = "failed", !.code = c]
Fail(q, c) == Q(q, Failed(q, c))
AfterFailure == UNCHANGED <<revision, published, cache, traces, committed, clock>>
At(q, pc) == query[q].pc = pc

(* --- requests ---------------------------------------------------------- *)

(* validate_prior_turns: whole pairs, alternating from the user, bounded. *)
TurnsValid(roles) ==
  /\ Len(roles) <= MaxPrior /\ Len(roles) % 2 = 0
  /\ \A i \in DOMAIN roles : roles[i] = IF i % 2 = 1 THEN "user" ELSE "assistant"

(* run_conversation_turn: the request is checked before the workspace is read. *)
BeginTurn(q, roles) ==
  /\ At(q, "idle")
  /\ IF TurnsValid(roles)
     THEN Q(q, [Fresh EXCEPT !.pc = "read", !.kind = "conversation", !.turns = Len(roles)])
     ELSE Fail(q, "request_invalid")
  /\ AfterFailure

(* run_product_query, run_workspace_query: normalize_product_question refuses *)
(* an empty or overlong question before anything is resolved.                 *)
BeginQuery(q, kind, valid) ==
  /\ At(q, "idle")
  /\ IF valid THEN Q(q, [Fresh EXCEPT !.pc = "read", !.kind = kind])
     ELSE Fail(q, "request_invalid")
  /\ AfterFailure

(* publication.resolve: the corpus query takes whatever is current. *)
ResolveCurrent(q) ==
  /\ At(q, "read") /\ query[q].kind = "product"
  /\ IF published = "none" THEN Fail(q, "corpus_not_ready")
     ELSE Q(q, [query[q] EXCEPT !.pc = "bind", !.snap = published, !.docs = Docs])
  /\ AfterFailure

ActiveSources(rec) == {s \in SourceIds : rec.sources[s] # "none"}

(* The record is read once; _resolve_workspace_source_scope maps the selected *)
(* sources to documents of that record.                                       *)
ReadWorkspace(q, chosen) ==
  LET rec == History[revision]
      ids == IF chosen = {} THEN ActiveSources(rec) ELSE chosen IN
  /\ At(q, "read") /\ query[q].kind # "product"
  /\ \/ rec.status # "active" /\ Fail(q, "workspace_not_ready")
     \/ rec.status = "active" /\ ~(ids \subseteq ActiveSources(rec)) /\ Fail(q, "source_unknown")
     \/ /\ rec.status = "active" /\ ids \subseteq ActiveSources(rec)
        /\ Q(q, [query[q] EXCEPT !.pc = "scoped", !.rev = revision, !.snap = rec.snapshot,
                                 !.selected = ids, !.docs = {rec.sources[s] : s \in ids}])
  /\ AfterFailure

(* Mutant: the record is not read again. *)
NoRecheck(q) ==
  /\ At(q, "scoped") /\ query[q].kind = "workspace"
  /\ Q(q, [query[q] EXCEPT !.pc = "bind"])
  /\ AfterFailure

(* resolve_snapshot, then the second read of the record: a mutation in between *)
(* is a conflict.                                                              *)
Recheck(q) ==
  /\ At(q, "scoped") /\ query[q].kind = "workspace"
  /\ IF revision # query[q].rev \/ History[revision].snapshot # query[q].snap
     THEN Fail(q, "workspace_conflict") ELSE Q(q, [query[q] EXCEPT !.pc = "bind"])
  /\ AfterFailure

(* resolve_snapshot of a turn: its admitted binding is kept, whatever happens *)
(* to the workspace; the conversation trace is dated here.                    *)
AdmitTurn(q) ==
  /\ At(q, "scoped") /\ query[q].kind = "conversation"
  /\ Q(q, [query[q] EXCEPT !.pc = "resolver", !.cat = clock])
  /\ AfterFailure

(* parse_resolver_content accepts one exact object; try_deterministic_followup *)
(* only helps a referring question after a single user turn.                   *)
Resolution(turns, output, referring) ==
  CASE turns = 0                                             -> "bypassed"
    [] turns > 0 /\ output = "object"                        -> "resolved"
    [] turns = 2 /\ output # "object" /\ referring           -> "resolved"
    [] turns > 0 /\ output # "object" /\ ~(turns = 2 /\ referring) -> "clarification_required"

(* resolve_conversation_context.  A resolved question longer than a question   *)
(* may be is refused by the bound query (length: what came out).               *)
ResolveContext(q, output, referring, fits) ==
  LET r == Resolution(query[q].turns, output, referring) IN
  /\ At(q, "resolver")
  /\ \/ query[q].turns > 0 /\ output = "fault" /\ Fail(q, "generation_failed")
     \/ query[q].turns > 0 /\ output = "absent" /\ Fail(q, "generation_unavailable")
     \/ /\ query[q].turns = 0 \/ output \notin {"fault", "absent"}
        /\ \/ /\ r = "clarification_required"
              /\ Q(q, [query[q] EXCEPT !.pc = "write_turn", !.turns = 0, !.status = r])
           \/ /\ r # "clarification_required" /\ (fits \/ r = "bypassed")
              /\ Q(q, [query[q] EXCEPT !.pc = "bind", !.turns = 0])
           \/ r = "resolved" /\ ~fits /\ Fail(q, "request_invalid")
  /\ AfterFailure

(* --- query_runtime.py --------------------------------------------------- *)

(* Mutant: superseded entries are closed even when borrowed. *)
PruneBorrowed(c) ==
  [c EXCEPT !.entry = [s \in Snaps |-> IF s # c.latest THEN NoEntry ELSE c.entry[s]]]

(* _prune_idle_superseded: idle entries other than the latest acquired close. *)
_prune_idle_superseded(c) ==
  [closed |-> c.closed, latest |-> c.latest,
   entry |-> [s \in Snaps |-> IF c.entry[s].refs = 0 /\ s # c.latest THEN NoEntry ELSE c.entry[s]]]

(* checkpoint pre_bind may end the question (cancelled, or past its deadline); *)
(* acquire, under the cache's lock; _build_entry may find the structure store *)
(* of the snapshot unreadable, or no resources.                               *)
Acquire(q, builds) ==
  LET s == query[q].snap
      e == cache.entry[s]
      c == [closed |-> FALSE, latest |-> s,
            entry |-> [cache.entry EXCEPT ![s] = [state |-> "open", refs |-> e.refs + 1]]] IN
  /\ At(q, "bind")
  /\ \/ Fail(q, "request_cancelled") /\ UNCHANGED cache
     \/ cache.closed /\ Fail(q, "runtime_not_ready") /\ UNCHANGED cache
     \/ /\ ~cache.closed /\ e.state # "open" /\ ~builds
        /\ Fail(q, "snapshot_unavailable") /\ UNCHANGED cache
     \/ /\ ~cache.closed /\ (e.state = "open" \/ builds)
        /\ cache' = _prune_idle_superseded(c)
        /\ Q(q, [query[q] EXCEPT !.pc = "held"])
  /\ UNCHANGED <<revision, published, traces, committed, clock>>

(* release: the count goes down and superseded entries are pruned. *)
Released(c, s) ==
  LET e == c.entry[s]
      fewer == [state |-> e.state, refs |-> IF e.refs > 0 THEN e.refs - 1 ELSE 0]
      d == [closed |-> c.closed, latest |-> c.latest, entry |-> [c.entry EXCEPT ![s] = fewer]]
  IN IF c.closed THEN d ELSE _prune_idle_superseded(d)

(* checkpoint pre_trace may end it too, before a trace exists. *)
StartTrace(q, cancelled) ==
  /\ At(q, "held")
  /\ IF cancelled
     THEN /\ Fail(q, "request_cancelled")
          /\ cache' = Released(cache, query[q].snap)
     ELSE Q(q, [query[q] EXCEPT !.pc = "execute", !.at = clock]) /\ UNCHANGED cache
  /\ UNCHANGED <<revision, published, traces, committed, clock>>

(* The grounded answer and its projection: an answer cites documents in scope; *)
(* every fault becomes an error code, the closed runtime's included.           *)
Execute(q, status, code, cited) ==
  /\ At(q, "execute") /\ cited \subseteq query[q].docs
  /\ status \in Success \cup {"none"} /\ (status = "none") = (code # "none")
  /\ (status = "answered") = (cited # {})
  /\ cache.entry[query[q].snap].state = "closed" => code = "runtime_not_ready"
  /\ Q(q, [query[q] EXCEPT !.pc = "write", !.status = status, !.code = code, !.cited = cited])
  /\ AfterFailure

(* --- traces.py, conversation/traces.py ----------------------------------- *)

StoreOf(q) == IF At(q, "write") \/ At(q, "retain") THEN "query" ELSE "conversation"

(* The files a retention pass drops: all but the newest, by created_at (a tie *)
(* falls as the directory lists it).                                          *)
BeyondNewest(files) ==
  {d \in SUBSET files :
     /\ Cardinality(files \ d) <= MaxRetained
     /\ d # {} => Cardinality(files \ d) = MaxRetained
     /\ \A x \in d, y \in files \ d : x.at <= y.at}

(* commit: the file is written whole, then the directory listed: the expired *)
(* and the surplus are doomed.                                               *)
WriteThenList(q, t) ==
  LET files == traces[StoreOf(q)] \cup {t}
      live  == {x \in files : clock - x.at <= MaxAge} IN
  /\ traces' = [traces EXCEPT ![StoreOf(q)] = files]
  /\ committed' = [committed EXCEPT ![StoreOf(q)] = @ \cup {t}]
  /\ \E d \in BeyondNewest(live) :
       Q(q, [query[q] EXCEPT !.doomed = d \cup (files \ live),
                             !.pc = IF StoreOf(q) = "query" THEN "retain" ELSE "retain_turn"])

(* _commit_terminal_trace: a failing write is an internal error without trace. *)
CommitTrace(q) ==
  /\ At(q, "write")
  /\ WriteThenList(q, Trace(q, query[q]))
  /\ UNCHANGED <<revision, published, cache, clock>>

(* The runtime is released on this path too. *)
CommitFails(q) ==
  /\ At(q, "write")
  /\ cache' = Released(cache, query[q].snap)
  /\ Fail(q, "internal_error")
  /\ UNCHANGED <<revision, published, traces, committed, clock>>

(* Retention unlinks what it listed; an unlink that fails is also an internal  *)
(* error, of a question whose trace is on disk.  Then the runtime is released, *)
(* and a question that failed reports it.                                      *)
Retain(q, unlinks) ==
  LET x == query[q] IN
  /\ At(q, "retain")
  /\ traces' = IF unlinks THEN [traces EXCEPT !["query"] = @ \ x.doomed] ELSE traces
  /\ cache' = Released(cache, x.snap)
  /\ Q(q, IF ~unlinks
          THEN Failed(q, "internal_error")
          ELSE IF x.code # "none" THEN Failed(q, x.code)
          ELSE [x EXCEPT !.traced = TRUE, !.doomed = {},
                         !.pc = IF x.kind = "product" THEN "answered" ELSE "enrich"])
  /\ UNCHANGED <<revision, published, committed, clock>>

(* _active_source_index: the selected active sources holding a document. *)
SourcesOf(q, doc) == {s \in query[q].selected : History[query[q].rev].sources[s] = doc}

(* _enrich_workspace_citations: every cited document is one source's. *)
Enrich(q) ==
  LET x == query[q]
      mapped == \A d \in x.cited : Cardinality(SourcesOf(q, d)) = 1
      rows == {<<d, s>> : d \in x.cited, s \in UNION {SourcesOf(q, d2) : d2 \in x.cited}} IN
  /\ At(q, "enrich")
  /\ IF ~mapped THEN Fail(q, "citation_invalid")
     ELSE Q(q, [x EXCEPT !.rows = {r \in rows : r[2] \in SourcesOf(q, r[1])},
                         !.pc = IF x.kind = "workspace" THEN "answered" ELSE "write_turn"])
  /\ AfterFailure

(* _commit_conversation_trace, for a clarification or an answered turn. *)
TurnTrace(q) == [Trace(q, query[q]) EXCEPT !.at = query[q].cat]
CommitTurn(q) ==
  /\ At(q, "write_turn")
  /\ WriteThenList(q, TurnTrace(q))
  /\ UNCHANGED <<revision, published, cache, clock>>
CommitTurnFails(q) ==
  /\ At(q, "write_turn") /\ Fail(q, "internal_error") /\ AfterFailure
RetainTurn(q, unlinks) ==
  LET x == query[q] IN
  /\ At(q, "retain_turn")
  /\ traces' = IF unlinks THEN [traces EXCEPT !["conversation"] = @ \ x.doomed] ELSE traces
  /\ Q(q, IF unlinks THEN [x EXCEPT !.pc = "answered", !.doomed = {}]
          ELSE Failed(q, "internal_error"))
  /\ UNCHANGED <<revision, published, cache, committed, clock>>

(* --- the world ------------------------------------------------------------ *)

(* A mutation commits: current.json first, then the workspace record. *)
Publish ==
  /\ revision < Len(History) /\ published # History[revision + 1].snapshot
  /\ published' = History[revision + 1].snapshot
  /\ UNCHANGED <<revision, cache, query, traces, committed, clock>>
MutateWorkspace ==
  /\ revision < Len(History) /\ published = History[revision + 1].snapshot
  /\ revision' = revision + 1
  /\ UNCHANGED <<published, cache, query, traces, committed, clock>>

(* QueryRuntimeCache.close closes every entry, borrowed ones too. *)
CloseCache ==
  /\ ~cache.closed
  /\ cache' = [closed |-> TRUE, latest |-> "none",
               entry |-> [s \in Snaps |-> IF cache.entry[s].state = "open"
                                          THEN [state |-> "closed", refs |-> cache.entry[s].refs]
                                          ELSE NoEntry]]
  /\ UNCHANGED <<revision, published, query, traces, committed, clock>>

Tick == /\ clock < MaxClock /\ clock' = clock + 1
        /\ UNCHANGED <<revision, published, cache, query, traces, committed>>

Roles == {<<>>, <<"user">>, <<"assistant", "user">>, <<"user", "assistant">>,
          <<"user", "assistant", "user", "assistant">>,
          <<"user", "assistant", "user", "assistant", "user", "assistant">>}
Ask(q) ==
  \/ \E roles \in Roles : BeginTurn(q, roles)
  \/ \E kind \in {"product", "workspace"}, valid \in BOOLEAN : BeginQuery(q, kind, valid)
Serve(q) ==
  \/ ResolveCurrent(q) \/ Recheck(q) \/ AdmitTurn(q)
  \/ \E chosen \in {c \in SUBSET SourceIds : Cardinality(c) <= 1} : ReadWorkspace(q, chosen)
  \/ \E output \in {"object", "other", "fault", "absent"}, referring, fits \in BOOLEAN :
       ResolveContext(q, output, referring, fits)
  \/ \E builds \in BOOLEAN : Acquire(q, builds)
  \/ \E cancelled \in BOOLEAN : StartTrace(q, cancelled)
  \/ \E status \in Success, cited \in SUBSET Docs : Execute(q, status, "none", cited)
  \/ \E code \in {"runtime_not_ready", "internal_error"} :
       Execute(q, "none", code, {})
  \/ CommitTrace(q) \/ CommitFails(q) \/ Enrich(q) \/ CommitTurn(q) \/ CommitTurnFails(q)
  \/ \E unlinks \in BOOLEAN : Retain(q, unlinks) \/ RetainTurn(q, unlinks)

ServeNext == \/ \E q \in Queries : Ask(q) \/ Serve(q)
             \/ Publish \/ MutateWorkspace \/ CloseCache \/ Tick
ServeSpec == ServeInit /\ [][ServeNext]_serveVars

-----------------------------------------------------------------------------

Holding == {"held", "execute", "write", "retain"}

(* The state has the shapes above. *)
ServeTypeOK ==
  /\ revision \in DOMAIN History /\ published \in Snaps \cup {"none"} /\ clock \in Nat
  /\ cache \in [closed: BOOLEAN, latest: Snaps \cup {"none"},
                entry: [Snaps -> [state: {"none", "open", "closed"}, refs: Nat]]]
  /\ query \in [Queries -> QueryRecords]
  /\ traces \in [Stores -> SUBSET TraceFiles] /\ committed \in [Stores -> SUBSET TraceFiles]
  /\ \A t \in Stores : traces[t] \subseteq committed[t]

(* A borrowed runtime stays open under its borrower: only the shutdown of the *)
(* cache closes one in use, and each entry counts exactly its borrowers.      *)
BorrowedIsOpen ==
  \A s \in Snaps :
    LET users == {q \in Queries : query[q].pc \in Holding /\ query[q].snap = s} IN
    /\ cache.entry[s].refs = Cardinality(users)
    /\ users # {} /\ ~cache.closed => cache.entry[s].state = "open"

(* Runtimes of superseded snapshots do not pile up: an idle one is the latest *)
(* acquired (acquire and release both prune).                                 *)
IdleIsLatest ==
  \A s \in Snaps : ~cache.closed /\ cache.entry[s].state = "open" /\ cache.entry[s].refs = 0
                     => s = cache.latest

(* A trace disappears only by age or because enough traces at least as new    *)
(* were written: passes of concurrent questions, each with its own lock and   *)
(* its own stale listing, never drop one of the newest (_enforce_retention).  *)
NewestTracesKept ==
  \A t \in Stores : \A x \in committed[t] \ traces[t] :
    \/ clock - x.at > MaxAge
    \/ Cardinality({y \in committed[t] \ {x} : y.at >= x.at}) >= MaxRetained

(* Once no retention pass is under way the store is within its bound, unless *)
(* an unlink failed.                                                         *)
RetentionHolds ==
  \A t \in Stores :
    \/ Cardinality(traces[t]) <= MaxRetained
    \/ \E q \in Queries : query[q].doomed # {} \/ query[q].code = "internal_error"

(* A workspace answer names one revision: its snapshot is that revision's, each *)
(* citation row names the one selected source holding the document there.       *)
AnswerIsOfOneRevision ==
  \A q \in Queries : query[q].pc = "answered" /\ query[q].kind # "product" =>
    LET rec == History[query[q].rev] IN
    /\ query[q].snap = rec.snapshot
    /\ \A r \in query[q].rows : {s \in query[q].selected : rec.sources[s] = r[1]} = {r[2]}
    /\ query[q].status = "answered" => {r[1] : r \in query[q].rows} = query[q].cited

(* A workspace query runs on the state current when it was bound: a mutation    *)
(* committed while it resolved its snapshot is refused (run_workspace_query).   *)
BoundWhileCurrent ==
  \A q \in Queries : query[q].kind = "workspace" /\ query[q].pc = "scoped" /\ query'[q].pc = "bind"
    => query[q].rev = revision

(* What the client is told is what the trace says: a success and its trace agree, *)
(* a clarification has no query trace, an answered turn has one.                  *)
AnswerIsTraced ==
  \A q \in Queries : query[q].pc = "answered" =>
    LET x == query[q] IN
    /\ x.status \in Success => Trace(q, [x EXCEPT !.traced = FALSE]) \in committed["query"]
    /\ x.kind = "conversation" => TurnTrace(q) \in committed["conversation"]
    /\ x.status = "clarification_required" => ~x.traced

(* However questions, publications and retention passes overlap, a question *)
(* runs on a runtime that stays open, answers for one revision, and leaves  *)
(* a trace that agrees with the answer and is kept while it is among the    *)
(* newest.                                                                  *)
QuestionsAreServed ==
  /\ ServeTypeOK /\ BorrowedIsOpen /\ IdleIsLatest /\ NewestTracesKept /\ RetentionHolds
  /\ AnswerIsOfOneRevision /\ AnswerIsTraced
=============================================================================
