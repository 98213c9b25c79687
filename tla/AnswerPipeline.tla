---------------------------- MODULE AnswerPipeline ----------------------------
(***************************************************************************)
(* One grounded question, from retrieval to the projected answer, while    *)
(* the corpus may be re-indexed underneath it.                             *)
(*                                                                         *)
(* A "product" question is bound to a snapshot: its index identifiers are  *)
(* frozen, its documents may be scoped and recovery is off.  A "cli"       *)
(* question reads the current pointers of the corpus, one after the other, *)
(* and may recover once from empty evidence through a rewritten query.     *)
(* The index backends, the reranker, the rewriter and the generator are    *)
(* external: they return any value of their type, or fail.                 *)
(***************************************************************************)
EXTENDS ContextAssembly

CONSTANTS Strategies, Budgets, Scopes,
          DenseK, LexicalK, InputK, AnchorK,
          ChildrenOf,  \* generation of the corpus -> its children
          MaxBlocks, MaxHandles

Generations == DOMAIN ChildrenOf
NoScope     == Docs      \* document_ids is None

ASSUME AnswerAssumption ==
  /\ 0 \in Generations /\ Generations \subseteq Nat
  /\ \A g \in Generations : ChildrenOf[g] \subseteq Children
  /\ Strategies \subseteq {"child-only", "parent", "neighbors", "parent+neighbors"}
  /\ Budgets \subseteq Nat
  /\ {DenseK, LexicalK, InputK, AnchorK, MaxBlocks, MaxHandles} \subseteq Nat
Queries     == {"original", "rewritten"}

VARIABLES
  pc,        \* the stage the question is in
  q,         \* the question: mode, strategy, budget, scope, recovery, bound
  pointer,   \* the corpus' current chunk set, dense index and lexical index
  stack,     \* what this attempt reads: dense, lexical and structure
  dense, lexical, pool, anchors,
  ctx,       \* the context under construction
  first,     \* the context and stack of attempt 0, kept during recovery
  rec,       \* the recovery state of recovery/protocol.py, or NoRecovery
  calls,     \* retrievals, rewrites and generator calls so far
  result     \* what the caller gets

vars == <<pc, q, pointer, stack, dense, lexical, pool, anchors, ctx, first,
          rec, calls, result>>

Origin == [chunks |-> 0, dense |-> 0, lexical |-> 0]
NoQuestion == [mode |-> "cli", strategy |-> "parent", budget |-> 0, scope |-> NoScope,
               recovery |-> FALSE, bound |-> Origin]
NoStack == [dense |-> -1, lexical |-> -1, chunks |-> -1]
NoCalls == [retrievals |-> 0, rewrites |-> 0, generations |-> 0]
Pending == [status |-> "pending", cited |-> <<>>, blocks |-> <<>>]
Ended(status) == [Pending EXCEPT !.status = status]
NoRecovery == [phase |-> "off", active |-> "original", attempts |-> <<>>,
               outcome |-> "none", reason |-> "none"]
Recovering == rec.phase # "off"
Blank == [context |-> EmptyContext, stack |-> NoStack, query |-> "original"]

Init ==
  /\ pc = "idle" /\ q = NoQuestion
  /\ pointer = Origin
  /\ stack = NoStack
  /\ dense = <<>> /\ lexical = <<>> /\ pool = <<>> /\ anchors = <<>>
  /\ ctx = EmptyContext /\ first = Blank /\ rec = NoRecovery
  /\ calls = NoCalls /\ result = Pending

---------------------------------------------------------------------------
(* Re-indexing: chunk, then index dense, then index lexical (any order of  *)
(* the two), each a replacement of one state file.                         *)
Reindex ==
  /\ \/ /\ pointer.chunks + 1 \in Generations
        /\ pointer.dense = pointer.chunks /\ pointer.lexical = pointer.chunks
        /\ pointer' = [pointer EXCEPT !.chunks = @ + 1]
     \/ /\ pointer.dense < pointer.chunks
        /\ pointer' = [pointer EXCEPT !.dense = pointer.chunks]
     \/ /\ pointer.lexical < pointer.chunks
        /\ pointer' = [pointer EXCEPT !.lexical = pointer.chunks]
  /\ UNCHANGED <<pc, q, stack, dense, lexical, pool, anchors, ctx, first, rec,
                 calls, result>>

Bound == q.mode = "product"
Query == rec.active

(* run_grounded_query_core: product questions carry every index identifier *)
(* of their snapshot, cli questions none.                                  *)
Ask(mode, strategy, budget, scope, recovery) ==
  /\ pc = "idle"
  /\ mode = "cli" => scope = NoScope
  /\ mode = "product" => ~recovery
  /\ q' = [mode |-> mode, strategy |-> strategy, budget |-> budget,
           scope |-> scope, recovery |-> recovery, bound |-> pointer]
  /\ mode = "product" => pointer.chunks = pointer.dense /\ pointer.chunks = pointer.lexical
  /\ pc' = "ready"
  /\ UNCHANGED <<pointer, stack, dense, lexical, pool, anchors, ctx, first, rec,
                 calls, result>>

---------------------------------------------------------------------------
(* The recovery protocol: events and the state they lead to.               *)

AwaitingInitial == [NoRecovery EXCEPT !.phase = "awaiting_initial"]

Legal(r, kind) ==
  CASE kind = "record_initial"    -> r.phase = "awaiting_initial"
    [] kind = "prepare"           -> r.phase = "eligible"
    [] kind = "record_recovery"   -> r.phase = "pending" /\ Len(r.attempts) = 1
    [] kind = "fail_preparation"  -> r.phase = "eligible"
    [] kind = "fail_execution"    -> r.phase = "pending"

RecordInitial(r, ok) ==
  [r EXCEPT !.attempts = <<[query |-> r.active, sufficient |-> ok]>>,
            !.phase = IF ok THEN "terminal" ELSE "eligible",
            !.outcome = IF ok THEN "initial_evidence_sufficient" ELSE "none"]

PrepareQuery(r, query) == [r EXCEPT !.phase = "pending", !.active = query]

RecordRecovery(r, ok) ==
  [r EXCEPT !.attempts = Append(@, [query |-> r.active, sufficient |-> ok]),
            !.phase = "terminal",
            !.outcome = IF ok THEN "recovered_evidence_sufficient"
                        ELSE "insufficient_after_bounded_recovery"]

FailRecovery(r, reason) ==
  [r EXCEPT !.phase = "terminal", !.outcome = "recovery_failed", !.reason = reason]

(* validate_recovery_state, on the fields the model keeps: the attempts,   *)
(* the phase, and the terminal outcomes.                                   *)
ValidAttempts(r) ==
  Len(r.attempts) <= 2 /\ (r.attempts # <<>> => r.attempts[1].query = "original")

ValidTwoAttempts(r, ok) ==
  /\ r.reason = "none" /\ Len(r.attempts) = 2
  /\ ~r.attempts[1].sufficient /\ r.attempts[2].sufficient = ok
  /\ r.active = r.attempts[2].query

ValidFailure(r) ==
  /\ r.reason \in {"rewrite_preparation_failed", "recovery_execution_failed"}
  /\ Len(r.attempts) = 1 /\ ~r.attempts[1].sufficient
  /\ r.reason = "rewrite_preparation_failed" => r.active = "original"

ValidTerminal(r) ==
  CASE r.outcome = "initial_evidence_sufficient" ->
         Len(r.attempts) = 1 /\ r.attempts[1].sufficient
    [] r.outcome = "recovered_evidence_sufficient"       -> ValidTwoAttempts(r, TRUE)
    [] r.outcome = "insufficient_after_bounded_recovery" -> ValidTwoAttempts(r, FALSE)
    [] r.outcome = "recovery_failed"                     -> ValidFailure(r)
    [] OTHER -> FALSE

ValidPhase(r) ==
  /\ r.phase # "terminal" => r.outcome = "none" /\ r.reason = "none"
  /\ r.phase = "awaiting_initial" => r.attempts = <<>> /\ r.active = "original"
  /\ r.phase = "eligible" => r.active = "original"
  /\ r.phase \in {"eligible", "pending"} =>
       Len(r.attempts) = 1 /\ ~r.attempts[1].sufficient
  /\ r.phase = "terminal" => ValidTerminal(r)

ValidRecovery(r) == ValidAttempts(r) /\ ValidPhase(r)

(* apply_recovery_event validates the state before and after the event and *)
(* refuses what the phase does not allow: an escaped protocol error.       *)
Apply(kind, next) ==
  IF ValidRecovery(rec) /\ Legal(rec, kind) /\ ValidRecovery(next)
  THEN rec' = next /\ result' = result /\ pc' = pc
  ELSE rec' = rec /\ result' = Ended("protocol_error") /\ pc' = "done"

(* Legal and valid: the event moves rec and the question ends as `status`. *)
ApplyAndEnd(kind, next, status) ==
  /\ pc' = "done"
  /\ IF ValidRecovery(rec) /\ Legal(rec, kind) /\ ValidRecovery(next)
     THEN rec' = next /\ result' = Ended(status)
     ELSE rec' = rec /\ result' = Ended("protocol_error")

---------------------------------------------------------------------------
(* Errors.  On attempt 0 a context error becomes a GroundedAnswerError and *)
(* any other escapes; on the recovery attempt both end in _fail_execution. *)
Raise(kind) ==
  /\ IF ~Recovering
     THEN pc' = "done" /\ result' = Ended(kind) /\ rec' = rec
     ELSE ApplyAndEnd("fail_execution", FailRecovery(rec, "recovery_execution_failed"),
                      "grounded_error")
  /\ UNCHANGED <<q, pointer, stack, dense, lexical, pool, anchors, ctx, first, calls>>

Advance(stage) == pc' = stage /\ UNCHANGED <<q, pointer, rec, result, first>>

(* _require_ready of the assembler and of the hybrid retriever.            *)
CheckReady ==
  /\ pc = "ready"
  /\ IF ~Bound /\ ~(pointer.dense = pointer.chunks /\ pointer.lexical = pointer.chunks)
     THEN Raise("grounded_error")
     ELSE /\ calls' = [calls EXCEPT !.retrievals = @ + 1]
          /\ stack' = NoStack /\ dense' = <<>> /\ lexical' = <<>> /\ pool' = <<>>
          /\ anchors' = <<>> /\ ctx' = EmptyContext
          /\ Advance("dense")

InScope(docs) == docs \subseteq q.scope
DocsOf(s) == {DocOf[c] : c \in ToSet(s)}

(* A branch's hits: up to k children of the index' generation, any order.  *)
Hits(g, k) == {s \in SeqOf(ChildrenOf[g], k) : IsInjective(s)}

(* DenseRetriever.retrieve: bound identifiers, or the current index if it  *)
(* is CURRENT for the chunk set at this moment.                            *)
DenseRetrieve ==
  /\ pc = "dense"
  /\ LET g == IF Bound THEN q.bound.dense ELSE pointer.dense
     IN  IF ~Bound /\ pointer.dense # pointer.chunks
         THEN Raise("escaped_error")
         ELSE \E hits \in Hits(g, DenseK) :
                IF ~InScope(DocsOf(hits)) THEN Raise("escaped_error")
                ELSE /\ dense' = hits
                     /\ stack' = [stack EXCEPT !.dense = g]
                     /\ Advance("lexical")
                     /\ UNCHANGED <<lexical, pool, anchors, ctx, calls>>

DenseFault == pc = "dense" /\ Raise("escaped_error")

(* LexicalRetriever.retrieve inside HybridRetriever.retrieve.  A question  *)
(* without analyzed terms is an empty branch, found before the index opens.*)
LexicalRetrieve ==
  /\ pc = "lexical"
  /\ LET g == IF Bound THEN q.bound.lexical ELSE pointer.lexical
     IN  IF ~Bound /\ pointer.lexical # pointer.chunks
         THEN Raise("grounded_error")
         ELSE \E hits \in Hits(g, LexicalK) :
                IF ~InScope(DocsOf(hits)) THEN Raise("grounded_error")
                ELSE /\ lexical' = hits
                     /\ stack' = [stack EXCEPT !.lexical = g]
                     /\ Advance("fuse")
                     /\ UNCHANGED <<dense, pool, anchors, ctx, calls>>

LexicalFault == pc = "lexical" /\ Raise("grounded_error")

(* Both branches must name one chunk set; the pool is the fused prefix.    *)
FuseBranches ==
  /\ pc = "fuse"
  /\ IF \/ stack.dense # stack.lexical
        \/ ~InScope(DocsOf(dense) \cup DocsOf(lexical))
     THEN Raise("grounded_error")
     ELSE /\ pool' = Truncate(Fuse(dense, lexical), InputK)
          /\ Advance("rerank")
          /\ UNCHANGED <<stack, dense, lexical, anchors, ctx, calls>>

(* The reranker scores the pool; an empty pool is not scored.              *)
Rerank ==
  /\ pc = "rerank"
  /\ \E score \in [ToSet(pool) -> {0, 1}] :
       anchors' = Truncate(SortScored(pool, score), AnchorK)
  /\ Advance("structure")
  /\ dense' = <<>> /\ lexical' = <<>>
  /\ UNCHANGED <<stack, pool, ctx, calls>>

RerankFault == pc = "rerank" /\ pool # <<>> /\ Raise("grounded_error")

(* A bound question has its structure store since the runtime was built; a *)
(* cli question loads the one that is current now.                         *)
LoadStructure ==
  /\ pc = "structure"
  /\ stack' = [stack EXCEPT !.chunks = IF Bound THEN q.bound.chunks ELSE pointer.chunks]
  /\ ctx' = IF anchors = <<>> THEN Stopped(EmptyContext, "no_anchors") ELSE EmptyContext
  /\ pool' = <<>>
  /\ Advance("expand")
  /\ UNCHANGED <<dense, lexical, anchors, calls>>

Missing(anchor) == ~(Touches(anchor, q.strategy) \subseteq ChildrenOf[stack.chunks])

ExpandAnchor ==
  /\ pc = "expand" /\ anchors # <<>> /\ ctx.stop = "completed"
  /\ IF Missing(Head(anchors)) THEN Raise("grounded_error")
     ELSE /\ ctx' = Expand(ctx, Head(anchors), q.strategy, q.budget)
          /\ anchors' = Tail(anchors)
          /\ Advance("expand")
          /\ UNCHANGED <<stack, dense, lexical, pool, calls>>

UnitDocs(units) == {units[i].doc : i \in DOMAIN units}

(* The checks after the loop, then the sufficiency gate: empty evidence is *)
(* the only insufficient one, and only it may start a recovery.            *)
FinishContext ==
  /\ pc = "expand" /\ (anchors = <<>> \/ ctx.stop # "completed")
  /\ IF Used(ctx.units) > q.budget \/ ~InScope(UnitDocs(ctx.units))
     THEN Raise("grounded_error")
     ELSE IF Recovering
     THEN Advance("compare") /\ UNCHANGED <<stack, dense, lexical, pool, anchors, ctx, calls>>
     ELSE IF ctx.units = <<>> /\ q.recovery
     THEN /\ pc' = "recover" /\ rec' = AwaitingInitial
          /\ first' = [context |-> ctx, stack |-> stack, query |-> Query]
          /\ UNCHANGED <<q, pointer, stack, dense, lexical, pool, anchors, ctx,
                         calls, result>>
     ELSE Advance("generate") /\ UNCHANGED <<stack, dense, lexical, pool, anchors, ctx, calls>>

---------------------------------------------------------------------------
(* RecoveryCoordinator.run.                                                *)

RecordInsufficiency ==
  /\ pc = "recover" /\ rec.phase = "awaiting_initial"
  /\ Apply("record_initial", RecordInitial(rec, FALSE))
  /\ UNCHANGED <<q, pointer, stack, dense, lexical, pool, anchors, ctx, first, calls>>

(* Diagnostics, lineage, provenance, the rewriter's construction (no call  *)
(* is made) or the call itself may fail: _fail_preparation.                *)
PreparationFault(called) ==
  /\ pc = "recover" /\ rec.phase = "eligible"
  /\ calls' = [calls EXCEPT !.rewrites = @ + (IF called THEN 1 ELSE 0)]
  /\ ApplyAndEnd("fail_preparation", FailRecovery(rec, "rewrite_preparation_failed"),
                 "grounded_error")
  /\ UNCHANGED <<q, pointer, stack, dense, lexical, pool, anchors, ctx, first>>

(* The rewriter answers, possibly with the question it was given.          *)
Rewrite(query) ==
  /\ pc = "recover" /\ rec.phase = "eligible"
  /\ calls' = [calls EXCEPT !.rewrites = @ + 1]
  /\ LET next == PrepareQuery(rec, query)
     IN  IF ValidRecovery(rec) /\ Legal(rec, "prepare") /\ ValidRecovery(next)
         THEN rec' = next /\ pc' = "ready" /\ result' = result
         ELSE rec' = rec /\ pc' = "done" /\ result' = Ended("protocol_error")
  /\ UNCHANGED <<q, pointer, stack, dense, lexical, pool, anchors, ctx, first>>

(* lineage_stack_equal: the identifiers retrieval reported, not the store  *)
(* the evidence was expanded from.                                         *)
SameStack(a, b) == a.dense = b.dense /\ a.lexical = b.lexical

(* The recovered context must come from the same stack as the first one.   *)
CompareLineage ==
  /\ pc = "compare"
  /\ IF ~SameStack(first.stack, stack) THEN Raise("grounded_error")
     ELSE LET next == RecordRecovery(rec, ctx.units # <<>>)
          IN  /\ IF ValidRecovery(rec) /\ Legal(rec, "record_recovery") /\ ValidRecovery(next)
                 THEN rec' = next /\ pc' = "generate" /\ result' = result
                 ELSE rec' = rec /\ pc' = "done" /\ result' = Ended("protocol_error")
              /\ UNCHANGED <<q, pointer, stack, dense, lexical, pool, anchors, ctx,
                             first, calls>>

---------------------------------------------------------------------------
(* GroundedGenerationExecutor.                                             *)

Finish(r) ==
  /\ pc' = "done" /\ result' = r
  /\ UNCHANGED <<q, pointer, stack, dense, lexical, pool, anchors, ctx, first, rec>>

(* The executor's own sufficiency check: no generator call on nothing.     *)
AbstainEmpty ==
  /\ pc = "generate" /\ ctx.units = <<>>
  /\ Finish(Ended("insufficient_evidence")) /\ UNCHANGED calls

(* A document without a trusted title: no call is made.                    *)
ProvenanceFault ==
  /\ pc = "generate" /\ ctx.units # <<>>
  /\ Finish(Ended("generation_failed")) /\ UNCHANGED calls

Invoke == /\ pc = "generate" /\ ctx.units # <<>>
          /\ calls' = [calls EXCEPT !.generations = @ + 1]

(* Timeout, transport or provider error, or an output that does not parse. *)
GeneratorFault == Invoke /\ Finish(Ended("generation_failed"))

ModelAbstains == Invoke /\ Finish(Ended("model_abstain"))

(* The i-th unit is handle Ei; a handle past the last unit is unknown.     *)
Handles(units) == 1..(Len(units) + 1)
Outputs(units) ==
  LET block == UNION {[1..n -> Handles(units)] : n \in 1..MaxHandles}
  IN  UNION {[1..n -> block] : n \in 1..(IF q.mode = "product" THEN MaxBlocks ELSE 1)}

(* Strict parse: repeated handles break the schema, unknown ones are an    *)
(* invalid citation; the first defect in block order decides.              *)
Defect(block, units) ==
  IF ~IsInjective(block) THEN "generation_failed"
  ELSE IF \E i \in DOMAIN block : block[i] > Len(units) THEN "citation_invalid"
  ELSE "none"

Parse(blocks, units) ==
  LET bad == {i \in DOMAIN blocks : Defect(blocks[i], units) # "none"}
  IN  IF bad = {} THEN "none" ELSE Defect(blocks[Min(bad)], units)

(* Citations: the cited units in order of first reference, once each.      *)
Cited(blocks, units) ==
  LET handles == FlattenSeq(blocks)
      cited[n \in 0..Len(handles)] ==
        IF n = 0 THEN <<>>
        ELSE LET id == units[handles[n]].id
             IN  IF id \in ToSet(cited[n - 1]) THEN cited[n - 1] ELSE Append(cited[n - 1], id)
  IN  cited[Len(handles)]

(* A mutant: a block refers to its handles' numbers.                       *)
RefsByHandle(block, units, cited) == block

Refs(block, units, cited) ==
  [i \in DOMAIN block |-> CHOOSE n \in DOMAIN cited : cited[n] = units[block[i]].id]

(* The projection of a product answer refuses a citation outside the scope.*)
Project(blocks, units) ==
  LET cited == Cited(blocks, units)
      docs  == {units[i].doc : i \in {i \in DOMAIN units : units[i].id \in ToSet(cited)}}
  IN  IF q.mode = "product" /\ ~InScope(docs) THEN Ended("citation_invalid")
      ELSE [status |-> "answered", cited |-> cited,
            blocks |-> [b \in DOMAIN blocks |-> Refs(blocks[b], units, cited)]]

Generate ==
  \E blocks \in Outputs(ctx.units) :
    /\ Invoke
    /\ LET defect == Parse(blocks, ctx.units)
       IN  Finish(IF defect = "none" THEN Project(blocks, ctx.units) ELSE Ended(defect))

---------------------------------------------------------------------------
Step ==
  \/ CheckReady \/ DenseRetrieve \/ DenseFault \/ LexicalRetrieve \/ LexicalFault
  \/ FuseBranches \/ Rerank \/ RerankFault \/ LoadStructure \/ ExpandAnchor
  \/ FinishContext \/ RecordInsufficiency \/ CompareLineage
  \/ \E called \in BOOLEAN : PreparationFault(called)
  \/ \E query \in Queries : Rewrite(query)
  \/ AbstainEmpty \/ ProvenanceFault \/ GeneratorFault \/ ModelAbstains \/ Generate

Done == pc = "done" /\ UNCHANGED vars

Next ==
  \/ Reindex
  \/ \E mode \in {"product", "cli"}, s \in Strategies, b \in Budgets,
        scope \in Scopes \cup {NoScope}, r \in BOOLEAN : Ask(mode, s, b, scope, r)
  \/ Step
  \/ Done

Spec == Init /\ [][Next]_vars
===========================================================================
