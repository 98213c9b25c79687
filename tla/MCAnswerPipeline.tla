-------------------------- MODULE MCAnswerPipeline --------------------------
(***************************************************************************)
(* Document a has three children under two parents, b and c one each; the  *)
(* second generation of the corpus replaces b by c.                        *)
(***************************************************************************)
EXTENDS AnswerPipeline, TLC

MCChildren == 1..5
MCParents  == 11..14
MCDocs     == {"a", "b", "c"}
MCDocOf    == <<"a", "a", "a", "b", "c">>
MCParentOf == <<11, 11, 12, 13, 14>>
MCPrevOf   == <<0, 1, 2, 0, 0>>
MCNextOf   == <<2, 3, 0, 0, 0>>
MCAt       == <<0, 3, 2, 0, 0>>
MCLenOf    == (1 :> 2) @@ (2 :> 2) @@ (3 :> 3) @@ (4 :> 2) @@ (5 :> 2)
              @@ (11 :> 5) @@ (12 :> 6) @@ (13 :> 2) @@ (14 :> 2)
MCChildrenOf == (0 :> {1, 2, 3, 4}) @@ (1 :> {1, 2, 3, 5})
MCScopes     == {{"a"}}

---------------------------------------------------------------------------
(* Every variable keeps its shape.                                         *)
TypeOK ==
  /\ pc \in {"idle", "ready", "dense", "lexical", "fuse", "rerank", "structure",
             "expand", "recover", "compare", "generate", "done"}
  /\ pointer \in [chunks : Generations, dense : Generations, lexical : Generations]
  /\ dense \in SeqOf(Children, DenseK) /\ lexical \in SeqOf(Children, LexicalK)
  /\ pool \in SeqOf(Children, InputK) /\ anchors \in SeqOf(Children, AnchorK)
  /\ calls \in [retrievals : 0..2, rewrites : 0..1, generations : 0..1]

(* Fusion: a chunk that no branch ranks below another, and some branch     *)
(* ranks above it, precedes it in the reranker's input, however the score  *)
(* fractions compare and wherever the input is cut.                        *)
Beats(s, a, b) == a \in ToSet(s) /\ (b \in ToSet(s) => RankIn(s, a) < RankIn(s, b))
FusionRespectsBranches ==
  pc = "rerank" =>
    \A a, b \in ToSet(dense) \cup ToSet(lexical) :
      /\ a # b
      /\ Beats(dense, a, b) \/ Beats(lexical, a, b)
      /\ ~Beats(dense, b, a) /\ ~Beats(lexical, b, a)
      /\ b \in ToSet(pool)
      => a \in ToSet(pool) /\ RankIn(pool, a) < RankIn(pool, b)

(* The expander's own per-unit test keeps the rendered context within      *)
(* max_context_tokens, so the check after its loop never fires.            *)
BudgetHolds == pc \in {"expand", "compare", "generate"} => Used(ctx.units) <= q.budget

(* first-anchor-owns: no chunk is emitted twice, and a child is never      *)
(* emitted after its whole parent under parent+neighbors.                  *)
EvidenceIsDistinct ==
  \A i, j \in DOMAIN ctx.units :
    i < j => /\ ctx.units[i].id # ctx.units[j].id
             /\ ctx.units[j].kind = "child" /\ ctx.units[i].id \in ctx.full
                  => ParentOf[ctx.units[j].id] # ctx.units[i].id

(* anchor-preserving clipping: a clipped parent contains the whole text of *)
(* its anchor and leaves no room that one more character could use.        *)
ClipKeepsAnchor ==
  \A i \in DOMAIN ctx.units :
    LET u == ctx.units[i]
    IN  u.kind = "parent" /\ u.id \notin ctx.full =>
          /\ u.from <= At[u.anchor] /\ At[u.anchor] + LenOf[u.anchor] <= u.to
          /\ i = Len(ctx.units) /\ Used(ctx.units) = q.budget

(* A scoped question's generator sees evidence of the scope only, whatever *)
(* the indexes return.                                                     *)
EvidenceInScope ==
  pc = "generate" => UnitDocs(ctx.units) \subseteq q.scope

(* The evidence a generator is called with was retrieved from one chunk    *)
(* set, and a recovered context from the stack of the first attempt, even  *)
(* when the corpus is re-indexed between the reads.                        *)
OneStack ==
  pc = "generate" => /\ stack.dense = stack.lexical
                     /\ Recovering =>
                          first.stack.dense = stack.dense /\ first.stack.lexical = stack.lexical

(* A recovery that ends has one terminal state with its reason: at most    *)
(* one rewrite and one more retrieval, and no event the protocol refuses.  *)
RecoveryIsAudited ==
  /\ result.status # "protocol_error"
  /\ pc = "done" /\ Recovering =>
       /\ rec.phase = "terminal" /\ ValidRecovery(rec)
       /\ rec.reason = "rewrite_preparation_failed" => calls.retrievals = 1
       /\ rec.reason = "recovery_execution_failed" => calls.rewrites = 1
       /\ result.status = "answered" => rec.outcome = "recovered_evidence_sufficient"

(* An answer's citations are evidence of its context, numbered by first    *)
(* reference over the blocks, each used and none dangling.                 *)
AnswerIsCited ==
  result.status = "answered" =>
    LET refs == FlattenSeq(result.blocks)
    IN  /\ \A i \in DOMAIN result.cited : Owner(ctx.units, result.cited[i]) # {}
        /\ ToSet(refs) = DOMAIN result.cited
        /\ \A i \in DOMAIN refs : \A n \in 1..(refs[i] - 1) :
             \E j \in 1..(i - 1) : refs[j] = n

(* The evidence a question is answered from: fused and cut as the branches *)
(* rank it, within the budget, each chunk once, an excerpt around its      *)
(* anchor, of the scope only and of one stack of indexes.                  *)
EvidenceIsSound ==
  /\ TypeOK /\ FusionRespectsBranches /\ BudgetHolds /\ EvidenceIsDistinct
  /\ ClipKeepsAnchor /\ EvidenceInScope /\ OneStack

(* The answer, or the lack of one, is accounted for: every citation leads  *)
(* to evidence, every recovery to its one audited end.                     *)
AnswerIsSound == AnswerIsCited /\ RecoveryIsAudited
===========================================================================
