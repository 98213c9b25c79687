--------------------------- MODULE ContextAssembly ---------------------------
(***************************************************************************)
(* The pure algorithms behind one retrieval: reciprocal rank fusion of the *)
(* two branches, the reranker's sort, and the expansion of ranked anchors  *)
(* into evidence under a token budget.  A chunk is its identifier, a       *)
(* number, so that "chunk_id ascending" is the order of numbers; a text is *)
(* its length, one token per character, and the joiner between two units   *)
(* costs Sep tokens.                                                       *)
(***************************************************************************)
EXTENDS Integers, Sequences, FiniteSets, SequencesExt, FiniteSetsExt

CONSTANTS Children,    \* chunk identifiers of the searchable children
          Parents,     \* chunk identifiers of the parents
          Docs,        \* documents
          DocOf,       \* child -> document
          ParentOf,    \* child -> parent
          PrevOf,      \* child -> previous child of the document, or 0
          NextOf,      \* child -> next child, or 0
          LenOf,       \* child or parent -> tokens of its text
          At,          \* child -> offset of its text in its parent's
          Sep,         \* tokens of the joiner between two units
          RrfK,        \* fusion.rrf_k
          Window       \* context.neighbor_window

ASSUME StructureAssumption ==
  /\ Children \subseteq Nat \ {0} /\ Parents \subseteq Nat /\ Children \cap Parents = {}
  /\ \A c \in Children : /\ DocOf[c] \in Docs /\ ParentOf[c] \in Parents
                         /\ {PrevOf[c], NextOf[c]} \subseteq Children \cup {0}
                         /\ At[c] \in Nat /\ At[c] + LenOf[c] <= LenOf[ParentOf[c]]
  /\ \A x \in Children \cup Parents : LenOf[x] \in Nat
  /\ RrfK \in Nat \ {0} /\ Window \in Nat /\ Sep \in Nat

---------------------------------------------------------------------------
(* Fusion.  A branch is a sequence of chunks; the rank is the position.    *)

RankIn(branch, c) == CHOOSE i \in DOMAIN branch : branch[i] = c

(* The score 1/(k+rd) + 1/(k+rl) as a fraction, absent branches adding 0.  *)
Score(dense, lexical, c) ==
  LET inD == c \in ToSet(dense)
      inL == c \in ToSet(lexical)
      d == IF inD THEN RrfK + RankIn(dense, c) ELSE 1
      l == IF inL THEN RrfK + RankIn(lexical, c) ELSE 1
  IN  [num |-> (IF inD THEN l ELSE 0) + (IF inL THEN d ELSE 0), den |-> d * l]

Above(a, b) == a.num * b.den > b.num * a.den
Ties(a, b)  == a.num * b.den = b.num * a.den

(* The members of a set in the order of a sort key.                        *)
Sorted(S, Before(_, _)) ==
  CHOOSE s \in [1..Cardinality(S) -> S] : \A i, j \in DOMAIN s : i < j => Before(s[i], s[j])

(* fused.sort(key = (-rrf_score, chunk_id)) over the union of the branches.*)
Fuse(dense, lexical) ==
  LET S(c) == Score(dense, lexical, c)
  IN  Sorted(ToSet(dense) \cup ToSet(lexical),
             LAMBDA a, b : Above(S(a), S(b)) \/ (Ties(S(a), S(b)) /\ a < b))

Truncate(s, k) == SubSeq(s, 1, IF Len(s) < k THEN Len(s) ELSE k)

(* paired.sort(key = (-score, chunk_id)).                                  *)
SortScored(pool, score) ==
  Sorted(ToSet(pool), LAMBDA a, b : score[a] > score[b] \/ (score[a] = score[b] /\ a < b))

---------------------------------------------------------------------------
(* Expansion.  A unit of evidence is the piece [from, to) of a chunk, with *)
(* the anchor that owns it and the anchors that contributed to it.         *)

Unit(id, kind, doc, from, to, anchor) ==
  [id |-> id, kind |-> kind, doc |-> doc, from |-> from, to |-> to,
   anchor |-> anchor, by |-> {anchor}]

(* The tokens of the rendered context: the units and a joiner between two. *)
Joiner(n) == IF n = 0 THEN 0 ELSE Sep
Used(units) ==
  LET tokens[n \in 0..Len(units)] ==
        IF n = 0 THEN 0
        ELSE tokens[n - 1] + Joiner(n - 1) + (units[n].to - units[n].from)
  IN  tokens[Len(units)]

(* A mutant: the joiner is left out of the count.                          *)
FitsWithoutJoiner(units, len, budget) == Used(units) + len <= budget

(* counter.count(existing + "\n\n" + text) <= max_context_tokens           *)
Fits(units, len, budget) ==
  Used(units) + Joiner(Len(units)) + len <= budget

Owner(units, id) == {i \in DOMAIN units : units[i].id = id}

RecordDedup(units, id, anchor) ==
  [i \in DOMAIN units |-> IF units[i].id = id
                          THEN [units[i] EXCEPT !.by = @ \cup {anchor}]
                          ELSE units[i]]

(* Balanced rounds: one character to the left, one to the right, while the *)
(* rendered text fits; the excerpt starts as the anchor's own span.  Every *)
(* round that changes it takes a character of the parent.                  *)
GrowClip(parent, child, room) ==
  LET span[n \in 0..LenOf[parent]] ==
        IF n = 0 THEN <<At[child], At[child] + LenOf[child]>>
        ELSE LET s == span[n - 1][1]
                 e == span[n - 1][2]
                 l == IF s > 0 /\ e - (s - 1) <= room THEN s - 1 ELSE s
                 r == IF e < LenOf[parent] /\ (e + 1) - l <= room THEN e + 1 ELSE e
             IN  <<l, r>>
  IN  span[LenOf[parent]]

Stopped(acc, why) == [acc EXCEPT !.stop = why]

HandleParent(acc, child, budget) ==
  LET p    == ParentOf[child]
      room == budget - Used(acc.units) - Joiner(Len(acc.units))
      Emit(span) == Append(acc.units, Unit(p, "parent", DocOf[child],
                                           span[1], span[2], child))
  IN  IF Owner(acc.units, p) # {}
      THEN [acc EXCEPT !.units = RecordDedup(@, p, child)]
      ELSE IF Fits(acc.units, LenOf[p], budget)
      THEN [acc EXCEPT !.units = Emit(<<0, LenOf[p]>>), !.full = @ \cup {p}]
      ELSE IF ~Fits(acc.units, LenOf[child], budget)
      THEN Stopped(acc, "anchor_would_not_fit")
      ELSE Stopped([acc EXCEPT !.units = Emit(GrowClip(p, child, room))],
                   "parent_clipped_to_budget")

(* full_parent_ids is passed by the parent+neighbors strategy only.        *)
TryAddChild(acc, child, anchor, budget, full) ==
  IF ParentOf[child] \in full THEN acc
  ELSE IF Owner(acc.units, child) # {}
  THEN [acc EXCEPT !.units = RecordDedup(@, child, anchor)]
  ELSE IF ~Fits(acc.units, LenOf[child], budget)
  THEN Stopped(acc, "child_would_not_fit")
  ELSE [acc EXCEPT !.units = Append(@, Unit(child, "child", DocOf[child],
                                            0, LenOf[child], anchor))]

(* The anchor with up to Window children before and after it, in order; 0  *)
(* where the document has no more.                                         *)
Walk(anchor, NeighborOf) ==
  LET at[n \in 0..Window] ==
        IF n = 0 THEN anchor ELSE IF at[n - 1] = 0 THEN 0 ELSE NeighborOf[at[n - 1]]
  IN  at
NeighborWindow(anchor) ==
  [i \in 1..(2 * Window + 1) |->
     IF i <= Window THEN Walk(anchor, PrevOf)[Window + 1 - i]
                    ELSE Walk(anchor, NextOf)[i - Window - 1]]

HandleNeighbors(acc, anchor, budget, contain) ==
  LET window == NeighborWindow(anchor)
      added[n \in 0..Len(window)] ==
        IF n = 0 THEN acc
        ELSE LET a == added[n - 1]
             IN  IF a.stop # "completed" \/ window[n] = 0 THEN a
                 ELSE TryAddChild(a, window[n], anchor, budget, IF contain THEN a.full ELSE {})
  IN  added[Len(window)]

Expand(acc, anchor, strategy, budget) ==
  CASE strategy = "child-only" -> TryAddChild(acc, anchor, anchor, budget, {})
    [] strategy = "parent"     -> HandleParent(acc, anchor, budget)
    [] strategy = "neighbors"  -> HandleNeighbors(acc, anchor, budget, FALSE)
    [] strategy = "parent+neighbors" ->
         LET p == HandleParent(acc, anchor, budget)
         IN  IF p.stop # "completed" THEN p
             ELSE HandleNeighbors(p, anchor, budget, TRUE)

(* The chunks a strategy reads from the structure store for an anchor.     *)
Touches(anchor, strategy) ==
  IF strategy \in {"neighbors", "parent+neighbors"}
  THEN ToSet(NeighborWindow(anchor)) \ {0} ELSE {anchor}

EmptyContext == [units |-> <<>>, full |-> {}, stop |-> "completed"]
===========================================================================
