------------------------- MODULE StructureChunking -------------------------
(***************************************************************************)
(* The structure-aware chunker: how the blocks of a parsed document become *)
(* parent spans and searchable children, and the validation that guards    *)
(* the result.  A text is a sequence of lines, a line a sequence of words, *)
(* a word its size in tokens; Sep is what joining two blocks costs.        *)
(***************************************************************************)
EXTENDS Totals, SequencesExt

CONSTANTS Blocks, ChildTarget, ChildMax, ParentTarget, ParentMax, Sep, MaxBlocksInDoc

ASSUME ChunkerAssumption ==
  /\ {ChildTarget, ChildMax, ParentTarget, ParentMax, Sep} \subseteq Nat
  /\ ChildTarget <= ChildMax /\ ParentTarget <= ParentMax
  /\ \A b \in Blocks : /\ b.type \in {"heading", "text", "table", "code"}
                       /\ b.text \in Seq(Seq(Nat)) /\ b.text # <<>>

VARIABLE document    \* the blocks of the parsed document, in order

LineTokens(line) == SumOf(line)
Tokens(text)     == SumOf([k \in DOMAIN text |-> LineTokens(text[k])])
JoinTokens(span) == SumOf([k \in DOMAIN span |-> Tokens(span[k].text)]) + Sep * (Len(span) - 1)

(****************************** splitting **********************************)

Piece(lo, hi, alone) == [lo |-> lo, hi |-> hi, alone |-> alone]
Pairs(lo, hi) == {p \in (lo..hi) \X (lo..hi) : p[1] <= p[2]}

(* The loop that every part of the chunker runs over some elements lo..hi:  *)
(* they go into a buffer, which becomes a piece when it is flushed.  A pair *)
(* <<f, k>> stands for element k arriving at the buffer f..k-1, empty when  *)
(* f = k.  It may have to be a piece alone, or flush the buffer before it   *)
(* joins, or complete the piece once it has joined.                         *)
Cut(lo, hi, alone, before, after) ==
  LET flush(s, k) == IF s.from = k THEN s.out ELSE Append(s.out, Piece(s.from, k - 1, FALSE))
      take(s, k) ==
        IF <<s.from, k>> \in alone
        THEN [out |-> Append(flush(s, k), Piece(k, k, TRUE)), from |-> k + 1]
        ELSE IF <<s.from, k>> \in before
        THEN [out |-> flush(s, k), from |-> k]
        ELSE IF <<s.from, k>> \in after
        THEN [out |-> Append(s.out, Piece(s.from, k, FALSE)), from |-> k + 1]
        ELSE s
      scan[n \in 0..(hi - lo + 1)] ==
        IF n = 0 THEN [out |-> <<>>, from |-> lo] ELSE take(scan[n - 1], lo + n - 1)
  IN flush(scan[hi - lo + 1], hi + 1)

_split_code_or_list(text) ==
  LET over == {p \in Pairs(1, Len(text)) : p[1] < p[2] /\ Tokens(SubSeq(text, p[1], p[2])) > ChildMax}
      cut == Cut(1, Len(text), {}, over, {})
  IN [i \in DOMAIN cut |-> SubSeq(text, cut[i].lo, cut[i].hi)]

(* Every piece of a table starts with the header row. *)
_split_table_text(text) ==
  LET rows(f, k) == <<text[1]>> \o SubSeq(text, f, k)
      over == {p \in Pairs(2, Len(text)) : p[1] < p[2] /\ Tokens(rows(p[1], p[2])) > ChildMax}
      cut == Cut(2, Len(text), {}, over, {})
  IN IF Len(text) = 1 THEN <<text>> ELSE [i \in DOMAIN cut |-> rows(cut[i].lo, cut[i].hi)]

(* A sentence that fits is a piece of its own, a longer one is cut by words. *)
SentencePieces(line) ==
  LET over == {p \in Pairs(1, Len(line)) : p[1] < p[2] /\ LineTokens(SubSeq(line, p[1], p[2])) > ChildMax}
      cut == Cut(1, Len(line), {}, over, {})
  IN IF LineTokens(line) <= ChildMax THEN <<<<line>>>>
     ELSE [i \in DOMAIN cut |-> <<SubSeq(line, cut[i].lo, cut[i].hi)>>]

_split_text_units(text) ==
  IF Tokens(text) <= ChildMax THEN <<text>>
  ELSE FlattenSeq([k \in DOMAIN text |-> SentencePieces(text[k])])

Split(block) == CASE block.type = "table" -> _split_table_text(block.text)
                  [] block.type = "code"  -> _split_code_or_list(block.text)
                  [] OTHER                -> _split_text_units(block.text)

(******************************* parents ***********************************)

SizeOf(blocks, p) == JoinTokens(SubSeq(blocks, p[1], p[2]))
IsHeading(block) == block.type = "heading"

(* Structured documents: one span per run of blocks with the same section, *)
(* cut where the span would exceed the parent budget.  Unstructured ones    *)
(* are packed up to the parent target.                                      *)
_group_parent_spans(blocks) ==
  LET pairs == Pairs(1, Len(blocks))
      over  == {p \in pairs : p[1] < p[2] /\ SizeOf(blocks, p) > ParentMax}
      turns == {p \in pairs : p[1] < p[2] /\ blocks[p[2]].section # blocks[p[2] - 1].section}
      full  == {p \in pairs : SizeOf(blocks, p) >= ParentTarget /\ ~IsHeading(blocks[p[2]])}
  IN IF \E k \in DOMAIN blocks : blocks[k].section # "none"
     THEN Cut(1, Len(blocks), {}, over \cup turns, {})
     ELSE Cut(1, Len(blocks), {}, over, full)

(******************************* children **********************************)

(* Mutant: a child is closed only after the block that overflowed it. *)
OverflowLate(size) == FALSE

Overflows(size) == size > ChildMax

(* The children of one span: blocks accumulate up to the child target, a    *)
(* heading waits for what follows it, an oversized block is split alone.    *)
ChildPieces(blocks, span) ==
  LET pairs  == Pairs(span.lo, span.hi)
      waits(p) == p[1] = p[2] /\ IsHeading(blocks[p[2]])
      alone  == {p \in pairs : ~waits(p) /\ Tokens(blocks[p[2]].text) > ChildMax}
      before == {p \in pairs : p[1] < p[2] /\ Overflows(SizeOf(blocks, p))}
      after  == {p \in pairs : SizeOf(blocks, p) >= ChildTarget /\ ~IsHeading(blocks[p[2]])}
  IN Cut(span.lo, span.hi, alone, before, after)

Unit(lo, hi, text, mode) == [lo |-> lo, hi |-> hi, text |-> text, mode |-> mode]

(* A heading left alone is not a child when its span has other blocks. *)
LoneHeading(blocks, span, piece) ==
  piece.lo = piece.hi /\ IsHeading(blocks[piece.lo]) /\ span.lo < span.hi

UnitsOf(blocks, span, piece) ==
  IF piece.alone
  THEN LET parts == Split(blocks[piece.lo])
       IN [i \in DOMAIN parts |-> Unit(piece.lo, piece.lo, parts[i],
                                       IF Tokens(parts[i]) > ChildMax THEN "oversized" ELSE "split")]
  ELSE IF LoneHeading(blocks, span, piece) THEN <<>>
  ELSE <<Unit(piece.lo, piece.hi,
              FlattenSeq([k \in 1..(piece.hi - piece.lo + 1) |-> blocks[piece.lo + k - 1].text]), "merged")>>

SpanUnits(blocks, span) ==
  LET pieces == ChildPieces(blocks, span)
  IN FlattenSeq([i \in DOMAIN pieces |-> UnitsOf(blocks, span, pieces[i])])

(* Equal pieces of one block are told apart by their occurrence number. *)
Occurrence(units, k) ==
  Cardinality({j \in 1..(k - 1) : /\ <<units[j].lo, units[j].hi>> = <<units[k].lo, units[k].hi>>
                                  /\ units[j].text = units[k].text})

UnitSize(blocks, u) == IF u.mode = "merged" THEN SizeOf(blocks, <<u.lo, u.hi>>) ELSE Tokens(u.text)

(* What chunk_document returns, with the verdict of its validation. *)
Chunked(blocks, spans, units) ==
  LET ids == [k \in DOMAIN units |->
                <<units[k].lo, units[k].hi, units[k].text, Occurrence(units, k)>>]
      size == [k \in DOMAIN units |-> UnitSize(blocks, units[k])]
  IN [parents |-> spans, children |-> units, ids |-> ids, size |-> size,
      valid |-> /\ IsInjective(ids)
                /\ \A k \in DOMAIN units : size[k] <= ChildMax \/ units[k].mode = "oversized"]

(* StructureAwareChunker.chunk_document. *)
ChunkDocument(blocks) ==
  LET spans == _group_parent_spans(blocks)
  IN Chunked(blocks, spans, FlattenSeq([s \in DOMAIN spans |-> SpanUnits(blocks, spans[s])]))

(* A parser hands over the document block by block. *)
ChunkInit == document = <<>>
AddBlock(b) == /\ Len(document) < MaxBlocksInDoc
               /\ document' = Append(document, b)
ChunkNext == \E b \in Blocks : AddBlock(b)
ChunkSpec == ChunkInit /\ [][ChunkNext]_document

(****************************** properties *********************************)

(* The words of a block as its children carry them, each with its block: a  *)
(* table repeats its header at the top of every piece, which is one         *)
(* occurrence of the row; a heading may be left out.                        *)
BodyOf(k, text) ==
  LET words == FlattenSeq(IF document[k].type = "table" THEN Tail(text) ELSE text)
  IN IF IsHeading(document[k]) THEN <<>> ELSE [i \in DOMAIN words |-> <<k, words[i]>>]
BlockBody(k) == BodyOf(k, document[k].text)
Carried(u) == IF u.mode = "merged"
              THEN FlattenSeq([i \in 1..(u.hi - u.lo + 1) |-> BlockBody(u.lo + i - 1)])
              ELSE BodyOf(u.lo, u.text)

(* Nothing is lost or repeated: whatever the budgets, the children carry    *)
(* every word of every block that is not a heading exactly once and in the  *)
(* order of the document, so all its text can be found.                     *)
TextIsSearchable(c) ==
  FlattenSeq([i \in DOMAIN c.children |-> Carried(c.children[i])]) =
  FlattenSeq([k \in DOMAIN document |-> BlockBody(k)])

(* Children stay in the budget: a child over the limit is one piece of one  *)
(* block that no splitter can make smaller: a header and a row, a line of   *)
(* code, a word; or a heading that waits for text that does not come.       *)
ChildrenInBudget(c) ==
  \A k \in DOMAIN c.children : c.size[k] > ChildMax =>
    LET u == c.children[k]
    IN /\ u.lo = u.hi
       /\ \/ u.mode = "merged" /\ IsHeading(document[u.lo])
          \/ document[u.lo].type = "table" /\ Len(u.text) <= 2
          \/ document[u.lo].type = "code" /\ Len(u.text) = 1
          \/ Len(u.text) = 1 /\ Len(u.text[1]) = 1

(* Parents partition the document in order, hold one section each, and are  *)
(* over the parent budget only as a single block.                           *)
Tiles(pieces, lo, hi) ==
  /\ \A i \in DOMAIN pieces : pieces[i].lo <= pieces[i].hi
  /\ \A i \in DOMAIN pieces : pieces[i].lo = IF i = 1 THEN lo ELSE pieces[i - 1].hi + 1
  /\ hi = IF pieces = <<>> THEN lo - 1 ELSE pieces[Len(pieces)].hi
ParentsPartition(c) ==
  /\ Tiles(c.parents, 1, Len(document))
  /\ \A s \in DOMAIN c.parents :
       LET span == c.parents[s]
       IN /\ \A i \in span.lo..span.hi : document[i].section = document[span.lo].section
          /\ span.lo < span.hi => SizeOf(document, <<span.lo, span.hi>>) <= ParentMax

(* The chunker's own validation refuses a document for one reason only: a   *)
(* section that is a single heading longer than a child may be.  Identical  *)
(* pieces never collide on an identifier.                                   *)
RefusedOnlyForHeading(c) ==
  /\ IsInjective(c.ids)
  /\ ~c.valid => \E s \in DOMAIN c.parents :
       /\ c.parents[s].lo = c.parents[s].hi
       /\ IsHeading(document[c.parents[s].lo])
       /\ Tokens(document[c.parents[s].lo].text) > ChildMax

(* Chunking a document loses no text, exceeds no budget, cuts parents that  *)
(* partition it, and refuses only a document of headings.                   *)
ChunksAreWhole ==
  \A c \in {ChunkDocument(document)} :
    TextIsSearchable(c) /\ ChildrenInBudget(c) /\ ParentsPartition(c) /\ RefusedOnlyForHeading(c)
=============================================================================
