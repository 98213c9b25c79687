---------------------------- MODULE AnswerProofs ----------------------------
(***************************************************************************)
(* The proofs about one grounded question (AnswerPipeline, over the        *)
(* algorithms of ContextAssembly).  First the algorithms, for inputs of    *)
(* any size: the count of a rendered context, the clipped parent, the      *)
(* expansion of an anchor, the two sorts, reciprocal rank fusion, and the  *)
(* numbering of citations.  Then the inductive invariant, one lemma per    *)
(* step, and the two invariants of the run `answer`.                       *)
(***************************************************************************)
EXTENDS MCAnswerPipeline, FiniteSetTheorems, SequenceTheorems, WellFoundedInduction, TLAPS

(***************************************************************************)
(* Induction, over a set instead of an operator: a set that holds 0 and,   *)
(* with every number but the last, the next, holds all of them.            *)
(***************************************************************************)
LEMMA LeastOf ==
    ASSUME NEW T, T \subseteq Nat, T # {}
    PROVE  \E x \in T : \A y \in T : x <= y
<1>1. PICK x \in T : \A y \in T : ~(<<y, x>> \in OpToRel(<, Nat))
  BY WFMin, NatLessThanWellFounded
<1>2. \A y \in T : x <= y
  <2>. SUFFICES ASSUME NEW y \in T, y < x PROVE FALSE
    OBVIOUS
  <2>1. <<y, x>> \in OpToRel(<, Nat)
    BY DEF OpToRel
  <2>q. QED
    BY <1>1, <2>1
<1>q. QED
  BY <1>2

LEMMA InductionUpTo ==
    ASSUME NEW L \in Nat, NEW P, 0 \in P, \A n \in 1..L : n - 1 \in P => n \in P
    PROVE  0..L \subseteq P
<1>. SUFFICES ASSUME (0..L) \ P # {} PROVE FALSE
  OBVIOUS
<1>1. PICK x \in (0..L) \ P : \A y \in (0..L) \ P : x <= y
  BY LeastOf, (0..L) \ P \subseteq Nat
<1>2. x \in 1..L /\ x - 1 \in 0..L
  OBVIOUS
<1>3. x - 1 \in P
  BY <1>1, <1>2
<1>q. QED
  BY <1>2, <1>3

\* The runs of a step function F from a start; there always is one.
Run(F, S, b, L) == {f \in [0..L -> S] : f[0] = b /\ \A n \in 1..L : f[n] = F[n][f[n - 1]]}

LEMMA Iteration ==
    ASSUME NEW S, NEW b \in S, NEW L \in Nat, NEW F \in [1..L -> [S -> S]]
    PROVE  Run(F, S, b, L) # {}
<1>. DEFINE P == {k \in 0..L : Run(F, S, b, k) # {}}
<1>1. 0 \in P
  <2>1. [n \in 0..0 |-> b] \in Run(F, S, b, 0)
    BY DEF Run
  <2>q. QED
    BY <2>1
<1>2. ASSUME NEW k \in 1..L, k - 1 \in P PROVE k \in P
  <2>1. PICK f : f \in Run(F, S, b, k - 1)
    BY <1>2
  <2>2. f \in [0..(k - 1) -> S] /\ f[0] = b /\ \A n \in 1..(k - 1) : f[n] = F[n][f[n - 1]]
    BY <2>1 DEF Run
  <2>. DEFINE g == [n \in 0..k |-> IF n = k THEN F[k][f[k - 1]] ELSE f[n]]
  <2>3. k - 1 \in 0..(k - 1) /\ f[k - 1] \in S /\ F[k][f[k - 1]] \in S
    BY <2>2
  <2>4. g \in [0..k -> S]
    <3>1. \A n \in 0..k : n # k => n \in 0..(k - 1)
      OBVIOUS
    <3>q. QED
      BY <2>2, <2>3, <3>1
  <2>5. ASSUME NEW n \in 1..k PROVE g[n] = F[n][g[n - 1]]
    <3>1. n - 1 \in 0..k /\ n - 1 # k /\ g[n - 1] = f[n - 1]
      OBVIOUS
    <3>2. CASE n = k
      BY <3>1, <3>2
    <3>3. CASE n # k
      BY <2>2, <3>1, <3>3
    <3>q. QED
      BY <3>2, <3>3
  <2>6. g[0] = b
    BY <2>2
  <2>. HIDE DEF g
  <2>7. g \in Run(F, S, b, k)
    BY <2>4, <2>5, <2>6 DEF Run
  <2>q. QED
    BY <2>7
<1>3. \A k \in 1..L : k - 1 \in P => k \in P
  BY <1>2
<1>. HIDE DEF P
<1>4. 0..L \subseteq P
  BY <1>1, <1>3, InductionUpTo
<1>5. L \in P
  BY <1>4
<1>q. QED
  BY ONLY <1>5 DEF P

\* What a recurrence keeps holds of all its values.
LEMMA Recurrence ==
    ASSUME NEW S, NEW L \in Nat, NEW g, g = [n \in 0..L |-> g[n]], g[0] \in S,
           \A n \in 1..L : g[n - 1] \in S => g[n] \in S
    PROVE  g \in [0..L -> S]
<1>. DEFINE P == {n \in 0..L : g[n] \in S}
<1>1. 0 \in P /\ \A n \in 1..L : n - 1 \in P => n \in P
  OBVIOUS
<1>. HIDE DEF P
<1>2. 0..L \subseteq P
  BY <1>1, InductionUpTo
<1>3. \A n \in 0..L : g[n] \in S
  BY <1>2 DEF P
<1>q. QED
  BY <1>3

(***************************************************************************)
(* The tokens of a rendered context.                                       *)
(***************************************************************************)
Chunks == Children \cup Parents
UnitRecs ==
    [id : Chunks, kind : {"parent", "child"}, doc : Docs, from : Nat, to : Nat,
     anchor : Children, by : SUBSET Children]

\* The running count whose last value Used returns.
Tokens(units) ==
    LET tokens[n \in 0..Len(units)] ==
          IF n = 0 THEN 0
          ELSE tokens[n - 1] + Joiner(n - 1) + (units[n].to - units[n].from)
    IN  tokens

LEMMA TokensCount ==
    ASSUME NEW units \in Seq(UnitRecs)
    PROVE  /\ Tokens(units) \in [0..Len(units) -> Int] /\ Tokens(units)[0] = 0
           /\ \A n \in 1..Len(units) : Tokens(units)[n] =
                Tokens(units)[n - 1] + Joiner(n - 1) + (units[n].to - units[n].from)
           /\ Used(units) = Tokens(units)[Len(units)] /\ Used(units) \in Int
<1>. DEFINE L == Len(units)
            Z == Int
            J == [n \in 1..L |-> Joiner(n - 1)]
            D == [n \in 1..L |-> units[n].to - units[n].from]
            F == [n \in 1..L |-> [x \in Z |-> x + J[n] + D[n]]]
            Body(f) == [n \in 0..L |-> IF n = 0 THEN 0
                          ELSE f[n - 1] + Joiner(n - 1) + (units[n].to - units[n].from)]
            g == Tokens(units)
<1>1. L \in Nat
  OBVIOUS
<1>2. J \in [1..L -> Z] /\ D \in [1..L -> Z]
  <2>1. ASSUME NEW n \in 1..L PROVE Joiner(n - 1) \in Int /\ units[n].to - units[n].from \in Int
    <3>1. units[n] \in UnitRecs
      OBVIOUS
    <3>q. QED
      BY <3>1, StructureAssumption DEF UnitRecs, Joiner
  <2>q. QED
    BY <2>1
<1>3. \A f : Body(f) = [n \in 0..L |-> IF n = 0 THEN 0 ELSE f[n - 1] + J[n] + D[n]]
  <2>1. \A n \in 0..L : n # 0 => n \in 1..L
    BY <1>1
  <2>. HIDE DEF L
  <2>q. QED
    BY <2>1
<1>4. g = CHOOSE h : h = Body(h)
  BY DEF Tokens
<1>5. Used(units) = g[L]
  BY DEF Used, Tokens
<1>. HIDE DEF J, D, L, g, Body
<1>6. F \in [1..L -> [Z -> Z]]
  BY <1>2
<1>7. \A n \in 1..L : \A x \in Z : F[n][x] = x + J[n] + D[n]
  OBVIOUS
<1>8. 0 \in Z
  OBVIOUS
<1>. HIDE DEF F, Z
<1>91. PICK f : f \in Run(F, Z, 0, L)
  BY <1>1, <1>6, <1>8, Iteration
<1>9. f \in [0..L -> Z] /\ f[0] = 0 /\ \A n \in 1..L : f[n] = F[n][f[n - 1]]
  BY <1>91 DEF Run
<1>10. f = Body(f)
  <2>1. ASSUME NEW n \in 0..L, n # 0 PROVE f[n] = f[n - 1] + J[n] + D[n]
    <3>1. n \in 1..L /\ n - 1 \in 0..L
      BY <2>1, <1>1
    <3>q. QED
      BY <1>7, <1>9, <3>1
  <2>q. QED
    BY <1>3, <1>9, <2>1
<1>11. g = [n \in 0..L |-> IF n = 0 THEN 0 ELSE g[n - 1] + J[n] + D[n]]
  <2>1. g = Body(g)
    BY <1>4, <1>10
  <2>q. QED
    BY <1>3, <2>1
<1>12. g = [n \in 0..L |-> g[n]] /\ g[0] = 0 /\ \A n \in 1..L : g[n] = g[n - 1] + J[n] + D[n]
  <2>1. 0 \in 0..L /\ \A n \in 1..L : n \in 0..L /\ n # 0
    BY <1>1
  <2>q. QED
    BY <1>11, <2>1
<1>13. ASSUME NEW n \in 1..L, g[n - 1] \in Z PROVE g[n] \in Z
  <2>1. J[n] \in Int /\ D[n] \in Int /\ g[n - 1] \in Int
    BY <1>2, <1>13 DEF Z
  <2>2. g[n] = g[n - 1] + J[n] + D[n]
    BY <1>12
  <2>3. g[n] \in Int
    BY <2>1, <2>2
  <2>q. QED
    BY <2>3 DEF Z
<1>14. g \in [0..L -> Z]
  BY <1>1, <1>8, <1>12, <1>13, Recurrence
<1>15. g \in [0..L -> Int] /\ g[L] \in Int
  BY <1>1, <1>14 DEF Z
<1>16. \A n \in 1..L : J[n] = Joiner(n - 1) /\ D[n] = units[n].to - units[n].from
  BY DEF J, D
<1>. HIDE DEF J, D
<1>q. QED
  BY <1>5, <1>12, <1>15, <1>16 DEF g, L

\* The count depends on the spans of the units only, and counts from the left.
LEMMA TokensPrefix ==
    ASSUME NEW units \in Seq(UnitRecs), NEW more \in Seq(UnitRecs), Len(units) <= Len(more),
           \A i \in 1..Len(units) : more[i].to = units[i].to /\ more[i].from = units[i].from
    PROVE  \A n \in 0..Len(units) : Tokens(more)[n] = Tokens(units)[n]
<1>. DEFINE L == Len(units)
            P == {n \in 0..L : Tokens(more)[n] = Tokens(units)[n]}
<1>1. L \in Nat /\ Len(more) \in Nat /\ \A n \in 1..L : n \in 1..Len(more)
  OBVIOUS
<1>2. 0 \in P
  BY <1>1, TokensCount
<1>3. ASSUME NEW n \in 1..L, n - 1 \in P PROVE n \in P
  <2>1. Tokens(more)[n] = Tokens(more)[n - 1] + Joiner(n - 1) + (more[n].to - more[n].from)
    BY <1>1, TokensCount
  <2>2. Tokens(units)[n] = Tokens(units)[n - 1] + Joiner(n - 1) + (units[n].to - units[n].from)
    BY TokensCount
  <2>q. QED
    BY <1>1, <1>3, <2>1, <2>2
<1>. HIDE DEF P, L
<1>4. 0..L \subseteq P
  BY <1>1, <1>2, <1>3, InductionUpTo
<1>q. QED
  BY <1>4 DEF P, L

LEMMA UsedAppend ==
    ASSUME NEW units \in Seq(UnitRecs), NEW u \in UnitRecs
    PROVE  Used(Append(units, u)) = Used(units) + Joiner(Len(units)) + (u.to - u.from)
<1>. DEFINE more == Append(units, u)
<1>1. /\ more \in Seq(UnitRecs) /\ Len(more) = Len(units) + 1 /\ more[Len(units) + 1] = u
      /\ \A i \in 1..Len(units) : more[i] = units[i]
  OBVIOUS
<1>. HIDE DEF more
<1>2. Tokens(more)[Len(units)] = Tokens(units)[Len(units)]
  BY <1>1, TokensPrefix
<1>3. Len(more) \in 1..Len(more) /\ Len(more) - 1 = Len(units) /\ more[Len(more)] = u
  BY <1>1
<1>4. Used(more) = Tokens(more)[Len(units)] + Joiner(Len(units)) + (u.to - u.from)
  BY <1>1, <1>3, TokensCount
<1>q. QED
  BY <1>2, <1>4, TokensCount DEF more

LEMMA UsedSame ==
    ASSUME NEW units \in Seq(UnitRecs), NEW more \in Seq(UnitRecs), Len(units) = Len(more),
           \A i \in 1..Len(units) : more[i].to = units[i].to /\ more[i].from = units[i].from
    PROVE  Used(more) = Used(units)
  BY TokensPrefix, TokensCount

(***************************************************************************)
(* The excerpt of a clipped parent.                                        *)
(***************************************************************************)
\* One round of the growth, and the rounds whose last one GrowClip returns.
Grown(parent, room, p) ==
    LET l == IF p[1] > 0 /\ p[2] - (p[1] - 1) <= room THEN p[1] - 1 ELSE p[1]
        r == IF p[2] < LenOf[parent] /\ (p[2] + 1) - l <= room THEN p[2] + 1 ELSE p[2]
    IN  <<l, r>>
Rounds(parent, child, room) ==
    LET span[n \in 0..LenOf[parent]] ==
          IF n = 0 THEN <<At[child], At[child] + LenOf[child]>>
          ELSE LET s == span[n - 1][1]
                   e == span[n - 1][2]
                   l == IF s > 0 /\ e - (s - 1) <= room THEN s - 1 ELSE s
                   r == IF e < LenOf[parent] /\ (e + 1) - l <= room THEN e + 1 ELSE e
               IN  <<l, r>>
    IN  span

\* The excerpts around a child that the room allows.
Spans(parent, child, room) ==
    {p \in Nat \X Nat : /\ p[1] <= At[child] /\ At[child] + LenOf[child] <= p[2]
                        /\ p[2] <= LenOf[parent] /\ p[2] - p[1] <= room}

LEMMA GrownSpan ==
    ASSUME NEW child \in Children, NEW room \in Int, NEW p \in Spans(ParentOf[child], child, room),
           room < LenOf[ParentOf[child]]
    PROVE  LET g == Grown(ParentOf[child], room, p)
           IN  /\ g \in Spans(ParentOf[child], child, room)
               /\ \/ g[2] - g[1] = room
                  \/ g[2] - g[1] > p[2] - p[1]
<1>. DEFINE len == LenOf[ParentOf[child]]
            s == p[1]
            e == p[2]
            l == IF s > 0 /\ e - (s - 1) <= room THEN s - 1 ELSE s
            r == IF e < len /\ (e + 1) - l <= room THEN e + 1 ELSE e
<1>1. len \in Nat /\ LenOf[child] \in Nat /\ At[child] \in Nat
  BY StructureAssumption
<1>2. /\ s \in Nat /\ e \in Nat /\ s <= At[child] /\ At[child] + LenOf[child] <= e
      /\ e <= len /\ e - s <= room
  BY DEF Spans
<1>3. Grown(ParentOf[child], room, p) = <<l, r>>
  BY DEF Grown
<1>. HIDE DEF len, s, e
<1>4. l \in Nat /\ l <= At[child] /\ e - l <= room /\ (l = s \/ l = s - 1)
  BY <1>1, <1>2
<1>5. s > 0 /\ e - s < room => l = s - 1
  BY <1>1, <1>2
<1>. HIDE DEF l
<1>6. r \in Nat /\ e <= r /\ r <= len /\ r - l <= room
  BY <1>1, <1>2, <1>4
<1>7. e < len /\ e - l < room => r = e + 1
  BY <1>1, <1>2, <1>4
<1>. HIDE DEF r
<1>8. <<l, r>> \in Spans(ParentOf[child], child, room)
  BY <1>1, <1>2, <1>4, <1>6 DEF Spans, len
<1>9. r - l = room \/ r - l > e - s
  <2>. SUFFICES ASSUME r - l < room PROVE r - l > e - s
    BY <1>2, <1>4, <1>6
  <2>1. CASE s > 0
    BY <1>1, <1>2, <1>4, <1>5, <1>6, <2>1
  <2>2. CASE s = 0
    <3>1. e < len /\ e - l < room
      BY <1>1, <1>2, <1>4, <1>6, <2>2 DEF len
    <3>q. QED
      BY <1>1, <1>2, <1>4, <1>6, <1>7, <3>1
  <2>q. QED
    BY <1>2, <2>1, <2>2
<1>q. QED
  BY <1>3, <1>8, <1>9 DEF s, e

\* The excerpt contains its anchor's text and takes all the room there is.
LEMMA ClipFills ==
    ASSUME NEW child \in Children, NEW room \in Int,
           LenOf[child] <= room, room < LenOf[ParentOf[child]]
    PROVE  LET g == GrowClip(ParentOf[child], child, room)
           IN  /\ g \in Spans(ParentOf[child], child, room) /\ g[2] - g[1] = room
               /\ g = <<g[1], g[2]>>
<1>. DEFINE parent == ParentOf[child]
            L == LenOf[parent]
            S == Spans(parent, child, room)
            b == <<At[child], At[child] + LenOf[child]>>
            F == [n \in 1..L |-> [p \in S |-> Grown(parent, room, p)]]
            Body(f) == [n \in 0..L |-> IF n = 0 THEN b ELSE Grown(parent, room, f[n - 1])]
            g == Rounds(parent, child, room)
<1>1. L \in Nat /\ LenOf[child] \in Nat /\ At[child] \in Nat /\ At[child] + LenOf[child] <= L
  BY StructureAssumption
<1>2. b \in S
  BY <1>1 DEF Spans
<1>3. ASSUME NEW p \in S PROVE Grown(parent, room, p) \in S
  BY <1>3, GrownSpan
<1>4. g = CHOOSE h : h = Body(h)
  BY DEF Rounds, Grown
<1>5. GrowClip(parent, child, room) = g[L]
  BY DEF GrowClip, Rounds
<1>6. F \in [1..L -> [S -> S]]
  BY <1>3
<1>61. \A n \in 1..L : \A p \in S : F[n][p] = Grown(parent, room, p)
  OBVIOUS
<1>. HIDE DEF L, g, S, F, b, parent
<1>62. L \in Nat
  BY <1>1
<1>7. PICK f : f \in Run(F, S, b, L)
  BY <1>2, <1>6, <1>62, Iteration
<1>71. f \in [0..L -> S] /\ f[0] = b /\ \A n \in 1..L : f[n] = F[n][f[n - 1]]
  BY <1>7 DEF Run
<1>8. f = Body(f)
  <2>1. ASSUME NEW n \in 0..L, n # 0 PROVE f[n] = Grown(parent, room, f[n - 1])
    <3>1. n \in 1..L /\ n - 1 \in 0..L
      BY <2>1, <1>1
    <3>q. QED
      BY <1>61, <1>71, <3>1
  <2>q. QED
    BY <1>71, <2>1
<1>9. g = Body(g)
  <2>. HIDE DEF Body
  <2>q. QED
    BY <1>4, <1>8
<1>10. g = [n \in 0..L |-> g[n]] /\ g[0] = b /\ \A n \in 1..L : g[n] = Grown(parent, room, g[n - 1])
  <2>1. 0 \in 0..L /\ \A n \in 1..L : n \in 0..L /\ n # 0
    BY <1>1
  <2>q. QED
    BY <1>9, <2>1
<1>11. g \in [0..L -> S]
  <2>1. g[0] \in S /\ \A n \in 1..L : g[n - 1] \in S => g[n] \in S
    BY <1>2, <1>3, <1>10
  <2>2. g = [n \in 0..L |-> g[n]]
    BY <1>10
  <2>q. QED
    BY <1>62, <2>1, <2>2, Recurrence
<1>. DEFINE W(n) == g[n][2] - g[n][1]
            P == {n \in 0..L : W(n) = room \/ W(n) >= n}
<1>12. ASSUME NEW n \in 0..L
       PROVE  /\ g[n][1] \in Nat /\ g[n][2] \in Nat /\ W(n) <= room /\ g[n] = <<g[n][1], g[n][2]>>
              /\ W(n) >= LenOf[child]
  <2>1. g[n] \in Spans(ParentOf[child], child, room)
    BY <1>11 DEF S, parent
  <2>q. QED
    BY <1>1, <2>1 DEF Spans
<1>13. 0 \in P
  BY <1>1, <1>12
<1>14. ASSUME NEW n \in 1..L, n - 1 \in P PROVE n \in P
  <2>1. n - 1 \in 0..L /\ n \in 0..L /\ g[n - 1] \in S /\ g[n] = Grown(parent, room, g[n - 1])
    BY <1>62, <1>10, <1>11
  <2>2. W(n) = room \/ W(n) > W(n - 1)
    BY <2>1, GrownSpan DEF S, parent, L
  <2>3. W(n) \in Int /\ W(n - 1) \in Int /\ W(n) <= room /\ W(n - 1) <= room
    BY <1>12, <2>1
  <2>4. W(n - 1) = room \/ W(n - 1) >= n - 1
    BY <1>14
  <2>. HIDE DEF W
  <2>q. QED
    BY <2>1, <2>2, <2>3, <2>4
<1>15. \A n \in 1..L : n - 1 \in P => n \in P
  BY <1>14
<1>16. W(L) = room
  <2>. HIDE DEF P, W
  <2>1. 0..L \subseteq P
    BY <1>1, <1>13, <1>15, InductionUpTo
  <2>2. L \in 0..L /\ L \in P
    BY <1>1, <2>1
  <2>3. W(L) = room \/ W(L) >= L
    BY <2>2 DEF P
  <2>4. W(L) \in Int /\ W(L) <= room /\ room < L
    BY <1>12, <2>2 DEF W, L, parent
  <2>q. QED
    BY <1>1, <2>3, <2>4
<1>q. QED
  BY <1>1, <1>5, <1>11, <1>12, <1>16 DEF S, parent

(***************************************************************************)
(* The expansion of one anchor.                                            *)
(***************************************************************************)
Stops == {"completed", "no_anchors", "anchor_would_not_fit", "child_would_not_fit",
          "parent_clipped_to_budget"}
Contexts == [units : Seq(UnitRecs), full : SUBSET Parents, stop : Stops]
Bare == {"child-only", "neighbors"}

\* What a context keeps while it is built: each chunk once, no child after its
\* whole parent, the budget, and an excerpt only at the end of a full context.
GoodContexts(strategy, budget) ==
    {c \in Contexts :
       /\ \A i \in DOMAIN c.units :
            /\ c.units[i].id \in (IF c.units[i].kind = "child" THEN Children ELSE Parents)
            /\ \A j \in DOMAIN c.units : i < j =>
                 /\ c.units[i].id # c.units[j].id
                 /\ c.units[j].kind = "child" /\ c.units[i].id \in c.full
                      => ParentOf[c.units[j].id] # c.units[i].id
            /\ c.units[i].kind = "parent" /\ c.units[i].id \notin c.full =>
                 /\ c.stop # "completed" /\ i = Len(c.units) /\ Used(c.units) = budget
                 /\ c.units[i].from <= At[c.units[i].anchor]
                 /\ At[c.units[i].anchor] + LenOf[c.units[i].anchor] <= c.units[i].to
       /\ Used(c.units) <= budget
       /\ strategy \in Bare => c.full = {}}

LEMMA EmptyIsGood ==
    ASSUME NEW strategy, NEW budget \in Nat, NEW c,
           c = EmptyContext \/ c = Stopped(EmptyContext, "no_anchors")
    PROVE  c \in GoodContexts(strategy, budget)
<1>0. <<>> \in Seq(UnitRecs) /\ {} \in SUBSET Parents
  OBVIOUS
<1>1. c \in Contexts /\ c.units = <<>> /\ c.full = {}
  <2>1. PICK stop \in Stops : c = [units |-> <<>>, full |-> {}, stop |-> stop]
    BY DEF EmptyContext, Stopped, Stops
  <2>q. QED
    BY <1>0, <2>1 DEF Contexts
<1>2. <<>> \in Seq(UnitRecs) /\ Len(<<>>) = 0
  OBVIOUS
<1>3. Used(<<>>) = 0
  BY <1>2, TokensCount
<1>4. DOMAIN c.units = {}
  BY <1>1
<1>q. QED
  BY <1>1, <1>3, <1>4 DEF GoodContexts

\* A unit whose text fits becomes the last one.
LEMMA EmitKeeps ==
    ASSUME NEW strategy, NEW budget \in Nat, NEW c \in GoodContexts(strategy, budget),
           c.stop = "completed", NEW u \in UnitRecs, NEW full \in SUBSET Parents, NEW stop \in Stops,
           Owner(c.units, u.id) = {}, u.from <= u.to,
           Used(c.units) + Joiner(Len(c.units)) + (u.to - u.from) <= budget,
           \/ /\ u.kind = "child" /\ u.id \in Children /\ full = c.full
              /\ ParentOf[u.id] \notin full
           \/ /\ u.kind = "parent" /\ u.id \in Parents /\ full = c.full \cup {u.id}
              /\ strategy \notin Bare
           \/ /\ u.kind = "parent" /\ u.id \in Parents /\ full = c.full /\ stop # "completed"
              /\ u.from <= At[u.anchor] /\ At[u.anchor] + LenOf[u.anchor] <= u.to
              /\ Used(c.units) + Joiner(Len(c.units)) + (u.to - u.from) = budget,
           NEW d, d = [units |-> Append(c.units, u), full |-> full, stop |-> stop]
    PROVE  d \in GoodContexts(strategy, budget)
<1>1. c \in Contexts /\ c.units \in Seq(UnitRecs) /\ c.full \in SUBSET Parents
  BY DEF GoodContexts, Contexts
<1>. DEFINE L == Len(c.units)
            U == c.units
            V == d.units
<1>2. L \in Nat /\ DOMAIN U = 1..L
  BY <1>1
<1>3. /\ V = Append(U, u) /\ V \in Seq(UnitRecs) /\ Len(V) = L + 1 /\ DOMAIN V = 1..(L + 1)
      /\ V[L + 1] = u /\ \A i \in 1..L : V[i] = U[i]
  BY <1>1
<1>4. d \in Contexts /\ d.full = full /\ d.stop = stop
  BY <1>3 DEF Contexts
<1>5. Used(V) = Used(U) + Joiner(L) + (u.to - u.from)
  BY <1>1, <1>3, UsedAppend
<1>6. \A i \in 1..L : U[i].id # u.id
  BY <1>2 DEF Owner
<1>7. \A i \in 1..L : U[i].id \in (IF U[i].kind = "child" THEN Children ELSE Parents)
  BY <1>2 DEF GoodContexts
<1>8. \A i, j \in 1..L : i < j => /\ U[i].id # U[j].id
                                  /\ U[j].kind = "child" /\ U[i].id \in c.full => ParentOf[U[j].id] # U[i].id
  BY <1>2 DEF GoodContexts
<1>9. \A i \in 1..L : U[i].kind = "parent" => U[i].id \in c.full
  BY <1>2 DEF GoodContexts
<1>10. c.full \subseteq full
  OBVIOUS
<1>. HIDE DEF L, U, V
<1>11. ASSUME NEW i \in DOMAIN V, NEW j \in DOMAIN V, i < j
       PROVE  /\ V[i].id # V[j].id
              /\ V[j].kind = "child" /\ V[i].id \in full => ParentOf[V[j].id] # V[i].id
  <2>1. i \in 1..L /\ V[i] = U[i]
    BY <1>2, <1>3, <1>11
  <2>2. CASE j \in 1..L
    <3>1. V[j] = U[j]
      BY <1>3, <2>2
    <3>2. V[i].id \in full => V[i].id \in c.full
      BY <1>6, <2>1
    <3>q. QED
      BY <1>8, <1>11, <2>1, <2>2, <3>1, <3>2
  <2>3. CASE j = L + 1
    <3>1. V[j] = u
      BY <1>3, <2>3
    <3>q. QED
      BY <1>6, <2>1, <3>1, StructureAssumption
  <2>q. QED
    BY <1>2, <1>3, <2>2, <2>3
<1>12. ASSUME NEW i \in DOMAIN V
       PROVE  /\ V[i].id \in (IF V[i].kind = "child" THEN Children ELSE Parents)
              /\ V[i].kind = "parent" /\ V[i].id \notin full =>
                   /\ stop # "completed" /\ i = Len(V) /\ Used(V) = budget
                   /\ V[i].from <= At[V[i].anchor]
                   /\ At[V[i].anchor] + LenOf[V[i].anchor] <= V[i].to
  <2>1. CASE i \in 1..L
    BY <1>3, <1>7, <1>9, <1>10, <2>1
  <2>2. CASE i = L + 1
    BY <1>3, <1>5, <2>2 DEF L, U
  <2>q. QED
    BY <1>2, <1>3, <2>1, <2>2
<1>13. strategy \in Bare => full = {}
  <2>1. strategy \in Bare => c.full = {}
    BY DEF GoodContexts
  <2>q. QED
    BY <2>1
<1>14. Used(V) <= budget
  BY <1>5 DEF L, U
<1>15. /\ \A i \in DOMAIN V :
            /\ V[i].id \in (IF V[i].kind = "child" THEN Children ELSE Parents)
            /\ \A j \in DOMAIN V : i < j =>
                 /\ V[i].id # V[j].id
                 /\ V[j].kind = "child" /\ V[i].id \in full => ParentOf[V[j].id] # V[i].id
            /\ V[i].kind = "parent" /\ V[i].id \notin full =>
                 /\ stop # "completed" /\ i = Len(V) /\ Used(V) = budget
                 /\ V[i].from <= At[V[i].anchor]
                 /\ At[V[i].anchor] + LenOf[V[i].anchor] <= V[i].to
  BY <1>11, <1>12
<1>q. QED
  BY ONLY <1>4, <1>13, <1>14, <1>15 DEF GoodContexts, V

\* A chunk that is there already gains a contributor and nothing else.
LEMMA DedupKeeps ==
    ASSUME NEW strategy, NEW budget \in Nat, NEW c \in GoodContexts(strategy, budget),
           NEW id, NEW anchor \in Children, NEW d,
           d = [c EXCEPT !.units = RecordDedup(c.units, id, anchor)]
    PROVE  d \in GoodContexts(strategy, budget) /\ d.full = c.full /\ d.stop = c.stop
<1>1. c \in Contexts /\ c.units \in Seq(UnitRecs)
  BY DEF GoodContexts, Contexts
<1>. DEFINE U == c.units
            V == RecordDedup(U, id, anchor)
<1>2. ASSUME NEW i \in DOMAIN U
      PROVE  /\ V[i] \in UnitRecs /\ V[i].id = U[i].id /\ V[i].kind = U[i].kind
             /\ V[i].from = U[i].from /\ V[i].to = U[i].to /\ V[i].anchor = U[i].anchor
  <2>1. U[i] \in UnitRecs
    BY <1>1
  <2>2. V[i] = IF U[i].id = id THEN [U[i] EXCEPT !.by = U[i].by \cup {anchor}] ELSE U[i]
    BY DEF RecordDedup
  <2>q. QED
    BY <2>1, <2>2 DEF UnitRecs
<1>3. V \in Seq(UnitRecs) /\ Len(V) = Len(U) /\ DOMAIN V = DOMAIN U
  <2>1. DOMAIN U = 1..Len(U) /\ Len(U) \in Nat
    BY <1>1
  <2>2. DOMAIN V = DOMAIN U /\ V = [i \in DOMAIN U |-> V[i]]
    BY DEF RecordDedup
  <2>3. V \in [1..Len(U) -> UnitRecs]
    BY <1>2, <2>1, <2>2
  <2>. HIDE DEF V
  <2>q. QED
    BY <2>1, <2>3
<1>4. d = [units |-> V, full |-> c.full, stop |-> c.stop] /\ d \in Contexts
  BY <1>1, <1>3 DEF Contexts
<1>5. Used(V) = Used(U)
  <2>1. \A i \in 1..Len(U) : V[i].to = U[i].to /\ V[i].from = U[i].from
    BY <1>1, <1>2
  <2>. HIDE DEF V
  <2>q. QED
    BY <1>1, <1>3, <2>1, UsedSame
<1>6. d.units = V /\ d.full = c.full /\ d.stop = c.stop
  BY <1>4
<1>7. DOMAIN V = DOMAIN U /\ Len(V) = Len(U)
  BY <1>3
<1>. HIDE DEF V
<1>8. ASSUME NEW i \in DOMAIN V
      PROVE  /\ V[i].id \in (IF V[i].kind = "child" THEN Children ELSE Parents)
             /\ \A j \in DOMAIN V : i < j =>
                  /\ V[i].id # V[j].id
                  /\ V[j].kind = "child" /\ V[i].id \in c.full => ParentOf[V[j].id] # V[i].id
             /\ V[i].kind = "parent" /\ V[i].id \notin c.full =>
                  /\ c.stop # "completed" /\ i = Len(V) /\ Used(V) = budget
                  /\ V[i].from <= At[V[i].anchor]
                  /\ At[V[i].anchor] + LenOf[V[i].anchor] <= V[i].to
  <2>1. i \in DOMAIN U /\ U[i].id \in (IF U[i].kind = "child" THEN Children ELSE Parents)
    BY <1>7 DEF GoodContexts
  <2>2. \A j \in DOMAIN U : i < j =>
          /\ U[i].id # U[j].id
          /\ U[j].kind = "child" /\ U[i].id \in c.full => ParentOf[U[j].id] # U[i].id
    BY <2>1 DEF GoodContexts
  <2>3. U[i].kind = "parent" /\ U[i].id \notin c.full =>
          /\ c.stop # "completed" /\ i = Len(U) /\ Used(U) = budget
          /\ U[i].from <= At[U[i].anchor]
          /\ At[U[i].anchor] + LenOf[U[i].anchor] <= U[i].to
    BY <2>1 DEF GoodContexts
  <2>. HIDE DEF U
  <2>q. QED
    BY <1>2, <1>5, <1>7, <2>1, <2>2, <2>3
<1>9. Used(V) <= budget /\ (strategy \in Bare => c.full = {})
  BY <1>5 DEF GoodContexts
<1>q. QED
  BY ONLY <1>4, <1>6, <1>8, <1>9 DEF GoodContexts

\* Stopping leaves the rest alone.
LEMMA StoppedKeeps ==
    ASSUME NEW strategy, NEW budget \in Nat, NEW c \in GoodContexts(strategy, budget),
           NEW why \in Stops, why # "completed"
    PROVE  [c EXCEPT !.stop = why] \in GoodContexts(strategy, budget)
<1>. DEFINE d == [c EXCEPT !.stop = why]
<1>1. c \in Contexts
  BY DEF GoodContexts
<1>2. d \in Contexts /\ d.units = c.units /\ d.full = c.full /\ d.stop = why
  BY <1>1 DEF Contexts
<1>. HIDE DEF d
<1>3. d \in GoodContexts(strategy, budget)
  BY <1>2 DEF GoodContexts
<1>q. QED
  BY <1>3 DEF d

\* The two steps of a strategy, from a context that is not stopped.
LEMMA ParentKeeps ==
    ASSUME NEW strategy, strategy \notin Bare, NEW budget \in Nat,
           NEW c \in GoodContexts(strategy, budget), c.stop = "completed", NEW child \in Children
    PROVE  HandleParent(c, child, budget) \in GoodContexts(strategy, budget)
<1>. DEFINE p == ParentOf[child]
            used == Used(c.units) + Joiner(Len(c.units))
            room == budget - Used(c.units) - Joiner(Len(c.units))
            clip == GrowClip(p, child, room)
<1>1. c \in Contexts /\ c.units \in Seq(UnitRecs) /\ c.full \in SUBSET Parents
  BY DEF GoodContexts, Contexts
<1>2. /\ p \in Parents /\ p \in Chunks /\ DocOf[child] \in Docs /\ child \in Chunks
      /\ LenOf[p] \in Nat /\ LenOf[child] \in Nat
  BY StructureAssumption DEF Chunks
<1>3. Used(c.units) \in Int /\ Joiner(Len(c.units)) \in Int
  BY <1>1, TokensCount, StructureAssumption DEF Joiner
<1>4. CASE Owner(c.units, p) # {}
  <2>1. HandleParent(c, child, budget) = [c EXCEPT !.units = RecordDedup(c.units, p, child)]
    BY <1>4 DEF HandleParent
  <2>. DEFINE d == HandleParent(c, child, budget)
  <2>. HIDE DEF d, p
  <2>2. d \in GoodContexts(strategy, budget)
    BY <2>1, DedupKeeps DEF d
  <2>q. QED
    BY <2>2 DEF d
<1>5. CASE Owner(c.units, p) = {} /\ Fits(c.units, LenOf[p], budget)
  <2>. DEFINE u == Unit(p, "parent", DocOf[child], 0, LenOf[p], child)
  <2>1. u \in UnitRecs /\ u.id = p /\ u.kind = "parent" /\ u.from = 0 /\ u.to = LenOf[p]
    BY <1>2 DEF Unit, UnitRecs
  <2>2. HandleParent(c, child, budget) =
          [units |-> Append(c.units, u), full |-> c.full \cup {p}, stop |-> "completed"]
    BY <1>1, <1>5 DEF HandleParent, Contexts
  <2>3. used + (u.to - u.from) <= budget /\ u.from <= u.to
    BY <1>2, <1>3, <1>5, <2>1 DEF Fits
  <2>4. c.full \cup {p} \in SUBSET Parents /\ "completed" \in Stops
    BY <1>1, <1>2 DEF Stops
  <2>. HIDE DEF u, p
  <2>5. u.id \in Parents /\ Owner(c.units, u.id) = {} /\ c.full \cup {p} = c.full \cup {u.id}
    BY <1>2, <1>5, <2>1
  <2>q. QED
    BY <2>1, <2>2, <2>3, <2>4, <2>5, EmitKeeps
<1>6. CASE /\ Owner(c.units, p) = {} /\ ~Fits(c.units, LenOf[p], budget)
           /\ ~Fits(c.units, LenOf[child], budget)
  <2>1. HandleParent(c, child, budget) = [c EXCEPT !.stop = "anchor_would_not_fit"]
    BY <1>6 DEF HandleParent, Stopped
  <2>2. "anchor_would_not_fit" \in Stops /\ "anchor_would_not_fit" # "completed"
    BY DEF Stops
  <2>q. QED
    BY <2>1, <2>2, StoppedKeeps
<1>7. CASE /\ Owner(c.units, p) = {} /\ ~Fits(c.units, LenOf[p], budget)
           /\ Fits(c.units, LenOf[child], budget)
  <2>. DEFINE u == Unit(p, "parent", DocOf[child], clip[1], clip[2], child)
  <2>1. room \in Int /\ LenOf[child] <= room /\ room < LenOf[p]
    BY <1>2, <1>3, <1>7 DEF Fits
  <2>2. clip \in Spans(p, child, room) /\ clip[2] - clip[1] = room
    BY <2>1, ClipFills
  <2>. HIDE DEF clip, room
  <2>3. /\ clip[1] \in Nat /\ clip[2] \in Nat /\ clip[1] <= At[child]
        /\ At[child] + LenOf[child] <= clip[2] /\ clip[1] <= clip[2]
    BY <1>2, <2>1, <2>2 DEF Spans
  <2>4. u \in UnitRecs /\ u.id = p /\ u.kind = "parent" /\ u.from = clip[1] /\ u.to = clip[2]
        /\ u.anchor = child
    BY <1>2, <2>3 DEF Unit, UnitRecs
  <2>5. HandleParent(c, child, budget) =
          [units |-> Append(c.units, u), full |-> c.full, stop |-> "parent_clipped_to_budget"]
    BY <1>1, <1>7 DEF HandleParent, Contexts, Stopped, clip, room
  <2>6. used + (u.to - u.from) = budget /\ u.from <= u.to
    BY <1>2, <1>3, <2>2, <2>3, <2>4 DEF room
  <2>7. "parent_clipped_to_budget" \in Stops
    BY DEF Stops
  <2>. HIDE DEF u, p
  <2>8. u.id \in Parents /\ Owner(c.units, u.id) = {}
    BY <1>2, <1>7, <2>4
  <2>9. u.from <= At[u.anchor] /\ At[u.anchor] + LenOf[u.anchor] <= u.to
    BY <2>3, <2>4
  <2>10. used + (u.to - u.from) <= budget
    BY <2>6
  <2>11. "parent_clipped_to_budget" # "completed"
    OBVIOUS
  <2>. DEFINE d == HandleParent(c, child, budget)
  <2>. HIDE DEF d
  <2>12. d \in GoodContexts(strategy, budget)
    BY <1>1, <2>4, <2>5, <2>6, <2>7, <2>8, <2>9, <2>10, <2>11, EmitKeeps DEF d
  <2>q. QED
    BY <2>12 DEF d
<1>q. QED
  BY <1>4, <1>5, <1>6, <1>7

LEMMA ChildKeeps ==
    ASSUME NEW strategy, NEW budget \in Nat,
           NEW c \in GoodContexts(strategy, budget), c.stop = "completed",
           NEW child \in Children, NEW anchor \in Children
    PROVE  TryAddChild(c, child, anchor, budget, c.full) \in GoodContexts(strategy, budget)
<1>1. c \in Contexts /\ c.units \in Seq(UnitRecs) /\ c.full \in SUBSET Parents
  BY DEF GoodContexts, Contexts
<1>2. child \in Chunks /\ DocOf[child] \in Docs /\ LenOf[child] \in Nat
  BY StructureAssumption DEF Chunks
<1>3. Used(c.units) \in Int /\ Joiner(Len(c.units)) \in Int
  BY <1>1, TokensCount, StructureAssumption DEF Joiner
<1>4. CASE ParentOf[child] \in c.full
  BY <1>4 DEF TryAddChild
<1>5. CASE ParentOf[child] \notin c.full /\ Owner(c.units, child) # {}
  <2>1. TryAddChild(c, child, anchor, budget, c.full) =
          [c EXCEPT !.units = RecordDedup(c.units, child, anchor)]
    BY <1>5 DEF TryAddChild
  <2>. DEFINE d == TryAddChild(c, child, anchor, budget, c.full)
  <2>2. d = [c EXCEPT !.units = RecordDedup(c.units, child, anchor)]
    BY <2>1
  <2>. HIDE DEF d
  <2>3. d \in GoodContexts(strategy, budget)
    BY <2>2, DedupKeeps, Zenon
  <2>q. QED
    BY <2>3 DEF d
<1>6. CASE /\ ParentOf[child] \notin c.full /\ Owner(c.units, child) = {}
           /\ ~Fits(c.units, LenOf[child], budget)
  <2>1. TryAddChild(c, child, anchor, budget, c.full) = [c EXCEPT !.stop = "child_would_not_fit"]
    BY <1>6 DEF TryAddChild, Stopped
  <2>2. "child_would_not_fit" \in Stops /\ "child_would_not_fit" # "completed"
    BY DEF Stops
  <2>q. QED
    BY <2>1, <2>2, StoppedKeeps
<1>7. CASE /\ ParentOf[child] \notin c.full /\ Owner(c.units, child) = {}
           /\ Fits(c.units, LenOf[child], budget)
  <2>. DEFINE u == Unit(child, "child", DocOf[child], 0, LenOf[child], anchor)
  <2>1. u \in UnitRecs /\ u.id = child /\ u.kind = "child" /\ u.from = 0 /\ u.to = LenOf[child]
    BY <1>2 DEF Unit, UnitRecs
  <2>2. TryAddChild(c, child, anchor, budget, c.full) =
          [units |-> Append(c.units, u), full |-> c.full, stop |-> "completed"]
    BY <1>1, <1>7 DEF TryAddChild, Contexts
  <2>3. Used(c.units) + Joiner(Len(c.units)) + (u.to - u.from) <= budget /\ u.from <= u.to
    BY <1>2, <1>3, <1>7, <2>1 DEF Fits
  <2>4. "completed" \in Stops
    BY DEF Stops
  <2>. HIDE DEF u
  <2>5. u.id \in Children /\ Owner(c.units, u.id) = {} /\ ParentOf[u.id] \notin c.full
    BY <1>7, <2>1
  <2>q. QED
    BY <1>1, <2>1, <2>2, <2>3, <2>4, <2>5, EmitKeeps
<1>q. QED
  BY <1>4, <1>5, <1>6, <1>7

\* A walk stays among the children, or has left the document.
LEMMA WalkStays ==
    ASSUME NEW anchor \in Children, NEW Hop, \A c \in Children : Hop[c] \in Children \cup {0}
    PROVE  Walk(anchor, Hop) \in [0..Window -> Children \cup {0}]
<1>. DEFINE S == Children \cup {0}
            Next1(x) == IF x = 0 THEN 0 ELSE Hop[x]
            F == [n \in 1..Window |-> [x \in S |-> Next1(x)]]
            Body(f) == [n \in 0..Window |-> IF n = 0 THEN anchor ELSE Next1(f[n - 1])]
            g == Walk(anchor, Hop)
<1>1. Window \in Nat /\ anchor \in S
  BY StructureAssumption
<1>2. \A x \in S : Next1(x) \in S
  OBVIOUS
<1>3. g = CHOOSE h : h = Body(h)
  BY DEF Walk
<1>. HIDE DEF S, g, Next1
<1>4. F \in [1..Window -> [S -> S]]
  BY <1>2
<1>5. \A n \in 1..Window : \A x \in S : F[n][x] = Next1(x)
  OBVIOUS
<1>. HIDE DEF F
<1>6. PICK f : f \in Run(F, S, anchor, Window)
  BY <1>1, <1>4, Iteration
<1>7. f \in [0..Window -> S] /\ f[0] = anchor /\ \A n \in 1..Window : f[n] = F[n][f[n - 1]]
  BY <1>6 DEF Run
<1>8. f = Body(f)
  <2>1. ASSUME NEW n \in 0..Window, n # 0 PROVE f[n] = Next1(f[n - 1])
    <3>1. n \in 1..Window /\ n - 1 \in 0..Window
      BY <2>1, <1>1
    <3>q. QED
      BY <1>5, <1>7, <3>1
  <2>q. QED
    BY <1>7, <2>1
<1>9. g = Body(g)
  <2>. HIDE DEF Body
  <2>q. QED
    BY <1>3, <1>8
<1>10. g = [n \in 0..Window |-> g[n]] /\ g[0] = anchor /\ \A n \in 1..Window : g[n] = Next1(g[n - 1])
  <2>1. 0 \in 0..Window /\ \A n \in 1..Window : n \in 0..Window /\ n # 0
    BY <1>1
  <2>q. QED
    BY <1>9, <2>1
<1>11. g \in [0..Window -> S]
  <2>1. g[0] \in S /\ \A n \in 1..Window : g[n - 1] \in S => g[n] \in S
    BY <1>1, <1>2, <1>10
  <2>2. g = [n \in 0..Window |-> g[n]]
    BY <1>10
  <2>q. QED
    BY <1>1, <2>1, <2>2, Recurrence
<1>q. QED
  BY <1>11 DEF g, S

LEMMA WindowOf ==
    ASSUME NEW anchor \in Children
    PROVE  /\ NeighborWindow(anchor) \in [1..(2 * Window + 1) -> Children \cup {0}]
           /\ Len(NeighborWindow(anchor)) = 2 * Window + 1 /\ 2 * Window + 1 \in Nat
<1>1. Window \in Nat
  BY StructureAssumption
<1>2. /\ Walk(anchor, PrevOf) \in [0..Window -> Children \cup {0}]
      /\ Walk(anchor, NextOf) \in [0..Window -> Children \cup {0}]
  <2>1. \A c \in Children : PrevOf[c] \in Children \cup {0} /\ NextOf[c] \in Children \cup {0}
    BY StructureAssumption
  <2>q. QED
    BY <2>1, WalkStays
<1>3. ASSUME NEW i \in 1..(2 * Window + 1)
      PROVE  NeighborWindow(anchor)[i] \in Children \cup {0}
  <2>1. CASE i <= Window
    <3>1. Window + 1 - i \in 0..Window
      BY <1>1, <2>1
    <3>q. QED
      BY <1>2, <2>1, <3>1 DEF NeighborWindow
  <2>2. CASE ~(i <= Window)
    <3>1. i - Window - 1 \in 0..Window
      BY <1>1, <2>2
    <3>q. QED
      BY <1>2, <2>2, <3>1 DEF NeighborWindow
  <2>q. QED
    BY <2>1, <2>2
<1>4. NeighborWindow(anchor) = [i \in 1..(2 * Window + 1) |-> NeighborWindow(anchor)[i]]
  BY DEF NeighborWindow
<1>5. NeighborWindow(anchor) \in [1..(2 * Window + 1) -> Children \cup {0}]
  BY <1>3, <1>4
<1>6. 2 * Window + 1 \in Nat
  BY <1>1
<1>q. QED
  BY <1>5, <1>6

LEMMA NeighborsKeep ==
    ASSUME NEW strategy, NEW budget \in Nat, NEW c \in GoodContexts(strategy, budget),
           NEW anchor \in Children, NEW contain \in BOOLEAN, contain \/ strategy \in Bare
    PROVE  HandleNeighbors(c, anchor, budget, contain) \in GoodContexts(strategy, budget)
<1>. DEFINE S == GoodContexts(strategy, budget)
            window == NeighborWindow(anchor)
            L == Len(window)
            Add(a, n) == IF a.stop # "completed" \/ window[n] = 0 THEN a
                         ELSE TryAddChild(a, window[n], anchor, budget,
                                          IF contain THEN a.full ELSE {})
            F == [n \in 1..L |-> [a \in S |-> Add(a, n)]]
            Body(f) == [n \in 0..L |-> IF n = 0 THEN c ELSE Add(f[n - 1], n)]
            g == CHOOSE h : h = Body(h)
<1>1. L \in Nat /\ \A n \in 1..L : window[n] \in Children \cup {0}
  BY WindowOf
<1>2. ASSUME NEW n \in 1..L, NEW a \in S PROVE Add(a, n) \in S
  <2>1. CASE a.stop # "completed" \/ window[n] = 0
    BY <2>1
  <2>2. CASE a.stop = "completed" /\ window[n] # 0
    <3>1. window[n] \in Children
      BY <1>1, <2>2
    <3>2. (IF contain THEN a.full ELSE {}) = a.full
      BY DEF GoodContexts
    <3>. HIDE DEF window, L
    <3>3. Add(a, n) = TryAddChild(a, window[n], anchor, budget, a.full)
      BY <2>2, <3>2
    <3>4. TryAddChild(a, window[n], anchor, budget, a.full) \in S
      BY <2>2, <3>1, ChildKeeps
    <3>q. QED
      BY <3>3, <3>4
  <2>q. QED
    BY <2>1, <2>2
<1>3. HandleNeighbors(c, anchor, budget, contain) = g[L]
  BY DEF HandleNeighbors
<1>. HIDE DEF S, L, Add
<1>4. F \in [1..L -> [S -> S]]
  BY <1>2
<1>5. \A n \in 1..L : \A a \in S : F[n][a] = Add(a, n)
  OBVIOUS
<1>6. c \in S
  BY DEF S
<1>. HIDE DEF F
<1>7. PICK f : f \in Run(F, S, c, L)
  BY <1>1, <1>4, <1>6, Iteration
<1>8. f \in [0..L -> S] /\ f[0] = c /\ \A n \in 1..L : f[n] = F[n][f[n - 1]]
  BY <1>7 DEF Run
<1>9. f = Body(f)
  <2>1. ASSUME NEW n \in 0..L, n # 0 PROVE f[n] = Add(f[n - 1], n)
    <3>1. n \in 1..L /\ n - 1 \in 0..L
      BY <2>1, <1>1
    <3>q. QED
      BY <1>5, <1>8, <3>1
  <2>q. QED
    BY <1>8, <2>1
<1>10. g = Body(g)
  <2>. HIDE DEF Body
  <2>q. QED
    BY <1>9
<1>. HIDE DEF g
<1>11. g = [n \in 0..L |-> g[n]] /\ g[0] = c /\ \A n \in 1..L : g[n] = Add(g[n - 1], n)
  <2>1. 0 \in 0..L /\ \A n \in 1..L : n \in 0..L /\ n # 0
    BY <1>1
  <2>q. QED
    BY <1>10, <2>1
<1>12. g \in [0..L -> S]
  <2>1. g[0] \in S /\ \A n \in 1..L : g[n - 1] \in S => g[n] \in S
    BY <1>2, <1>6, <1>11
  <2>2. g = [n \in 0..L |-> g[n]]
    BY <1>11
  <2>q. QED
    BY <1>1, <2>1, <2>2, Recurrence
<1>q. QED
  BY <1>1, <1>3, <1>12 DEF S

\* Whatever the strategy, one more anchor leaves the context good.
LEMMA ExpandKeeps ==
    ASSUME NEW strategy \in Strategies, NEW budget \in Nat,
           NEW c \in GoodContexts(strategy, budget), c.stop = "completed", NEW anchor \in Children
    PROVE  Expand(c, anchor, strategy, budget) \in GoodContexts(strategy, budget)
<1>1. CASE strategy = "child-only"
  <2>1. c.full = {}
    BY <1>1 DEF GoodContexts, Bare
  <2>2. Expand(c, anchor, strategy, budget) = TryAddChild(c, anchor, anchor, budget, c.full)
    BY <1>1, <2>1 DEF Expand
  <2>q. QED
    BY <2>2, ChildKeeps
<1>2. CASE strategy = "parent"
  <2>1. Expand(c, anchor, strategy, budget) = HandleParent(c, anchor, budget)
    BY <1>2 DEF Expand
  <2>2. strategy \notin Bare
    BY <1>2 DEF Bare
  <2>q. QED
    BY <2>1, <2>2, ParentKeeps
<1>3. CASE strategy = "neighbors"
  <2>1. Expand(c, anchor, strategy, budget) = HandleNeighbors(c, anchor, budget, FALSE)
    BY <1>3 DEF Expand
  <2>2. strategy \in Bare
    BY <1>3 DEF Bare
  <2>q. QED
    BY <2>1, <2>2, NeighborsKeep
<1>4. CASE strategy = "parent+neighbors"
  <2>. DEFINE p == HandleParent(c, anchor, budget)
  <2>1. Expand(c, anchor, strategy, budget) =
          IF p.stop # "completed" THEN p ELSE HandleNeighbors(p, anchor, budget, TRUE)
    BY <1>4 DEF Expand
  <2>2. strategy \notin Bare
    BY <1>4 DEF Bare
  <2>3. p \in GoodContexts(strategy, budget)
    BY <2>2, ParentKeeps
  <2>. HIDE DEF p
  <2>4. HandleNeighbors(p, anchor, budget, TRUE) \in GoodContexts(strategy, budget)
    BY <2>3, NeighborsKeep
  <2>q. QED
    BY <2>1, <2>3, <2>4
<1>q. QED
  BY <1>1, <1>2, <1>3, <1>4, AnswerAssumption

(***************************************************************************)
(* Sorting.                                                                *)
(***************************************************************************)
StrictOrder(R, S) ==
    /\ \A a \in S : <<a, a>> \notin R
    /\ \A a, b \in S : a # b => <<a, b>> \in R \/ <<b, a>> \in R
    /\ \A a, b, c \in S : <<a, b>> \in R /\ <<b, c>> \in R => <<a, c>> \in R

InOrder(R, S, n) == {s \in [1..n -> S] : \A i, j \in 1..n : i < j => <<s[i], s[j]>> \in R}

\* An element finds its place in an ordered sequence of others.
LEMMA Insertion ==
    ASSUME NEW R, NEW T, StrictOrder(R, T), NEW x \in T, NEW n \in Nat,
           NEW s \in InOrder(R, T \ {x}, n)
    PROVE  InOrder(R, T, n + 1) # {}
<1>. DEFINE K == {i \in 1..n : <<x, s[i]>> \in R} \cup {n + 1}
<1>1. s \in [1..n -> T \ {x}] /\ \A i, j \in 1..n : i < j => <<s[i], s[j]>> \in R
  BY DEF InOrder
<1>2. PICK k \in K : \A y \in K : k <= y
  <2>1. K \subseteq Nat /\ K # {}
    OBVIOUS
  <2>. HIDE DEF K
  <2>q. QED
    BY <2>1, LeastOf
<1>3. k \in 1..(n + 1)
  BY <1>2
<1>4. ASSUME NEW i \in 1..n, i < k PROVE <<s[i], x>> \in R
  <2>1. i \notin K /\ s[i] \in T /\ s[i] # x
    BY <1>1, <1>2, <1>3, <1>4
  <2>q. QED
    BY <2>1 DEF StrictOrder
<1>5. ASSUME NEW i \in 1..n, k <= i PROVE <<x, s[i]>> \in R
  <2>1. k \in 1..n /\ <<x, s[k]>> \in R
    BY <1>2, <1>3, <1>5
  <2>2. CASE i = k
    BY <2>1, <2>2
  <2>3. CASE i # k
    <3>1. <<s[k], s[i]>> \in R /\ s[k] \in T /\ s[i] \in T
      BY <1>1, <1>5, <2>1, <2>3
    <3>q. QED
      BY <2>1, <3>1 DEF StrictOrder
  <2>q. QED
    BY <2>2, <2>3
<1>. DEFINE t == [i \in 1..(n + 1) |-> IF i < k THEN s[i] ELSE IF i = k THEN x ELSE s[i - 1]]
<1>. HIDE DEF K
<1>6. ASSUME NEW i \in 1..(n + 1)
      PROVE  /\ i < k => i \in 1..n /\ t[i] = s[i]
             /\ i = k => t[i] = x
             /\ i > k => i - 1 \in 1..n /\ t[i] = s[i - 1]
  BY <1>3
<1>. HIDE DEF t
<1>7. ASSUME NEW i \in 1..(n + 1) PROVE t[i] \in T
  BY <1>1, <1>3, <1>6
<1>8. t \in [1..(n + 1) -> T]
  BY <1>7 DEF t
<1>9. ASSUME NEW i \in 1..(n + 1), NEW j \in 1..(n + 1), i < j PROVE <<t[i], t[j]>> \in R
  <2>1. CASE j < k
    BY <1>1, <1>3, <1>6, <1>9, <2>1
  <2>2. CASE j = k
    BY <1>3, <1>4, <1>6, <1>9, <2>2
  <2>3. CASE j > k /\ i < k
    <3>1. i \in 1..n /\ j - 1 \in 1..n /\ i < j - 1 /\ t[i] = s[i] /\ t[j] = s[j - 1]
      BY <1>3, <1>6, <1>9, <2>3
    <3>q. QED
      BY <1>1, <3>1
  <2>4. CASE j > k /\ i = k
    <3>1. j - 1 \in 1..n /\ k <= j - 1 /\ t[i] = x /\ t[j] = s[j - 1]
      BY <1>3, <1>6, <1>9, <2>4
    <3>q. QED
      BY <1>5, <3>1
  <2>5. CASE j > k /\ i > k
    <3>1. i - 1 \in 1..n /\ j - 1 \in 1..n /\ i - 1 < j - 1 /\ t[i] = s[i - 1] /\ t[j] = s[j - 1]
      BY <1>3, <1>6, <1>9, <2>5
    <3>q. QED
      BY <1>1, <3>1
  <2>q. QED
    BY <1>3, <2>1, <2>2, <2>3, <2>4, <2>5
<1>10. t \in InOrder(R, T, n + 1)
  BY <1>8, <1>9 DEF InOrder
<1>q. QED
  BY <1>10

LEMMA SortExists ==
    ASSUME NEW R, NEW S, IsFiniteSet(S), StrictOrder(R, S)
    PROVE  InOrder(R, S, Cardinality(S)) # {}
<1>. DEFINE N == Cardinality(S)
            P == {n \in 0..N : \A T \in SUBSET S : Cardinality(T) = n => InOrder(R, T, n) # {}}
<1>1. N \in Nat
  BY FS_CardinalityType
<1>2. ASSUME NEW T \in SUBSET S
      PROVE  /\ IsFiniteSet(T) /\ Cardinality(T) \in Nat /\ (Cardinality(T) = 0 => T = {})
             /\ StrictOrder(R, T)
  <2>1. IsFiniteSet(T)
    BY FS_Subset
  <2>2. Cardinality(T) \in Nat /\ (Cardinality(T) = 0 => T = {})
    BY <2>1, FS_CardinalityType, FS_EmptySet
  <2>3. StrictOrder(R, T)
    BY DEF StrictOrder
  <2>q. QED
    BY <2>1, <2>2, <2>3
<1>3. 0 \in P
  <2>1. ASSUME NEW T PROVE InOrder(R, T, 0) # {}
    <3>1. <<>> \in [1..0 -> T]
      OBVIOUS
    <3>2. <<>> \in InOrder(R, T, 0)
      BY <3>1 DEF InOrder
    <3>q. QED
      BY <3>2
  <2>q. QED
    BY <1>1, <2>1
<1>4. ASSUME NEW n \in 1..N, n - 1 \in P PROVE n \in P
  <2>1. ASSUME NEW T \in SUBSET S, Cardinality(T) = n PROVE InOrder(R, T, n) # {}
    <3>1. T # {}
      BY <2>1, FS_EmptySet
    <3>2. PICK x \in T : TRUE
      BY <3>1
    <3>3. Cardinality(T \ {x}) = n - 1 /\ T \ {x} \in SUBSET S
      BY <1>2, <2>1, FS_RemoveElement
    <3>4. PICK s : s \in InOrder(R, T \ {x}, n - 1)
      BY <1>4, <3>3
    <3>5. n - 1 \in Nat /\ (n - 1) + 1 = n
      OBVIOUS
    <3>6. InOrder(R, T, (n - 1) + 1) # {}
      BY <1>2, <3>4, <3>5, Insertion
    <3>q. QED
      BY <3>5, <3>6
  <2>q. QED
    BY <2>1
<1>5. \A n \in 1..N : n - 1 \in P => n \in P
  BY <1>4
<1>. HIDE DEF P, N
<1>6. 0..N \subseteq P
  BY <1>1, <1>3, <1>5, InductionUpTo
<1>7. N \in P
  BY <1>1, <1>6
<1>q. QED
  BY <1>7 DEF P, N

\* A sequence in strict order, as long as its set is large, holds all of it.
LEMMA SortIsComplete ==
    ASSUME NEW R, NEW S, IsFiniteSet(S), StrictOrder(R, S), NEW s \in InOrder(R, S, Cardinality(S))
    PROVE  /\ s \in Seq(S) /\ Len(s) = Cardinality(S) /\ ToSet(s) = S
           /\ \A i, j \in 1..Len(s) : s[i] = s[j] => i = j
<1>. DEFINE N == Cardinality(S)
<1>1. N \in Nat /\ s \in [1..N -> S] /\ \A i, j \in 1..N : i < j => <<s[i], s[j]>> \in R
  BY FS_CardinalityType DEF InOrder
<1>2. \A i, j \in 1..N : s[i] = s[j] => i = j
  <2>. SUFFICES ASSUME NEW i \in 1..N, NEW j \in 1..N, s[i] = s[j], i < j PROVE FALSE
    BY <1>1
  <2>q. QED
    BY <1>1 DEF StrictOrder
<1>3. s \in Injection(1..N, S)
  BY <1>1, <1>2 DEF Injection, IsInjective
<1>4. Cardinality(1..N) = N /\ IsFiniteSet(1..N)
  BY <1>1, FS_Interval
<1>5. s \in Surjection(1..N, S)
  <2>. HIDE DEF N
  <2>1. Cardinality(1..N) = Cardinality(S)
    BY <1>4 DEF N
  <2>q. QED
    BY <1>3, <2>1, FS_Injection
<1>6. \A x \in S : \E i \in 1..N : s[i] = x
  BY <1>5 DEF Surjection
<1>7. s \in Seq(S) /\ Len(s) = N /\ DOMAIN s = 1..N
  <2>. HIDE DEF N
  <2>q. QED
    BY <1>1
<1>q. QED
  BY <1>1, <1>2, <1>6, <1>7 DEF ToSet

(***************************************************************************)
(* Fusion.                                                                 *)
(***************************************************************************)
LEMMA ProductOrder ==
    ASSUME NEW x \in Int, NEW y \in Int, NEW z \in Int, z > 0
    PROVE  /\ x > y <=> x * z > y * z
           /\ x >= y <=> x * z >= y * z
  OBVIOUS

\* Comparing fractions by cross products is transitive.
LEMMA FractionsCompare ==
    ASSUME NEW n1 \in Nat, NEW n2 \in Nat, NEW n3 \in Nat,
           NEW d1 \in Nat \ {0}, NEW d2 \in Nat \ {0}, NEW d3 \in Nat \ {0},
           n1 * d2 >= n2 * d1, n2 * d3 >= n3 * d2
    PROVE  /\ n1 * d3 >= n3 * d1
           /\ n1 * d2 > n2 * d1 \/ n2 * d3 > n3 * d2 => n1 * d3 > n3 * d1
           /\ n1 * d3 = n3 * d1 => n1 * d2 = n2 * d1 /\ n2 * d3 = n3 * d2
<1>. DEFINE a == n1 * d2
            b == n2 * d1
            c == n2 * d3
            e == n3 * d2
            f == n1 * d3
            g == n3 * d1
<1>1. /\ a \in Int /\ b \in Int /\ c \in Int /\ e \in Int /\ f \in Int /\ g \in Int
      /\ d1 \in Int /\ d2 \in Int /\ d3 \in Int /\ d1 > 0 /\ d2 > 0 /\ d3 > 0
  OBVIOUS
<1>2. a * d3 = f * d2 /\ b * d3 = c * d1 /\ e * d1 = g * d2
  OBVIOUS
<1>3. a >= b /\ c >= e
  OBVIOUS
<1>. HIDE DEF a, b, c, e, f, g
<1>4. a * d3 >= b * d3 /\ c * d1 >= e * d1
  BY <1>1, <1>3, ProductOrder
<1>5. (a > b => a * d3 > b * d3) /\ (c > e => c * d1 > e * d1)
  BY <1>1, ProductOrder
<1>6. (f * d2 >= g * d2 => f >= g) /\ (f * d2 > g * d2 => f > g)
  BY <1>1, ProductOrder
<1>7. f >= g /\ (a > b \/ c > e => f > g)
  <2>. DEFINE p == f * d2
              o == c * d1
              r == g * d2
  <2>1. p \in Int /\ o \in Int /\ r \in Int
    BY <1>1
  <2>2. p >= o /\ o >= r /\ (a > b => p > o) /\ (c > e => o > r)
    BY <1>2, <1>4, <1>5
  <2>3. (p >= r => f >= g) /\ (p > r => f > g)
    BY <1>6
  <2>. HIDE DEF p, o, r
  <2>4. p >= r /\ (a > b \/ c > e => p > r)
    BY <2>1, <2>2
  <2>q. QED
    BY <2>3, <2>4
<1>8. f = g => a = b /\ c = e
  BY <1>1, <1>3, <1>7
<1>q. QED
  BY <1>7, <1>8 DEF a, b, c, e, f, g

\* A fraction that is at least another in both its terms, and more in one.
LEMMA SumsCompare ==
    ASSUME NEW p1 \in Int, NEW r1 \in Int, NEW p2 \in Int, NEW r2 \in Int,
           NEW d1 \in Nat \ {0}, NEW l1 \in Nat \ {0}, NEW d2 \in Nat \ {0}, NEW l2 \in Nat \ {0},
           p1 * d2 >= p2 * d1, r1 * l2 >= r2 * l1, p1 * d2 > p2 * d1 \/ r1 * l2 > r2 * l1
    PROVE  (p1 * l1 + r1 * d1) * (d2 * l2) > (p2 * l2 + r2 * d2) * (d1 * l1)
<1>. DEFINE X == p1 * d2 - p2 * d1
            Y == r1 * l2 - r2 * l1
            U == l1 * l2
            V == d1 * d2
<1>1. /\ X \in Int /\ Y \in Int /\ U \in Int /\ V \in Int
      /\ X >= 0 /\ Y >= 0 /\ (X > 0 \/ Y > 0) /\ U > 0 /\ V > 0
  OBVIOUS
<1>2. (p1 * l1 + r1 * d1) * (d2 * l2) - (p2 * l2 + r2 * d2) * (d1 * l1) = X * U + Y * V
  OBVIOUS
<1>3. /\ (p1 * l1 + r1 * d1) * (d2 * l2) \in Int
      /\ (p2 * l2 + r2 * d2) * (d1 * l1) \in Int
  OBVIOUS
<1>. HIDE DEF X, Y, U, V
<1>4. X * U + Y * V > 0
  <2>1. X * U >= 0 /\ (X > 0 => X * U > 0) /\ Y * V >= 0 /\ (Y > 0 => Y * V > 0)
    BY <1>1, ProductOrder
  <2>q. QED
    BY <1>1, <2>1
<1>q. QED
  BY <1>2, <1>3, <1>4

LEMMA RankOf ==
    ASSUME NEW s \in Seq(Children), NEW c \in ToSet(s)
    PROVE  RankIn(s, c) \in 1..Len(s) /\ s[RankIn(s, c)] = c
  BY DEF ToSet, RankIn

LEMMA MembersOf ==
    ASSUME NEW S, NEW s \in Seq(S)
    PROVE  /\ ToSet(s) \subseteq S /\ IsFiniteSet(ToSet(s))
           /\ \A i \in 1..Len(s) : s[i] \in ToSet(s)
<1>1. DOMAIN s = 1..Len(s) /\ Len(s) \in Nat
  OBVIOUS
<1>2. IsFiniteSet(1..Len(s))
  BY <1>1, FS_Interval
<1>3. s \in Surjection(1..Len(s), ToSet(s))
  BY <1>1 DEF Surjection, ToSet
<1>4. IsFiniteSet(ToSet(s))
  BY <1>2, <1>3, FS_Surjection
<1>q. QED
  BY <1>1, <1>4 DEF ToSet

Branches(dl, lx) == ToSet(dl) \cup ToSet(lx)

\* A score's terms: a branch that misses the chunk counts 0, over 1.
Present(s, c) == IF c \in ToSet(s) THEN 1 ELSE 0
Place(s, c)   == IF c \in ToSet(s) THEN RrfK + RankIn(s, c) ELSE 1

LEMMA PlaceOf ==
    ASSUME NEW s \in Seq(Children), NEW c
    PROVE  Place(s, c) \in Nat \ {0} /\ Present(s, c) \in {0, 1}
<1>1. RrfK \in Nat \ {0}
  BY StructureAssumption
<1>2. c \in ToSet(s) => RankIn(s, c) \in Nat
  BY RankOf
<1>q. QED
  BY <1>1, <1>2 DEF Place, Present

LEMMA ScoreOf ==
    ASSUME NEW dl \in Seq(Children), NEW lx \in Seq(Children), NEW c
    PROVE  /\ Score(dl, lx, c).num = Present(dl, c) * Place(lx, c) + Present(lx, c) * Place(dl, c)
           /\ Score(dl, lx, c).den = Place(dl, c) * Place(lx, c)
           /\ Score(dl, lx, c).num \in Nat /\ Score(dl, lx, c).den \in Nat \ {0}
<1>. DEFINE d == Place(dl, c)
            l == Place(lx, c)
            p == Present(dl, c)
            r == Present(lx, c)
<1>1. d \in Nat \ {0} /\ l \in Nat \ {0} /\ p \in {0, 1} /\ r \in {0, 1}
  BY PlaceOf
<1>2. Score(dl, lx, c) = [num |-> (IF c \in ToSet(dl) THEN l ELSE 0) + (IF c \in ToSet(lx) THEN d ELSE 0),
                          den |-> d * l]
  BY DEF Score, Place
<1>3. (c \in ToSet(dl) => p = 1) /\ (c \notin ToSet(dl) => p = 0)
  BY DEF Present
<1>4. (c \in ToSet(lx) => r = 1) /\ (c \notin ToSet(lx) => r = 0)
  BY DEF Present
<1>. HIDE DEF d, l, p, r
<1>5. (IF c \in ToSet(dl) THEN l ELSE 0) = p * l /\ (IF c \in ToSet(lx) THEN d ELSE 0) = r * d
  BY <1>1, <1>3, <1>4
<1>6. p * l \in Nat /\ r * d \in Nat /\ d * l \in Nat \ {0}
  BY <1>1
<1>7. Score(dl, lx, c).num = p * l + r * d /\ Score(dl, lx, c).den = d * l
  BY <1>2, <1>5
<1>8. Score(dl, lx, c).num \in Nat /\ Score(dl, lx, c).den \in Nat \ {0}
  BY <1>6, <1>7
<1>q. QED
  BY <1>7, <1>8 DEF d, l, p, r

FuseOrder(dl, lx) ==
    {p \in Branches(dl, lx) \X Branches(dl, lx) :
       \/ Above(Score(dl, lx, p[1]), Score(dl, lx, p[2]))
       \/ Ties(Score(dl, lx, p[1]), Score(dl, lx, p[2])) /\ p[1] < p[2]}

LEMMA FuseOrdered ==
    ASSUME NEW dl \in Seq(Children), NEW lx \in Seq(Children)
    PROVE  /\ StrictOrder(FuseOrder(dl, lx), Branches(dl, lx))
           /\ IsFiniteSet(Branches(dl, lx)) /\ Branches(dl, lx) \subseteq Children
<1>. DEFINE C == Branches(dl, lx)
            Num(c) == Score(dl, lx, c).num
            Den(c) == Score(dl, lx, c).den
<1>1. IsFiniteSet(C) /\ C \subseteq Children
  <2>1. IsFiniteSet(ToSet(dl)) /\ IsFiniteSet(ToSet(lx)) /\ C \subseteq Children
    BY MembersOf DEF Branches
  <2>q. QED
    BY <2>1, FS_Union DEF Branches
<1>2. \A c : Num(c) \in Nat /\ Den(c) \in Nat \ {0}
  BY ScoreOf
<1>3. \A a, b \in C : <<a, b>> \in FuseOrder(dl, lx) <=>
        \/ Num(a) * Den(b) > Num(b) * Den(a)
        \/ Num(a) * Den(b) = Num(b) * Den(a) /\ a < b
  BY DEF FuseOrder, Above, Ties
<1>4. \A a \in C : a \in Nat
  BY <1>1, StructureAssumption
<1>. HIDE DEF C, Num, Den
<1>5. \A a, b \in C : Num(a) * Den(b) \in Int
  BY <1>2
<1>6. \A a \in C : <<a, a>> \notin FuseOrder(dl, lx)
  BY <1>3, <1>4, <1>5
<1>7. ASSUME NEW a \in C, NEW b \in C, a # b
      PROVE  <<a, b>> \in FuseOrder(dl, lx) \/ <<b, a>> \in FuseOrder(dl, lx)
  <2>1. Num(a) * Den(b) \in Int /\ Num(b) * Den(a) \in Int /\ a \in Nat /\ b \in Nat
    BY <1>4, <1>5
  <2>q. QED
    BY <1>3, <1>7, <2>1
<1>8. ASSUME NEW a \in C, NEW b \in C, NEW c \in C,
             <<a, b>> \in FuseOrder(dl, lx), <<b, c>> \in FuseOrder(dl, lx)
      PROVE  <<a, c>> \in FuseOrder(dl, lx)
  <2>1. /\ Num(a) \in Nat /\ Num(b) \in Nat /\ Num(c) \in Nat
        /\ Den(a) \in Nat \ {0} /\ Den(b) \in Nat \ {0} /\ Den(c) \in Nat \ {0}
    BY <1>2
  <2>2. Num(a) * Den(b) >= Num(b) * Den(a) /\ Num(b) * Den(c) >= Num(c) * Den(b)
    BY <1>3, <1>5, <1>8
  <2>3. /\ Num(a) * Den(c) >= Num(c) * Den(a)
        /\ Num(a) * Den(b) > Num(b) * Den(a) \/ Num(b) * Den(c) > Num(c) * Den(b)
             => Num(a) * Den(c) > Num(c) * Den(a)
    BY <2>1, <2>2, FractionsCompare
  <2>4. CASE Num(a) * Den(b) > Num(b) * Den(a) \/ Num(b) * Den(c) > Num(c) * Den(b)
    BY <1>3, <2>3, <2>4
  <2>5. CASE a < b /\ b < c
    <3>1. a < c
      BY <1>4, <2>5
    <3>2. Num(a) * Den(c) \in Int /\ Num(c) * Den(a) \in Int
      BY <1>5
    <3>q. QED
      BY <1>3, <2>3, <3>1, <3>2
  <2>q. QED
    BY <1>3, <1>8, <2>4, <2>5
<1>q. QED
  BY <1>1, <1>6, <1>7, <1>8 DEF StrictOrder, C

LEMMA FuseSorted ==
    ASSUME NEW dl \in Seq(Children), NEW lx \in Seq(Children)
    PROVE  Fuse(dl, lx) \in InOrder(FuseOrder(dl, lx), Branches(dl, lx), Cardinality(Branches(dl, lx)))
<1>. DEFINE C == Branches(dl, lx)
            N == Cardinality(C)
            R == FuseOrder(dl, lx)
            Before(x, y) == \/ Above(Score(dl, lx, x), Score(dl, lx, y))
                            \/ Ties(Score(dl, lx, x), Score(dl, lx, y)) /\ x < y
            Good(s) == \A i, j \in DOMAIN s : i < j => Before(s[i], s[j])
<1>1. \A a, b \in C : <<a, b>> \in R <=> Before(a, b)
  BY DEF FuseOrder
<1>2. Fuse(dl, lx) = CHOOSE s \in [1..N -> C] : Good(s)
  BY DEF Fuse, Sorted, Branches
<1>. HIDE DEF C, N, R, Before
<1>3. \A s \in [1..N -> C] : s \in InOrder(R, C, N) <=> Good(s)
  BY <1>1 DEF InOrder
<1>. HIDE DEF Good
<1>4. PICK t : t \in InOrder(R, C, N)
  BY FuseOrdered, SortExists DEF C, N, R
<1>5. t \in [1..N -> C]
  BY <1>4 DEF InOrder
<1>q. QED
  <2>1. \E s \in [1..N -> C] : Good(s)
    BY <1>3, <1>4, <1>5
  <2>2. Fuse(dl, lx) \in [1..N -> C] /\ Good(Fuse(dl, lx))
    BY <1>2, <2>1
  <2>3. Fuse(dl, lx) \in InOrder(R, C, N)
    BY <1>3, <2>2
  <2>q. QED
    BY <2>3 DEF C, N, R

LEMMA TruncateOf ==
    ASSUME NEW S, NEW s \in Seq(S), NEW k \in Nat
    PROVE  /\ Truncate(s, k) \in SeqOf(S, k) /\ Truncate(s, k) \in Seq(S)
           /\ Len(Truncate(s, k)) <= Len(s)
           /\ \A i \in 1..Len(Truncate(s, k)) : Truncate(s, k)[i] = s[i]
           /\ Len(Truncate(s, k)) = IF Len(s) < k THEN Len(s) ELSE k
<1>. DEFINE m == IF Len(s) < k THEN Len(s) ELSE k
            t == SubSeq(s, 1, m)
<1>1. m \in Nat /\ m <= k /\ m <= Len(s) /\ \A i \in 1..m : s[i] \in S
  OBVIOUS
<1>. HIDE DEF m
<1>2. t \in Seq(S) /\ Len(t) = m /\ \A i \in 1..m : t[i] = s[i]
  BY <1>1
<1>3. t \in [1..m -> S]
  <2>. HIDE DEF t
  <2>q. QED
    BY <1>2, LenProperties
<1>4. m \in 0..k
  BY <1>1
<1>5. t \in SeqOf(S, k)
  BY <1>3, <1>4 DEF SeqOf
<1>6. Truncate(s, k) = t
  BY DEF Truncate, m
<1>q. QED
  BY <1>1, <1>2, <1>5, <1>6 DEF m

\* What neither branch ranks lower and one ranks higher has the higher score.
LEMMA BeatsTerm ==
    ASSUME NEW s \in Seq(Children), NEW a, NEW b, ~Beats(s, b, a)
    PROVE  /\ Present(s, a) * Place(s, b) >= Present(s, b) * Place(s, a)
           /\ Beats(s, a, b) => Present(s, a) * Place(s, b) > Present(s, b) * Place(s, a)
<1>1. RrfK \in Nat
  BY StructureAssumption
<1>2. (a \in ToSet(s) => RankIn(s, a) \in Nat) /\ (b \in ToSet(s) => RankIn(s, b) \in Nat)
  BY RankOf
<1>3. Place(s, a) \in Nat \ {0} /\ Place(s, b) \in Nat \ {0}
  BY PlaceOf
<1>4. CASE a \in ToSet(s) /\ b \in ToSet(s)
  <2>1. /\ Present(s, a) = 1 /\ Present(s, b) = 1
        /\ Place(s, a) = RrfK + RankIn(s, a) /\ Place(s, b) = RrfK + RankIn(s, b)
    BY <1>4 DEF Present, Place
  <2>2. ~(RankIn(s, b) < RankIn(s, a)) /\ (Beats(s, a, b) => RankIn(s, a) < RankIn(s, b))
    BY <1>4 DEF Beats
  <2>3. Place(s, a) <= Place(s, b) /\ (Beats(s, a, b) => Place(s, a) < Place(s, b))
    BY <1>1, <1>2, <1>4, <2>1, <2>2
  <2>q. QED
    BY <1>3, <2>1, <2>3
<1>5. CASE a \in ToSet(s) /\ b \notin ToSet(s)
  <2>1. Present(s, a) = 1 /\ Present(s, b) = 0
    BY <1>5 DEF Present
  <2>q. QED
    BY <1>3, <2>1
<1>6. CASE a \notin ToSet(s)
  <2>1. b \notin ToSet(s) /\ ~Beats(s, a, b)
    BY <1>6 DEF Beats
  <2>2. Present(s, a) = 0 /\ Present(s, b) = 0
    BY <1>6, <2>1 DEF Present
  <2>q. QED
    BY <1>3, <2>1, <2>2
<1>q. QED
  BY <1>4, <1>5, <1>6

LEMMA BeatsAbove ==
    ASSUME NEW dl \in Seq(Children), NEW lx \in Seq(Children), NEW a, NEW b,
           Beats(dl, a, b) \/ Beats(lx, a, b), ~Beats(dl, b, a), ~Beats(lx, b, a)
    PROVE  Above(Score(dl, lx, a), Score(dl, lx, b))
<1>. DEFINE p1 == Present(dl, a)
            r1 == Present(lx, a)
            d1 == Place(dl, a)
            l1 == Place(lx, a)
            p2 == Present(dl, b)
            r2 == Present(lx, b)
            d2 == Place(dl, b)
            l2 == Place(lx, b)
<1>1. /\ p1 \in Int /\ r1 \in Int /\ p2 \in Int /\ r2 \in Int
      /\ d1 \in Nat \ {0} /\ l1 \in Nat \ {0} /\ d2 \in Nat \ {0} /\ l2 \in Nat \ {0}
  <2>1. /\ p1 \in {0, 1} /\ r1 \in {0, 1} /\ p2 \in {0, 1} /\ r2 \in {0, 1}
        /\ d1 \in Nat \ {0} /\ l1 \in Nat \ {0} /\ d2 \in Nat \ {0} /\ l2 \in Nat \ {0}
    BY PlaceOf
  <2>. HIDE DEF p1, r1, p2, r2
  <2>q. QED
    BY <2>1
<1>2. p1 * d2 >= p2 * d1 /\ (Beats(dl, a, b) => p1 * d2 > p2 * d1)
  BY BeatsTerm
<1>3. r1 * l2 >= r2 * l1 /\ (Beats(lx, a, b) => r1 * l2 > r2 * l1)
  BY BeatsTerm
<1>4. /\ Score(dl, lx, a).num = p1 * l1 + r1 * d1 /\ Score(dl, lx, a).den = d1 * l1
      /\ Score(dl, lx, b).num = p2 * l2 + r2 * d2 /\ Score(dl, lx, b).den = d2 * l2
  BY ScoreOf
<1>. HIDE DEF p1, r1, d1, l1, p2, r2, d2, l2
<1>5. p1 * d2 > p2 * d1 \/ r1 * l2 > r2 * l1
  BY <1>2, <1>3
<1>6. (p1 * l1 + r1 * d1) * (d2 * l2) > (p2 * l2 + r2 * d2) * (d1 * l1)
  BY <1>1, <1>2, <1>3, <1>5, SumsCompare
<1>q. QED
  BY <1>4, <1>6 DEF Above

\* So it comes first wherever the fused sequence is cut.
LEMMA FusionRespects ==
    ASSUME NEW dl \in Seq(Children), NEW lx \in Seq(Children), NEW k \in Nat, NEW cut,
           cut = Truncate(Fuse(dl, lx), k),
           NEW a \in Branches(dl, lx), NEW b \in Branches(dl, lx), a # b,
           Beats(dl, a, b) \/ Beats(lx, a, b), ~Beats(dl, b, a), ~Beats(lx, b, a),
           b \in ToSet(cut)
    PROVE  a \in ToSet(cut) /\ RankIn(cut, a) < RankIn(cut, b)
<1>. DEFINE f == Fuse(dl, lx)
            C == Branches(dl, lx)
            R == FuseOrder(dl, lx)
<1>1. /\ f \in InOrder(R, C, Cardinality(C)) /\ StrictOrder(R, C) /\ IsFiniteSet(C)
      /\ C \subseteq Children
  BY FuseSorted, FuseOrdered
<1>2. <<a, b>> \in R
  BY BeatsAbove DEF FuseOrder
<1>. HIDE DEF f, C, R
<1>3. f \in Seq(C) /\ Len(f) = Cardinality(C) /\ ToSet(f) = C /\ \A i, j \in 1..Len(f) : f[i] = f[j] => i = j
  BY <1>1, SortIsComplete
<1>4. f \in Seq(Children) /\ Len(f) \in Nat
  BY <1>1, <1>3
<1>5. \A i, j \in 1..Len(f) : i < j => <<f[i], f[j]>> \in R
  BY <1>1, <1>3 DEF InOrder
<1>6. /\ cut \in Seq(Children) /\ Len(cut) <= Len(f) /\ Len(cut) \in Nat
      /\ \A i \in 1..Len(cut) : cut[i] = f[i] /\ i \in 1..Len(f)
  BY <1>4, TruncateOf DEF f
<1>7. PICK i \in 1..Len(f) : f[i] = a
  <2>1. a \in ToSet(f)
    BY <1>3 DEF C
  <2>q. QED
    BY <1>4, <2>1 DEF ToSet
<1>8. PICK j \in 1..Len(cut) : cut[j] = b /\ j = RankIn(cut, b)
  BY <1>6, RankOf
<1>9. i < j
  <2>1. j \in 1..Len(f) /\ f[j] = b
    BY <1>6, <1>8
  <2>2. i # j
    BY <1>7, <2>1
  <2>3. ~(j < i)
    <3>. SUFFICES ASSUME j < i PROVE FALSE
      OBVIOUS
    <3>1. <<b, a>> \in R
      BY <1>5, <1>7, <2>1
    <3>2. a \in C /\ b \in C
      BY DEF C
    <3>3. <<a, a>> \in R /\ <<a, a>> \notin R
      BY <1>1, <1>2, <3>1, <3>2 DEF StrictOrder
    <3>q. QED
      BY <3>3
  <2>q. QED
    BY <1>7, <2>1, <2>2, <2>3
<1>10. i \in 1..Len(cut) /\ cut[i] = a
  BY <1>6, <1>7, <1>8, <1>9
<1>11. a \in ToSet(cut)
  BY <1>6, <1>10 DEF ToSet
<1>12. RankIn(cut, a) = i
  <2>1. RankIn(cut, a) \in 1..Len(cut) /\ cut[RankIn(cut, a)] = a
    BY <1>6, <1>11, RankOf
  <2>q. QED
    BY <1>3, <1>6, <1>7, <2>1
<1>q. QED
  BY <1>8, <1>9, <1>11, <1>12

\* The reranker's sort returns children of its pool.
LEMMA ScoredOf ==
    ASSUME NEW p \in Seq(Children), NEW score \in [ToSet(p) -> {0, 1}]
    PROVE  SortScored(p, score) \in Seq(Children) /\ ToSet(SortScored(p, score)) = ToSet(p)
<1>. DEFINE C == ToSet(p)
            N == Cardinality(C)
            Before(x, y) == score[x] > score[y] \/ (score[x] = score[y] /\ x < y)
            R == {q2 \in C \X C : Before(q2[1], q2[2])}
            Good(s) == \A i, j \in DOMAIN s : i < j => Before(s[i], s[j])
<1>1. IsFiniteSet(C) /\ C \subseteq Children
  BY MembersOf
<1>2. \A c \in C : c \in Nat /\ score[c] \in {0, 1}
  BY <1>1, StructureAssumption
<1>3. \A a, b \in C : <<a, b>> \in R <=> Before(a, b)
  OBVIOUS
<1>4. StrictOrder(R, C)
  <2>. HIDE DEF R, C
  <2>1. \A a \in C : <<a, a>> \notin R
    BY <1>2, <1>3
  <2>2. \A a, b \in C : a # b => <<a, b>> \in R \/ <<b, a>> \in R
    BY <1>2, <1>3
  <2>3. \A a, b, c \in C : <<a, b>> \in R /\ <<b, c>> \in R => <<a, c>> \in R
    BY <1>2, <1>3
  <2>q. QED
    BY <2>1, <2>2, <2>3 DEF StrictOrder
<1>5. SortScored(p, score) = CHOOSE s \in [1..N -> C] : Good(s)
  BY DEF SortScored, Sorted
<1>. HIDE DEF C, N, R, Before
<1>6. \A s \in [1..N -> C] : s \in InOrder(R, C, N) <=> Good(s)
  BY <1>3 DEF InOrder
<1>. HIDE DEF Good
<1>7. PICK t : t \in InOrder(R, C, N)
  BY <1>1, <1>4, SortExists DEF N
<1>8. \E s \in [1..N -> C] : Good(s)
  <2>1. t \in [1..N -> C]
    BY <1>7 DEF InOrder
  <2>q. QED
    BY <1>6, <1>7, <2>1
<1>9. SortScored(p, score) \in InOrder(R, C, N)
  <2>1. SortScored(p, score) \in [1..N -> C] /\ Good(SortScored(p, score))
    BY <1>5, <1>8
  <2>q. QED
    BY <1>6, <2>1
<1>10. SortScored(p, score) \in Seq(C) /\ ToSet(SortScored(p, score)) = C
  BY <1>1, <1>4, <1>9, SortIsComplete DEF N
<1>q. QED
  BY <1>1, <1>10 DEF C

(***************************************************************************)
(* Citations: a sequence of identifiers, each kept where it comes first.   *)
(***************************************************************************)
Keep(seen, id) == IF id \in ToSet(seen) THEN seen ELSE Append(seen, id)

\* What is seen after each of the first n: r[n].
Sightings(r, ids, X) ==
    /\ r \in [0..Len(ids) -> Seq(X)] /\ r[0] = <<>>
    /\ \A n \in 1..Len(ids) : r[n] = Keep(r[n - 1], ids[n])

IsPrefixOf(s, t) == Len(s) <= Len(t) /\ \A k \in 1..Len(s) : t[k] = s[k]
FirstOf(ids, n) == {ids[k] : k \in 1..n}
NoRepeat(s) == \A j, k \in 1..Len(s) : s[j] = s[k] => j = k

LEMMA KeepOf ==
    ASSUME NEW X, NEW seen \in Seq(X), NEW id \in X
    PROVE  /\ Keep(seen, id) \in Seq(X) /\ IsPrefixOf(seen, Keep(seen, id))
           /\ Len(Keep(seen, id)) <= Len(seen) + 1
           /\ ToSet(Keep(seen, id)) = ToSet(seen) \cup {id}
           /\ NoRepeat(seen) => NoRepeat(Keep(seen, id))
<1>1. CASE id \in ToSet(seen)
  <2>1. Keep(seen, id) = seen
    BY <1>1 DEF Keep
  <2>2. Len(seen) \in Nat
    OBVIOUS
  <2>q. QED
    BY <1>1, <2>1, <2>2 DEF IsPrefixOf
<1>2. CASE id \notin ToSet(seen)
  <2>. DEFINE t == Append(seen, id)
              L == Len(seen)
  <2>1. Keep(seen, id) = t
    BY <1>2 DEF Keep
  <2>2. /\ t \in Seq(X) /\ Len(t) = L + 1 /\ L \in Nat /\ t[L + 1] = id
        /\ \A k \in 1..L : t[k] = seen[k]
    OBVIOUS
  <2>3. \A k \in 1..L : seen[k] # id
    BY <1>2 DEF ToSet
  <2>4. DOMAIN t = 1..(L + 1) /\ DOMAIN seen = 1..L
    OBVIOUS
  <2>. HIDE DEF t, L
  <2>5. IsPrefixOf(seen, t)
    BY <2>2 DEF IsPrefixOf, L
  <2>6. ToSet(t) = ToSet(seen) \cup {id}
    <3>1. \A x \in ToSet(t) : x \in ToSet(seen) \cup {id}
      BY <2>2, <2>4 DEF ToSet
    <3>2. \A x \in ToSet(seen) : x \in ToSet(t)
      BY <2>2, <2>4 DEF ToSet
    <3>3. id \in ToSet(t)
      BY <2>2, <2>4 DEF ToSet
    <3>q. QED
      BY <3>1, <3>2, <3>3
  <2>7. NoRepeat(seen) => NoRepeat(t)
    <3>. SUFFICES ASSUME NoRepeat(seen), NEW j \in 1..(L + 1), NEW k \in 1..(L + 1), t[j] = t[k]
                  PROVE  j = k
      BY <2>2 DEF NoRepeat
    <3>1. \A m \in 1..(L + 1) : m \in 1..L \/ m = L + 1
      BY <2>2
    <3>q. QED
      BY <2>2, <2>3, <3>1 DEF NoRepeat, L
  <2>q. QED
    BY <2>1, <2>2, <2>5, <2>6, <2>7 DEF L
<1>q. QED
  BY <1>1, <1>2

LEMMA SightingsOf ==
    ASSUME NEW X, NEW ids \in Seq(X), NEW r, Sightings(r, ids, X)
    PROVE  /\ \A n \in 0..Len(ids) : /\ NoRepeat(r[n]) /\ IsPrefixOf(r[n], r[Len(ids)])
                                     /\ ToSet(r[n]) = FirstOf(ids, n)
           /\ \A n \in 1..Len(ids) : Len(r[n]) <= Len(r[n - 1]) + 1
<1>. DEFINE N == Len(ids)
<1>1. /\ N \in Nat /\ r \in [0..N -> Seq(X)] /\ r[0] = <<>>
      /\ \A n \in 1..N : r[n] = Keep(r[n - 1], ids[n]) /\ ids[n] \in X
  BY DEF Sightings
<1>2. ASSUME NEW n \in 1..N
      PROVE  /\ n - 1 \in 0..N /\ n \in 0..N /\ r[n - 1] \in Seq(X) /\ r[n] \in Seq(X)
             /\ IsPrefixOf(r[n - 1], r[n]) /\ Len(r[n]) <= Len(r[n - 1]) + 1
             /\ ToSet(r[n]) = ToSet(r[n - 1]) \cup {ids[n]}
             /\ NoRepeat(r[n - 1]) => NoRepeat(r[n])
  <2>1. n - 1 \in 0..N /\ n \in 0..N /\ r[n - 1] \in Seq(X) /\ r[n] \in Seq(X)
    BY <1>1
  <2>. DEFINE a == r[n - 1]
              b == r[n]
              id == ids[n]
  <2>2. a \in Seq(X) /\ id \in X /\ b = Keep(a, id)
    BY <1>1, <2>1
  <2>. HIDE DEF a, b, id
  <2>3. /\ IsPrefixOf(a, b) /\ Len(b) <= Len(a) + 1 /\ ToSet(b) = ToSet(a) \cup {id}
        /\ NoRepeat(a) => NoRepeat(b)
    BY <2>2, KeepOf
  <2>q. QED
    BY <2>1, <2>3 DEF a, b, id
<1>. DEFINE P == {n \in 0..N : NoRepeat(r[n]) /\ ToSet(r[n]) = FirstOf(ids, n)}
<1>3. 0..N \subseteq P
  <2>1. 0 \in P
    <3>1. Len(<<>>) = 0 /\ DOMAIN <<>> = {}
      OBVIOUS
    <3>2. NoRepeat(<<>>) /\ ToSet(<<>>) = {}
      BY <3>1 DEF NoRepeat, ToSet
    <3>3. FirstOf(ids, 0) = {}
      BY DEF FirstOf
    <3>4. r[0] = <<>> /\ 0 \in 0..N
      BY <1>1
    <3>5. NoRepeat(r[0]) /\ ToSet(r[0]) = FirstOf(ids, 0)
      BY <3>2, <3>3, <3>4, Zenon
    <3>q. QED
      BY <3>4, <3>5
  <2>2. ASSUME NEW n \in 1..N, n - 1 \in P PROVE n \in P
    <3>1. FirstOf(ids, n) = FirstOf(ids, n - 1) \cup {ids[n]}
      <4>1. \A k \in 1..n : k \in 1..(n - 1) \/ k = n
        OBVIOUS
      <4>2. \A k \in 1..(n - 1) : k \in 1..n
        OBVIOUS
      <4>q. QED
        BY <4>1, <4>2 DEF FirstOf
    <3>q. QED
      BY <1>2, <2>2, <3>1
  <2>3. \A n \in 1..N : n - 1 \in P => n \in P
    BY <2>2
  <2>. HIDE DEF P, N
  <2>q. QED
    BY <1>1, <2>1, <2>3, InductionUpTo
<1>4. ASSUME NEW n \in 0..N PROVE IsPrefixOf(r[n], r[N])
  <2>. DEFINE Q == {m \in 0..N : n <= m => IsPrefixOf(r[n], r[m])}
  <2>1. \A m \in 0..N : Len(r[m]) \in Nat
    BY <1>1
  <2>2. IsPrefixOf(r[n], r[n])
    BY <2>1 DEF IsPrefixOf
  <2>3. 0 \in Q
    BY <1>1, <2>2
  <2>4. ASSUME NEW m \in 1..N, m - 1 \in Q PROVE m \in Q
    <3>1. CASE n <= m - 1
      <4>1. IsPrefixOf(r[n], r[m - 1]) /\ IsPrefixOf(r[m - 1], r[m])
        BY <1>2, <2>4, <3>1
      <4>2. IsPrefixOf(r[n], r[m])
        BY <1>2, <2>1, <4>1 DEF IsPrefixOf
      <4>q. QED
        BY <4>2
    <3>2. CASE n = m
      BY <2>2, <3>2
    <3>3. CASE n > m
      BY <3>3
    <3>q. QED
      BY <3>1, <3>2, <3>3
  <2>5. \A m \in 1..N : m - 1 \in Q => m \in Q
    BY <2>4
  <2>6. 0..N \subseteq Q
    <3>. HIDE DEF Q, N
    <3>q. QED
      BY <1>1, <2>3, <2>5, InductionUpTo
  <2>q. QED
    BY <1>1, <2>6
<1>q. QED
  BY <1>2, <1>3, <1>4

\* Numbered by first reference: before a number comes every smaller one.
LEMMA NumberedByFirst ==
    ASSUME NEW X, NEW ids \in Seq(X), NEW r, Sightings(r, ids, X), NEW cited, cited = r[Len(ids)],
           NEW refs \in Seq(DOMAIN cited), Len(refs) = Len(ids),
           \A i \in 1..Len(ids) : cited[refs[i]] = ids[i]
    PROVE  /\ ToSet(refs) = DOMAIN cited
           /\ \A i \in DOMAIN refs : \A n \in 1..(refs[i] - 1) : \E j \in 1..(i - 1) : refs[j] = n
<1>. DEFINE N == Len(ids)
<1>1. /\ N \in Nat /\ r \in [0..N -> Seq(X)] /\ cited \in Seq(X)
      /\ DOMAIN cited = 1..Len(cited) /\ Len(cited) \in Nat
      /\ DOMAIN refs = 1..N /\ \A i \in 1..N : refs[i] \in 1..Len(cited)
  <2>1. N \in Nat /\ r \in [0..N -> Seq(X)]
    BY DEF Sightings
  <2>2. cited \in Seq(X)
    BY <2>1
  <2>3. DOMAIN cited = 1..Len(cited) /\ Len(cited) \in Nat
    BY <2>2
  <2>4. DOMAIN refs = 1..N /\ \A i \in 1..N : refs[i] \in DOMAIN cited
    BY LenProperties
  <2>q. QED
    BY <2>1, <2>2, <2>3, <2>4
<1>2. /\ NoRepeat(cited) /\ ToSet(cited) = FirstOf(ids, N)
      /\ \A n \in 0..N : IsPrefixOf(r[n], cited) /\ ToSet(r[n]) = FirstOf(ids, n)
      /\ \A n \in 1..N : Len(r[n]) <= Len(r[n - 1]) + 1
  <2>1. N \in 0..N
    BY <1>1
  <2>2. \A n \in 0..N : /\ NoRepeat(r[n]) /\ IsPrefixOf(r[n], r[N])
                        /\ ToSet(r[n]) = FirstOf(ids, n)
    BY SightingsOf
  <2>3. \A n \in 1..N : Len(r[n]) <= Len(r[n - 1]) + 1
    BY SightingsOf
  <2>. HIDE DEF N
  <2>4. cited = r[N]
    BY DEF N
  <2>q. QED
    BY <2>1, <2>2, <2>3, <2>4
<1>. HIDE DEF N
<1>3. ASSUME NEW n \in DOMAIN cited PROVE n \in ToSet(refs)
  <2>1. cited[n] \in ToSet(cited)
    BY DEF ToSet
  <2>2. PICK k \in 1..N : cited[n] = ids[k]
    BY <1>2, <2>1 DEF FirstOf
  <2>3. refs[k] \in 1..Len(cited) /\ cited[refs[k]] = cited[n]
    BY <1>1, <2>2 DEF N
  <2>4. refs[k] = n
    BY <1>1, <1>2, <2>3 DEF NoRepeat
  <2>q. QED
    BY <1>1, <2>4 DEF ToSet
<1>4. ASSUME NEW i \in 1..N, NEW n \in 1..(refs[i] - 1) PROVE \E j \in 1..(i - 1) : refs[j] = n
  <2>. DEFINE now == r[i]
              old == r[i - 1]
  <2>1. i \in 0..N /\ i - 1 \in 0..N /\ now \in Seq(X) /\ old \in Seq(X)
    BY <1>1
  <2>2. /\ IsPrefixOf(now, cited) /\ ToSet(now) = FirstOf(ids, i)
        /\ IsPrefixOf(old, cited) /\ ToSet(old) = FirstOf(ids, i - 1)
        /\ Len(now) <= Len(old) + 1
    BY <1>2, <2>1
  <2>. HIDE DEF now, old
  <2>3. /\ Len(now) \in Nat /\ Len(old) \in Nat
        /\ DOMAIN now = 1..Len(now) /\ DOMAIN old = 1..Len(old)
    BY <2>1
  <2>4. PICK k \in 1..Len(now) : now[k] = ids[i]
    <3>1. ids[i] \in ToSet(now)
      BY <2>2, i \in 1..i DEF FirstOf
    <3>q. QED
      BY <2>3, <3>1 DEF ToSet
  <2>5. k \in 1..Len(cited) /\ cited[k] = ids[i]
    <3>1. Len(cited) \in Nat
      BY <1>1
    <3>2. Len(now) <= Len(cited) /\ \A m \in 1..Len(now) : cited[m] = now[m]
      BY <2>2 DEF IsPrefixOf
    <3>q. QED
      BY <2>3, <2>4, <3>1, <3>2
  <2>6. refs[i] \in 1..Len(cited) /\ cited[refs[i]] = ids[i]
    BY <1>1 DEF N
  <2>7. k = refs[i]
    BY <1>2, <2>5, <2>6 DEF NoRepeat
  <2>8. n \in 1..Len(old)
    BY <1>1, <2>2, <2>3, <2>4, <2>7
  <2>9. cited[n] = old[n] /\ n \in 1..Len(cited)
    BY <1>1, <2>2, <2>3, <2>8 DEF IsPrefixOf
  <2>10. old[n] \in ToSet(old)
    BY <2>3, <2>8 DEF ToSet
  <2>11. PICK j \in 1..(i - 1) : ids[j] = cited[n]
    BY <2>2, <2>9, <2>10 DEF FirstOf
  <2>12. j \in 1..N
    BY <1>1
  <2>13. refs[j] \in 1..Len(cited) /\ cited[refs[j]] = cited[n]
    BY <1>1, <2>11, <2>12 DEF N
  <2>14. refs[j] = n
    BY <1>2, <2>9, <2>13 DEF NoRepeat
  <2>q. QED
    BY <2>14
<1>5. ToSet(refs) \subseteq DOMAIN cited
  BY <1>1 DEF ToSet
<1>q. QED
  BY <1>1, <1>3, <1>4, <1>5

(***************************************************************************)
(* A flattened sequence of sequences.                                      *)
(***************************************************************************)
Flat(seqs) ==
    LET flatten[i \in 1..Len(seqs)] ==
          IF i = 1 THEN seqs[i] ELSE flatten[i - 1] \o seqs[i]
    IN  flatten

LEMMA FlatOf ==
    ASSUME NEW S, NEW seqs \in Seq(Seq(S)), Len(seqs) # 0
    PROVE  /\ Flat(seqs) \in [1..Len(seqs) -> Seq(S)] /\ Flat(seqs)[1] = seqs[1]
           /\ \A n \in 2..Len(seqs) : Flat(seqs)[n] = Flat(seqs)[n - 1] \o seqs[n]
           /\ FlattenSeq(seqs) = Flat(seqs)[Len(seqs)] /\ FlattenSeq(seqs) \in Seq(S)
<1>. DEFINE L == Len(seqs)
            Z == Seq(S)
            b == seqs[1]
            F == [n \in 1..(L - 1) |-> [x \in Z |-> x \o seqs[n + 1]]]
            Body(f) == [i \in 1..L |-> IF i = 1 THEN seqs[i] ELSE f[i - 1] \o seqs[i]]
            g == Flat(seqs)
<1>1. L \in Nat \ {0} /\ L - 1 \in Nat /\ \A n \in 1..L : seqs[n] \in Z
  OBVIOUS
<1>2. b \in Z
  BY <1>1
<1>3. F \in [1..(L - 1) -> [Z -> Z]]
  <2>1. ASSUME NEW n \in 1..(L - 1), NEW x \in Z PROVE x \o seqs[n + 1] \in Z
    <3>1. n + 1 \in 1..L
      BY <1>1
    <3>2. seqs[n + 1] \in Seq(S)
      BY <1>1, <3>1
    <3>q. QED
      BY <3>2, ConcatProperties
  <2>q. QED
    BY <2>1
<1>4. \A n \in 1..(L - 1) : \A x \in Z : F[n][x] = x \o seqs[n + 1]
  OBVIOUS
<1>5. g = CHOOSE h : h = Body(h)
  BY DEF Flat
<1>6. FlattenSeq(seqs) = g[L]
  BY DEF FlattenSeq, Flat
<1>7. \A f : Body(f) = [i \in 1..L |-> IF i = 1 THEN b ELSE f[i - 1] \o seqs[i]]
  OBVIOUS
<1>. HIDE DEF F, g, Body
<1>8. Run(F, Z, b, L - 1) # {}
  <2>. DEFINE K == L - 1
  <2>1. K \in Nat /\ F \in [1..K -> [Z -> Z]]
    BY <1>1, <1>3
  <2>. HIDE DEF K, Z, b
  <2>2. Run(F, Z, b, K) # {}
    BY <1>2, <2>1, Iteration
  <2>q. QED
    BY <2>2 DEF K
<1>9. PICK h : h \in [0..(L - 1) -> Z] /\ h[0] = b /\ \A n \in 1..(L - 1) : h[n] = F[n][h[n - 1]]
  BY <1>8 DEF Run
<1>. DEFINE f == [i \in 1..L |-> h[i - 1]]
<1>10. f = Body(f)
  <2>1. f[1] = b /\ 1 \in 1..L
    BY <1>1, <1>9
  <2>2. ASSUME NEW i \in 1..L, i # 1 PROVE f[i] = f[i - 1] \o seqs[i]
    <3>1. i - 1 \in 1..(L - 1) /\ i - 1 \in 1..L /\ i - 1 - 1 \in 0..(L - 1) /\ (i - 1) + 1 = i
      BY <1>1, <2>2
    <3>2. h[i - 1 - 1] \in Z
      BY <1>9, <3>1
    <3>3. h[i - 1] = h[i - 1 - 1] \o seqs[i]
      BY <1>4, <1>9, <3>1, <3>2
    <3>q. QED
      BY <3>1, <3>3
  <2>3. \A i \in 1..L : f[i] = IF i = 1 THEN b ELSE f[i - 1] \o seqs[i]
    BY <2>1, <2>2
  <2>4. f = [i \in 1..L |-> f[i]]
    OBVIOUS
  <2>. HIDE DEF f, b, L
  <2>5. f = [i \in 1..L |-> IF i = 1 THEN b ELSE f[i - 1] \o seqs[i]]
    BY <2>3, <2>4
  <2>q. QED
    BY <1>7, <2>5
<1>. HIDE DEF f
<1>11. g = [i \in 1..L |-> IF i = 1 THEN b ELSE g[i - 1] \o seqs[i]]
  <2>1. g = Body(g)
    BY <1>5, <1>10
  <2>q. QED
    BY <1>7, <2>1
<1>. HIDE DEF b
<1>12. g = [i \in 1..L |-> g[i]] /\ g[1] = b /\ \A n \in 2..L : g[n] = g[n - 1] \o seqs[n]
  <2>1. 1 \in 1..L /\ \A n \in 2..L : n \in 1..L /\ n # 1
    BY <1>1
  <2>q. QED
    BY <1>11, <2>1
<1>. DEFINE P == {k \in 0..(L - 1) : g[k + 1] \in Z}
<1>13. 0..(L - 1) \subseteq P
  <2>1. 0 \in P
    BY <1>1, <1>2, <1>12
  <2>2. ASSUME NEW k \in 1..(L - 1), k - 1 \in P PROVE k \in P
    <3>1. k + 1 \in 2..L /\ k + 1 \in 1..L /\ (k - 1) + 1 = k /\ (k + 1) - 1 = k
      BY <1>1
    <3>2. g[k] \in Seq(S) /\ seqs[k + 1] \in Seq(S)
      BY <1>1, <2>2, <3>1
    <3>3. g[k + 1] = g[k] \o seqs[k + 1]
      BY <1>12, <3>1
    <3>4. g[k] \o seqs[k + 1] \in Seq(S)
      BY <3>2, ConcatProperties
    <3>5. k \in 0..(L - 1) /\ g[k + 1] \in Z
      BY <1>1, <3>3, <3>4
    <3>. HIDE DEF Z, L
    <3>q. QED
      BY <3>5
  <2>3. \A k \in 1..(L - 1) : k - 1 \in P => k \in P
    BY <2>2
  <2>. DEFINE K == L - 1
  <2>4. K \in Nat /\ \A k \in 1..K : k - 1 \in P => k \in P
    BY <1>1, <2>3
  <2>. HIDE DEF P, K
  <2>5. 0..K \subseteq P
    BY <2>1, <2>4, InductionUpTo
  <2>q. QED
    BY <2>5 DEF K
<1>14. \A n \in 1..L : g[n] \in Z
  <2>1. ASSUME NEW n \in 1..L PROVE g[n] \in Z
    <3>. DEFINE m == n - 1
    <3>1. m \in 0..(L - 1) /\ m + 1 = n
      BY <1>1
    <3>2. m \in P
      BY <1>13, <3>1
    <3>. HIDE DEF Z, L, m
    <3>3. g[m + 1] \in Z
      BY <3>2
    <3>q. QED
      BY <3>1, <3>3
  <2>q. QED
    BY <2>1
<1>15. g \in [1..L -> Z]
  BY <1>12, <1>14
<1>16. g[L] \in Z
  BY <1>1, <1>14
<1>q. QED
  BY <1>6, <1>12, <1>15, <1>16 DEF g, b

\* What is related element by element stays related when flattened.
LEMMA FlattenRelated ==
    ASSUME NEW S, NEW T, NEW R, NEW seqs \in Seq(Seq(S)), NEW more \in Seq(Seq(T)),
           Len(seqs) # 0, Len(more) = Len(seqs),
           \A n \in 1..Len(seqs) : /\ Len(more[n]) = Len(seqs[n])
                                   /\ \A i \in 1..Len(seqs[n]) : <<seqs[n][i], more[n][i]>> \in R
    PROVE  /\ Len(FlattenSeq(more)) = Len(FlattenSeq(seqs))
           /\ \A i \in 1..Len(FlattenSeq(seqs)) : <<FlattenSeq(seqs)[i], FlattenSeq(more)[i]>> \in R
<1>. DEFINE L == Len(seqs)
            f == Flat(seqs)
            g == Flat(more)
            Like(s, t) == Len(t) = Len(s) /\ \A i \in 1..Len(s) : <<s[i], t[i]>> \in R
            P == {k \in 0..(L - 1) : Like(f[k + 1], g[k + 1])}
<1>1. L \in Nat \ {0} /\ L - 1 \in Nat
  OBVIOUS
<1>2. /\ f \in [1..L -> Seq(S)] /\ f[1] = seqs[1] /\ FlattenSeq(seqs) = f[L]
      /\ \A n \in 2..L : f[n] = f[n - 1] \o seqs[n]
  BY FlatOf
<1>3. /\ g \in [1..L -> Seq(T)] /\ g[1] = more[1] /\ FlattenSeq(more) = g[L]
      /\ \A n \in 2..L : g[n] = g[n - 1] \o more[n]
  BY FlatOf
<1>4. \A n \in 1..L : seqs[n] \in Seq(S) /\ more[n] \in Seq(T) /\ Like(seqs[n], more[n])
  OBVIOUS
<1>. HIDE DEF f, g
<1>5. 0 \in P
  BY <1>1, <1>2, <1>3, <1>4
<1>6. ASSUME NEW k \in 1..(L - 1), k - 1 \in P PROVE k \in P
  <2>1. k + 1 \in 2..L /\ k + 1 \in 1..L /\ k \in 1..L /\ (k - 1) + 1 = k /\ (k + 1) - 1 = k
    BY <1>1
  <2>. DEFINE a == f[k]
              c == seqs[k + 1]
              aa == g[k]
              cc == more[k + 1]
  <2>2. a \in Seq(S) /\ c \in Seq(S) /\ aa \in Seq(T) /\ cc \in Seq(T)
    BY <1>2, <1>3, <1>4, <2>1
  <2>3. Like(a, aa) /\ Like(c, cc)
    BY <1>4, <1>6, <2>1
  <2>4. f[k + 1] = a \o c /\ g[k + 1] = aa \o cc
    BY <1>2, <1>3, <2>1
  <2>. HIDE DEF a, c, aa, cc
  <2>5. Like(a \o c, aa \o cc)
    <3>1. /\ Len(a \o c) = Len(a) + Len(c) /\ Len(aa \o cc) = Len(aa) + Len(cc)
          /\ \A i \in 1..(Len(a) + Len(c)) :
               (a \o c)[i] = IF i <= Len(a) THEN a[i] ELSE c[i - Len(a)]
          /\ \A i \in 1..(Len(aa) + Len(cc)) :
               (aa \o cc)[i] = IF i <= Len(aa) THEN aa[i] ELSE cc[i - Len(aa)]
      BY <2>2, ConcatProperties
    <3>2. Len(a) \in Nat /\ Len(c) \in Nat /\ Len(aa) = Len(a) /\ Len(cc) = Len(c)
      BY <2>2, <2>3
    <3>3. ASSUME NEW i \in 1..(Len(a) + Len(c)) PROVE <<(a \o c)[i], (aa \o cc)[i]>> \in R
      <4>1. CASE i <= Len(a)
        <5>1. i \in 1..Len(a)
          BY <3>2, <4>1
        <5>2. <<a[i], aa[i]>> \in R
          BY <2>3, <5>1
        <5>3. (a \o c)[i] = a[i] /\ (aa \o cc)[i] = aa[i]
          BY <3>1, <3>2, <4>1
        <5>q. QED
          BY <5>2, <5>3
      <4>2. CASE ~(i <= Len(a))
        <5>1. i - Len(a) \in 1..Len(c)
          BY <3>2, <4>2
        <5>2. <<c[i - Len(a)], cc[i - Len(a)]>> \in R
          BY <2>3, <5>1
        <5>3. (a \o c)[i] = c[i - Len(a)] /\ (aa \o cc)[i] = cc[i - Len(a)]
          BY <3>1, <3>2, <4>2
        <5>q. QED
          BY <5>2, <5>3
      <4>q. QED
        BY <4>1, <4>2
    <3>q. QED
      BY <3>1, <3>2, <3>3
  <2>6. k \in 0..(L - 1)
    BY <1>1
  <2>q. QED
    BY <2>4, <2>5, <2>6
<1>7. L - 1 \in P
  <2>. DEFINE K == L - 1
  <2>1. K \in Nat /\ \A k \in 1..K : k - 1 \in P => k \in P
    BY <1>1, <1>6
  <2>2. K \in 0..K
    BY <2>1
  <2>. HIDE DEF P, K
  <2>3. 0..K \subseteq P
    BY <1>5, <2>1, InductionUpTo
  <2>4. K \in P
    BY <2>2, <2>3
  <2>q. QED
    BY <2>4 DEF K
<1>8. (L - 1) + 1 = L
  BY <1>1
<1>9. Like(f[L], g[L])
  BY <1>7, <1>8
<1>q. QED
  BY <1>2, <1>3, <1>9

\* Every element of a part is an element of the whole.
LEMMA FlattenHolds ==
    ASSUME NEW S, NEW seqs \in Seq(Seq(S)), NEW n \in 1..Len(seqs), NEW i \in 1..Len(seqs[n])
    PROVE  seqs[n][i] \in ToSet(FlattenSeq(seqs))
<1>. DEFINE L == Len(seqs)
            f == Flat(seqs)
            x == seqs[n][i]
            P == {k \in 0..L : n <= k => x \in ToSet(f[k])}
<1>1. L \in Nat \ {0} /\ seqs[n] \in Seq(S) /\ n \in 1..L
  OBVIOUS
<1>2. /\ f \in [1..L -> Seq(S)] /\ f[1] = seqs[1] /\ FlattenSeq(seqs) = f[L]
      /\ \A m \in 2..L : f[m] = f[m - 1] \o seqs[m]
  BY <1>1, FlatOf
<1>3. \A m \in 1..L : seqs[m] \in Seq(S)
  OBVIOUS
<1>4. x \in ToSet(seqs[n])
  BY <1>1, MembersOf
<1>. HIDE DEF f, x
<1>5. ASSUME NEW s \in Seq(S), NEW t \in Seq(S)
      PROVE  ToSet(s) \subseteq ToSet(s \o t) /\ ToSet(t) \subseteq ToSet(s \o t)
  <2>1. s \o t \in Seq(S) /\ Len(s \o t) = Len(s) + Len(t) /\ Len(s) \in Nat /\ Len(t) \in Nat
    BY ConcatProperties
  <2>2. DOMAIN s = 1..Len(s) /\ DOMAIN t = 1..Len(t) /\ DOMAIN (s \o t) = 1..(Len(s) + Len(t))
    BY <2>1
  <2>3. ASSUME NEW m \in 1..Len(s) PROVE s[m] \in ToSet(s \o t)
    <3>1. m \in 1..(Len(s) + Len(t)) /\ (s \o t)[m] = s[m]
      BY <2>1, ConcatProperties
    <3>q. QED
      BY <2>2, <3>1 DEF ToSet
  <2>4. ASSUME NEW m \in 1..Len(t) PROVE t[m] \in ToSet(s \o t)
    <3>1. /\ Len(s) + m \in 1..(Len(s) + Len(t)) /\ ~(Len(s) + m <= Len(s))
          /\ (Len(s) + m) - Len(s) = m
      BY <2>1
    <3>2. (s \o t)[Len(s) + m] = t[m]
      BY <3>1, ConcatProperties
    <3>q. QED
      BY <2>2, <3>1, <3>2 DEF ToSet
  <2>q. QED
    BY <2>2, <2>3, <2>4 DEF ToSet
<1>6. 0 \in P
  BY <1>1
<1>7. ASSUME NEW k \in 1..L, k - 1 \in P PROVE k \in P
  <2>. SUFFICES ASSUME n <= k PROVE x \in ToSet(f[k])
    OBVIOUS
  <2>1. CASE k = 1
    BY <1>1, <1>2, <1>4, <2>1
  <2>2. CASE k # 1
    <3>1. k \in 2..L /\ k - 1 \in 1..L
      BY <1>1, <2>2
    <3>2. f[k - 1] \in Seq(S) /\ seqs[k] \in Seq(S) /\ f[k] = f[k - 1] \o seqs[k]
      BY <1>2, <1>3, <3>1
    <3>3. ToSet(f[k - 1]) \subseteq ToSet(f[k]) /\ ToSet(seqs[k]) \subseteq ToSet(f[k])
      BY <1>5, <3>2
    <3>4. x \in ToSet(f[k - 1]) \/ x \in ToSet(seqs[k])
      BY <1>1, <1>4, <1>7
    <3>q. QED
      BY <3>3, <3>4
  <2>q. QED
    BY <2>1, <2>2
<1>8. 0..L \subseteq P
  <2>1. L \in Nat /\ \A k \in 1..L : k - 1 \in P => k \in P
    BY <1>1, <1>7
  <2>. HIDE DEF P, L
  <2>q. QED
    BY <1>6, <2>1, InductionUpTo
<1>9. x \in ToSet(f[L])
  <2>1. L \in 0..L /\ n <= L
    BY <1>1
  <2>. HIDE DEF L
  <2>q. QED
    BY <1>8, <2>1
<1>q. QED
  BY <1>2, <1>9 DEF x

\* The units cited after each handle of the flattened blocks.
CitedRun(handles, units) ==
    LET cited[n \in 0..Len(handles)] ==
          IF n = 0 THEN <<>>
          ELSE LET id == units[handles[n]].id
               IN  IF id \in ToSet(cited[n - 1]) THEN cited[n - 1] ELSE Append(cited[n - 1], id)
    IN  cited

LEMMA CitedOf ==
    ASSUME NEW units \in Seq(UnitRecs), NEW handles \in Seq(1..Len(units)),
           NEW ids, ids = [n \in 1..Len(handles) |-> units[handles[n]].id]
    PROVE  /\ ids \in Seq(Chunks) /\ Len(ids) = Len(handles)
           /\ Sightings(CitedRun(handles, units), ids, Chunks)
<1>. DEFINE L == Len(handles)
            Z == Seq(Chunks)
            b == <<>>
            F == [n \in 1..L |-> [x \in Z |-> Keep(x, ids[n])]]
            Body(f) == [n \in 0..L |-> IF n = 0 THEN <<>>
                          ELSE LET id == units[handles[n]].id
                               IN  IF id \in ToSet(f[n - 1]) THEN f[n - 1]
                                   ELSE Append(f[n - 1], id)]
            g == CitedRun(handles, units)
<1>1. L \in Nat /\ \A n \in 1..L : handles[n] \in 1..Len(units)
  OBVIOUS
<1>2. ids \in Seq(Chunks) /\ Len(ids) = L /\ \A n \in 1..L : ids[n] \in Chunks
  <2>1. ASSUME NEW n \in 1..L PROVE units[handles[n]].id \in Chunks
    <3>1. units[handles[n]] \in UnitRecs
      BY <1>1
    <3>q. QED
      BY <3>1 DEF UnitRecs
  <2>q. QED
    BY <1>1, <2>1
<1>3. \A n \in 1..L : ids[n] = units[handles[n]].id
  OBVIOUS
<1>4. b \in Z
  OBVIOUS
<1>5. \A x \in Z : \A n \in 1..L : Keep(x, ids[n]) \in Z
  BY <1>2, KeepOf
<1>6. F \in [1..L -> [Z -> Z]]
  BY <1>5
<1>7. \A n \in 1..L : \A x \in Z : F[n][x] = Keep(x, ids[n])
  OBVIOUS
<1>8. g = CHOOSE h : h = Body(h)
  BY DEF CitedRun
<1>9. \A f : Body(f) = [n \in 0..L |-> IF n = 0 THEN b ELSE Keep(f[n - 1], ids[n])]
  <2>1. \A n \in 0..L : n # 0 => n \in 1..L
    BY <1>1
  <2>2. ASSUME NEW f, NEW n \in 0..L
        PROVE  (IF n = 0 THEN <<>> ELSE LET id == units[handles[n]].id
                                        IN  IF id \in ToSet(f[n - 1]) THEN f[n - 1]
                                            ELSE Append(f[n - 1], id))
               = (IF n = 0 THEN b ELSE Keep(f[n - 1], ids[n]))
    BY <1>3, <2>1 DEF Keep
  <2>q. QED
    BY <2>2
<1>. HIDE DEF F, g, Body
<1>10. PICK f : f \in Run(F, Z, b, L)
  <2>. HIDE DEF Z, b, L
  <2>q. QED
    BY <1>1, <1>4, <1>6, Iteration
<1>11. f \in [0..L -> Z] /\ f[0] = b /\ \A n \in 1..L : f[n] = F[n][f[n - 1]]
  BY <1>10 DEF Run
<1>12. f = Body(f)
  <2>1. ASSUME NEW n \in 0..L, n # 0 PROVE f[n] = Keep(f[n - 1], ids[n])
    <3>1. n \in 1..L /\ n - 1 \in 0..L
      BY <2>1, <1>1
    <3>2. f[n - 1] \in Z
      BY <1>11, <3>1
    <3>q. QED
      BY <1>7, <1>11, <3>1, <3>2
  <2>2. f = [n \in 0..L |-> f[n]]
    BY <1>11
  <2>. HIDE DEF Z, L, b
  <2>3. f = [n \in 0..L |-> IF n = 0 THEN b ELSE Keep(f[n - 1], ids[n])]
    BY <1>11, <2>1, <2>2
  <2>q. QED
    BY <1>9, <2>3
<1>13. g = [n \in 0..L |-> IF n = 0 THEN b ELSE Keep(g[n - 1], ids[n])]
  <2>1. g = Body(g)
    BY <1>8, <1>12
  <2>q. QED
    BY <1>9, <2>1
<1>. HIDE DEF b, Z
<1>14. /\ g = [n \in 0..L |-> g[n]] /\ g[0] = b
       /\ \A n \in 1..L : g[n] = Keep(g[n - 1], ids[n])
  <2>1. 0 \in 0..L /\ \A n \in 1..L : n \in 0..L /\ n # 0
    BY <1>1
  <2>q. QED
    BY <1>13, <2>1
<1>15. g \in [0..L -> Z]
  <2>1. \A n \in 1..L : g[n - 1] \in Z => g[n] \in Z
    BY <1>5, <1>14
  <2>. HIDE DEF L
  <2>q. QED
    BY <1>1, <1>4, <1>14, <2>1, Recurrence
<1>q. QED
  BY <1>2, <1>14, <1>15 DEF Sightings, b, Z, g

\* What AnswerIsCited asks of a result, over the units it was given.
CitedAnswer(units, r) ==
    r.status = "answered" =>
      LET refs == FlattenSeq(r.blocks)
      IN  /\ \A i \in DOMAIN r.cited : Owner(units, r.cited[i]) # {}
          /\ ToSet(refs) = DOMAIN r.cited
          /\ \A i \in DOMAIN refs : \A n \in 1..(refs[i] - 1) :
               \E j \in 1..(i - 1) : refs[j] = n

\* An output that parses has blocks of known handles.
LEMMA ParsedBlocks ==
    ASSUME NEW units \in Seq(UnitRecs), NEW blocks \in Outputs(units), Parse(blocks, units) = "none"
    PROVE  blocks \in Seq(Seq(1..Len(units))) /\ Len(blocks) # 0
<1>. DEFINE bad == {i \in DOMAIN blocks : Defect(blocks[i], units) # "none"}
            H == Handles(units)
<1>1. Len(units) \in Nat /\ H = 1..(Len(units) + 1)
  BY DEF Handles
<1>. HIDE DEF H
<1>2. PICK n \in 1..(IF q.mode = "product" THEN MaxBlocks ELSE 1) :
        blocks \in [1..n -> UNION {[1..k -> H] : k \in 1..MaxHandles}]
  BY DEF Outputs, H
<1>3. n \in Nat \ {0}
  BY <1>2, AnswerAssumption
<1>4. DOMAIN blocks = 1..n /\ bad \subseteq Nat
  BY <1>2, <1>3
<1>5. ASSUME NEW i \in 1..n PROVE \E k \in Nat : blocks[i] \in [1..k -> H]
  <2>1. blocks[i] \in UNION {[1..k -> H] : k \in 1..MaxHandles}
    BY <1>2
  <2>2. PICK k \in 1..MaxHandles : blocks[i] \in [1..k -> H]
    BY <2>1
  <2>3. k \in Nat
    BY AnswerAssumption
  <2>q. QED
    BY <2>2, <2>3
<1>6. bad = {}
  <2>. SUFFICES ASSUME bad # {} PROVE FALSE
    OBVIOUS
  <2>1. PICK x \in bad : \A y \in bad : x <= y
    <3>. HIDE DEF bad
    <3>q. QED
      BY <1>4, LeastOf
  <2>2. Min(bad) \in bad
    BY <2>1 DEF Min
  <2>3. Parse(blocks, units) = Defect(blocks[Min(bad)], units)
    BY DEF Parse
  <2>q. QED
    BY <2>2, <2>3
<1>7. ASSUME NEW i \in 1..n PROVE blocks[i] \in Seq(1..Len(units))
  <2>1. PICK k \in Nat : blocks[i] \in [1..k -> H]
    BY <1>5
  <2>2. Defect(blocks[i], units) = "none"
    BY <1>4, <1>6
  <2>3. ~ \E m \in DOMAIN blocks[i] : blocks[i][m] > Len(units)
    BY <2>2 DEF Defect
  <2>4. \A m \in 1..k : blocks[i][m] \in 1..Len(units)
    BY <1>1, <2>1, <2>3
  <2>5. blocks[i] \in [1..k -> 1..Len(units)]
    BY <2>1, <2>4
  <2>q. QED
    BY <2>5
<1>8. blocks \in [1..n -> Seq(1..Len(units))]
  BY <1>2, <1>7
<1>. HIDE DEF bad
<1>q. QED
  BY <1>3, <1>8

LEMMA ProjectIsCited ==
    ASSUME NEW units \in Seq(UnitRecs), NEW blocks \in Outputs(units), Parse(blocks, units) = "none"
    PROVE  CitedAnswer(units, Project(blocks, units))
<1>. DEFINE r == Project(blocks, units)
            H == 1..Len(units)
            handles == FlattenSeq(blocks)
            ids == [n \in 1..Len(handles) |-> units[handles[n]].id]
            run == CitedRun(handles, units)
            cited == Cited(blocks, units)
            more == [b \in DOMAIN blocks |-> Refs(blocks[b], units, cited)]
            X == Chunks
<1>. SUFFICES ASSUME r.status = "answered" PROVE CitedAnswer(units, r)
  BY DEF CitedAnswer
<1>1. r = [status |-> "answered", cited |-> cited, blocks |-> more]
  <2>1. \/ r = Ended("citation_invalid")
        \/ r = [status |-> "answered", cited |-> cited, blocks |-> more]
    BY DEF Project
  <2>2. Ended("citation_invalid").status = "citation_invalid"
    BY DEF Ended, Pending
  <2>. HIDE DEF r
  <2>q. QED
    BY <2>1, <2>2
<1>2. blocks \in Seq(Seq(H)) /\ Len(blocks) # 0
  BY ParsedBlocks
<1>3. handles \in Seq(H)
  <2>. HIDE DEF H
  <2>q. QED
    BY <1>2, FlatOf
<1>4. cited = run[Len(handles)]
  BY DEF Cited, CitedRun
<1>. HIDE DEF handles, run, r
<1>5. ids \in Seq(X) /\ Len(ids) = Len(handles) /\ Sightings(run, ids, X)
  BY <1>3, CitedOf DEF run
<1>6. \A n \in 1..Len(handles) : handles[n] \in H /\ ids[n] = units[handles[n]].id
  BY <1>3
<1>7. Len(handles) \in Nat
  BY <1>3
<1>. HIDE DEF ids, cited, X
<1>8. cited \in Seq(X) /\ ToSet(cited) = FirstOf(ids, Len(ids))
  <2>1. run \in [0..Len(ids) -> Seq(X)] /\ Len(ids) \in 0..Len(ids)
    BY <1>5, <1>7 DEF Sightings
  <2>2. ToSet(run[Len(ids)]) = FirstOf(ids, Len(ids))
    BY <1>5, <2>1, SightingsOf
  <2>q. QED
    BY <1>4, <1>5, <2>1, <2>2
<1>9. ASSUME NEW i \in DOMAIN cited PROVE Owner(units, cited[i]) # {}
  <2>1. cited[i] \in FirstOf(ids, Len(ids))
    BY <1>8 DEF ToSet
  <2>2. PICK k \in 1..Len(ids) : cited[i] = ids[k]
    BY <2>1 DEF FirstOf
  <2>3. handles[k] \in DOMAIN units /\ units[handles[k]].id = cited[i]
    BY <1>5, <1>6, <2>2
  <2>q. QED
    BY <2>3 DEF Owner
<1>. DEFINE C == DOMAIN cited
            R == {p \in H \X C : cited[p[2]] = units[p[1]].id}
<1>10. ASSUME NEW h \in ToSet(handles) PROVE \E n \in C : cited[n] = units[h].id
  <2>1. PICK k \in 1..Len(handles) : handles[k] = h
    BY <1>3 DEF ToSet
  <2>2. ids[k] \in FirstOf(ids, Len(ids)) /\ ids[k] = units[h].id
    BY <1>5, <1>6, <2>1 DEF FirstOf
  <2>3. units[h].id \in ToSet(cited)
    BY <1>8, <2>2
  <2>q. QED
    BY <2>3 DEF ToSet
<1>11. ASSUME NEW b \in 1..Len(blocks), NEW i \in 1..Len(blocks[b])
       PROVE  blocks[b][i] \in H /\ blocks[b][i] \in ToSet(handles)
  <2>1. blocks[b] \in Seq(H)
    BY <1>2
  <2>2. blocks[b][i] \in H
    BY <2>1
  <2>3. blocks[b][i] \in ToSet(handles)
    BY <1>2, FlattenHolds DEF handles
  <2>q. QED
    BY <2>2, <2>3
<1>12. ASSUME NEW b \in 1..Len(blocks)
       PROVE  /\ more[b] \in Seq(C) /\ Len(more[b]) = Len(blocks[b])
              /\ \A i \in 1..Len(blocks[b]) : <<blocks[b][i], more[b][i]>> \in R
  <2>. DEFINE block == blocks[b]
              N == Len(block)
              refs == Refs(block, units, cited)
  <2>1. block \in Seq(H) /\ N \in Nat /\ DOMAIN block = 1..N
    BY <1>2
  <2>2. more[b] = refs
    BY <1>2
  <2>3. refs = [i \in 1..N |-> CHOOSE n \in C : cited[n] = units[block[i]].id]
    BY <2>1 DEF Refs
  <2>. HIDE DEF refs
  <2>4. ASSUME NEW i \in 1..N PROVE refs[i] \in C /\ cited[refs[i]] = units[block[i]].id
    <3>1. \E n \in C : cited[n] = units[block[i]].id
      BY <1>10, <1>11
    <3>2. refs[i] = CHOOSE n \in C : cited[n] = units[block[i]].id
      BY <2>3
    <3>. HIDE DEF C, block
    <3>q. QED
      BY <3>1, <3>2
  <2>5. refs \in [1..N -> C]
    BY <2>3, <2>4
  <2>6. refs \in Seq(C) /\ Len(refs) = N
    <3>1. N \in Nat
      BY <2>1
    <3>. HIDE DEF N, C
    <3>q. QED
      BY <2>5, <3>1
  <2>7. \A i \in 1..N : <<block[i], refs[i]>> \in R
    BY <1>11, <2>4
  <2>q. QED
    BY <2>2, <2>6, <2>7
<1>13. more \in Seq(Seq(C)) /\ Len(more) = Len(blocks)
  <2>. DEFINE B == Len(blocks)
  <2>1. B \in Nat /\ DOMAIN blocks = 1..B
    BY <1>2
  <2>2. more = [b \in 1..B |-> Refs(blocks[b], units, cited)]
    BY <2>1
  <2>3. \A b \in 1..B : more[b] \in Seq(C)
    BY <1>12
  <2>. HIDE DEF more, B, C
  <2>4. more \in [1..B -> Seq(C)]
    BY <2>2, <2>3
  <2>q. QED
    BY <2>1, <2>4 DEF B
<1>. HIDE DEF more, H, C
<1>. DEFINE refs == FlattenSeq(more)
<1>14. /\ Len(refs) = Len(handles)
       /\ \A i \in 1..Len(handles) : <<handles[i], refs[i]>> \in R
  <2>1. \A b \in 1..Len(blocks) :
          /\ Len(more[b]) = Len(blocks[b])
          /\ \A i \in 1..Len(blocks[b]) : <<blocks[b][i], more[b][i]>> \in R
    BY <1>12
  <2>. HIDE DEF R
  <2>q. QED
    BY <1>2, <1>13, <2>1, FlattenRelated DEF handles
<1>15. refs \in Seq(C)
  BY <1>2, <1>13, FlatOf
<1>. HIDE DEF refs
<1>16. \A i \in 1..Len(ids) : cited[refs[i]] = ids[i]
  BY <1>5, <1>6, <1>14
<1>17. /\ ToSet(refs) = DOMAIN cited
       /\ \A i \in DOMAIN refs : \A n \in 1..(refs[i] - 1) : \E j \in 1..(i - 1) : refs[j] = n
  <2>1. cited = run[Len(ids)] /\ Len(refs) = Len(ids) /\ refs \in Seq(DOMAIN cited)
    BY <1>4, <1>5, <1>14, <1>15 DEF C
  <2>2. ids \in Seq(X) /\ Sightings(run, ids, X)
    BY <1>5
  <2>. HIDE DEF R
  <2>q. QED
    BY <1>16, <2>1, <2>2, NumberedByFirst
<1>q. QED
  BY <1>1, <1>9, <1>17 DEF CitedAnswer, refs

(***************************************************************************)
(* The inductive invariant.  What a stage relies on was settled by an      *)
(* earlier one: the evidence is good for the question it was assembled     *)
(* for, and the recovery stands where the calls made so far have left it.  *)
(***************************************************************************)
Pointers == [chunks : Generations, dense : Generations, lexical : Generations]
Stacks   == [dense : Int, lexical : Int, chunks : Int]

QuestionInv ==
    /\ q.budget \in Nat /\ q.bound \in Pointers
    /\ pc # "idle" => q.strategy \in Strategies

EvidenceInv ==
    /\ ctx \in GoodContexts(q.strategy, q.budget)
    /\ pc = "idle" => ctx = EmptyContext
    /\ pc = "rerank" => pool = Truncate(Fuse(dense, lexical), InputK)
    /\ pc \in {"compare", "generate"} => UnitDocs(ctx.units) \subseteq q.scope

StackInv ==
    /\ stack \in Stacks
    /\ pc \in {"rerank", "structure", "expand", "recover", "compare", "generate"} =>
         stack.dense = stack.lexical
    /\ pc = "generate" /\ Recovering => SameStack(first.stack, stack)

\* The states of a recovery that is not over.
Missed == <<[query |-> "original", sufficient |-> FALSE]>>
EligibleRec ==
    [phase |-> "eligible", active |-> "original", attempts |-> Missed,
     outcome |-> "none", reason |-> "none"]
PendingRec(query) ==
    [phase |-> "pending", active |-> query, attempts |-> Missed,
     outcome |-> "none", reason |-> "none"]

Attempting == {"dense", "lexical", "fuse", "rerank", "structure", "expand"}

RecoveryOff ==
    /\ rec = NoRecovery /\ calls.rewrites = 0 /\ pc \notin {"recover", "compare"}
    /\ pc \in {"idle", "ready"} => calls.retrievals = 0
    /\ pc \in Attempting => calls.retrievals = 1
RecoveryDecides ==
    /\ pc = "recover" /\ rec \in {AwaitingInitial, EligibleRec}
    /\ calls.retrievals = 1 /\ calls.rewrites = 0
RecoveryPends ==
    /\ \E query \in Queries : rec = PendingRec(query)
    /\ pc \in Attempting \cup {"ready", "compare"}
    /\ calls.rewrites = 1 /\ calls.retrievals = IF pc = "ready" THEN 1 ELSE 2
RecoveryEnds ==
    /\ pc \in {"generate", "done"} /\ rec.phase = "terminal" /\ ValidRecovery(rec)
    /\ rec.reason = "rewrite_preparation_failed" => calls.retrievals = 1
    /\ rec.reason = "recovery_execution_failed" => calls.rewrites = 1
    /\ pc = "generate" /\ ctx.units # <<>> => rec.outcome = "recovered_evidence_sufficient"
    /\ result.status = "answered" => rec.outcome = "recovered_evidence_sufficient"

RecoveryInv == RecoveryOff \/ RecoveryDecides \/ RecoveryPends \/ RecoveryEnds

ResultInv ==
    /\ pc # "done" => result = Pending /\ calls.generations = 0
    /\ result.status # "protocol_error"
    /\ CitedAnswer(ctx.units, result)

AnswerInv ==
    TypeOK /\ QuestionInv /\ EvidenceInv /\ StackInv /\ RecoveryInv /\ ResultInv

\* Bounded sequences.
LEMMA SeqOfBound ==
    ASSUME NEW S, NEW k \in Nat
    PROVE  /\ <<>> \in SeqOf(S, k) /\ SeqOf(S, k) \subseteq Seq(S)
           /\ \A s \in SeqOf(S, k) : s # <<>> => Head(s) \in S /\ Tail(s) \in SeqOf(S, k)
           /\ \A T : T \subseteq S => SeqOf(T, k) \subseteq SeqOf(S, k)
<1>1. <<>> \in SeqOf(S, k)
  <2>1. <<>> \in [1..0 -> S] /\ 0 \in 0..k
    OBVIOUS
  <2>q. QED
    BY <2>1 DEF SeqOf
<1>2. ASSUME NEW s \in SeqOf(S, k) PROVE s \in Seq(S) /\ Len(s) <= k
  <2>1. PICK m \in 0..k : s \in [1..m -> S]
    BY DEF SeqOf
  <2>2. m \in Nat /\ m <= k
    OBVIOUS
  <2>q. QED
    BY <2>1, <2>2
<1>3. ASSUME NEW s \in Seq(S), Len(s) <= k PROVE s \in SeqOf(S, k)
  <2>1. s \in [1..Len(s) -> S] /\ Len(s) \in 0..k
    BY <1>3
  <2>q. QED
    BY <2>1 DEF SeqOf
<1>4. ASSUME NEW s \in SeqOf(S, k), s # <<>> PROVE Head(s) \in S /\ Tail(s) \in SeqOf(S, k)
  <2>1. s \in Seq(S) /\ Len(s) <= k
    BY <1>2
  <2>2. Head(s) \in S /\ Tail(s) \in Seq(S) /\ Len(Tail(s)) = Len(s) - 1 /\ Len(s) \in Nat
    BY <1>4, <2>1, HeadTailProperties
  <2>3. Len(Tail(s)) <= k
    BY <2>1, <2>2
  <2>q. QED
    BY <1>3, <2>2, <2>3
<1>5. ASSUME NEW T, T \subseteq S, NEW s \in SeqOf(T, k) PROVE s \in SeqOf(S, k)
  <2>1. PICK m \in 0..k : s \in [1..m -> T]
    BY DEF SeqOf
  <2>2. s \in [1..m -> S]
    BY <1>5, <2>1
  <2>q. QED
    BY <2>2 DEF SeqOf
<1>q. QED
  BY <1>1, <1>2, <1>4, <1>5

LEMMA GenerationsAre == \A g \in Generations : g \in Int
  BY AnswerAssumption

\* The hits of a branch are searchable children.
LEMMA HitsOf ==
    ASSUME NEW g \in Generations, NEW k \in Nat
    PROVE  Hits(g, k) \subseteq SeqOf(Children, k)
<1>1. ChildrenOf[g] \subseteq Children
  BY AnswerAssumption
<1>2. SeqOf(ChildrenOf[g], k) \subseteq SeqOf(Children, k)
  BY <1>1, SeqOfBound
<1>q. QED
  BY <1>2 DEF Hits

(***************************************************************************)
(* The recovery protocol, state by state: every event the coordinator      *)
(* sends is legal, and leads to a valid state.                             *)
(***************************************************************************)
LEMMA MissedOnce ==
    Len(Missed) = 1 /\ Missed # <<>> /\ Missed[1].query = "original" /\ ~Missed[1].sufficient
  BY DEF Missed

LEMMA FirstAttempt ==
    /\ ValidRecovery(AwaitingInitial) /\ Legal(AwaitingInitial, "record_initial")
    /\ RecordInitial(AwaitingInitial, FALSE) = EligibleRec /\ ValidRecovery(EligibleRec)
<1>1. AwaitingInitial = [phase |-> "awaiting_initial", active |-> "original", attempts |-> <<>>,
                         outcome |-> "none", reason |-> "none"]
  BY DEF AwaitingInitial, NoRecovery
<1>2. ValidRecovery(AwaitingInitial)
  BY <1>1 DEF ValidRecovery, ValidAttempts, ValidPhase
<1>3. Legal(AwaitingInitial, "record_initial")
  BY <1>1 DEF Legal
<1>4. RecordInitial(AwaitingInitial, FALSE) = EligibleRec
  <2>. DEFINE a == AwaitingInitial
              m == <<[query |-> a.active, sufficient |-> FALSE]>>
  <2>1. m = Missed
    BY <1>1 DEF Missed
  <2>2. RecordInitial(a, FALSE) =
          [a EXCEPT !.attempts = m, !.phase = "eligible", !.outcome = "none"]
    BY DEF RecordInitial
  <2>3. a = [phase |-> "awaiting_initial", active |-> "original", attempts |-> <<>>,
             outcome |-> "none", reason |-> "none"]
    BY <1>1
  <2>. HIDE DEF a, m
  <2>4. RecordInitial(a, FALSE) = EligibleRec
    BY <2>1, <2>2, <2>3 DEF EligibleRec
  <2>q. QED
    BY <2>4 DEF a
<1>5. ValidRecovery(EligibleRec)
  BY MissedOnce DEF ValidRecovery, ValidAttempts, ValidPhase, EligibleRec
<1>q. QED
  BY <1>2, <1>3, <1>4, <1>5

LEMMA Preparation ==
    ASSUME NEW query \in Queries
    PROVE  /\ Legal(EligibleRec, "prepare") /\ PrepareQuery(EligibleRec, query) = PendingRec(query)
           /\ ValidRecovery(PendingRec(query)) /\ PendingRec(query).phase = "pending"
<1>1. ValidRecovery(PendingRec(query)) /\ PendingRec(query).phase = "pending"
  BY MissedOnce DEF ValidRecovery, ValidAttempts, ValidPhase, PendingRec
<1>2. Legal(EligibleRec, "prepare")
  BY DEF Legal, EligibleRec
<1>3. PrepareQuery(EligibleRec, query) = PendingRec(query)
  <2>. DEFINE e == EligibleRec
              m == Missed
              x == query
  <2>1. e = [phase |-> "eligible", active |-> "original", attempts |-> m,
             outcome |-> "none", reason |-> "none"]
    BY DEF EligibleRec
  <2>2. PrepareQuery(e, x) = [e EXCEPT !.phase = "pending", !.active = x]
    BY DEF PrepareQuery
  <2>3. PendingRec(x) = [phase |-> "pending", active |-> x, attempts |-> m,
                         outcome |-> "none", reason |-> "none"]
    BY DEF PendingRec
  <2>. HIDE DEF e, m, x
  <2>4. PrepareQuery(e, x) = PendingRec(x)
    BY <2>1, <2>2, <2>3
  <2>q. QED
    BY <2>4 DEF e, x
<1>q. QED
  BY <1>1, <1>2, <1>3

LEMMA PreparationFails ==
    LET r == FailRecovery(EligibleRec, "rewrite_preparation_failed")
    IN  /\ Legal(EligibleRec, "fail_preparation") /\ ValidRecovery(r)
        /\ r.phase = "terminal" /\ r.reason = "rewrite_preparation_failed"
<1>. DEFINE r == FailRecovery(EligibleRec, "rewrite_preparation_failed")
<1>1. /\ r.phase = "terminal" /\ r.active = "original" /\ r.attempts = Missed
      /\ r.outcome = "recovery_failed" /\ r.reason = "rewrite_preparation_failed"
  BY DEF FailRecovery, EligibleRec
<1>. HIDE DEF r
<1>2. ValidFailure(r)
  BY <1>1, MissedOnce DEF ValidFailure
<1>3. ValidTerminal(r)
  BY <1>1, <1>2 DEF ValidTerminal
<1>4. ValidRecovery(r)
  BY <1>1, <1>3, MissedOnce DEF ValidRecovery, ValidAttempts, ValidPhase
<1>5. Legal(EligibleRec, "fail_preparation")
  BY DEF Legal, EligibleRec
<1>q. QED
  BY <1>1, <1>4, <1>5 DEF r

LEMMA ExecutionFails ==
    ASSUME NEW query \in Queries
    PROVE  LET r == FailRecovery(PendingRec(query), "recovery_execution_failed")
           IN  /\ Legal(PendingRec(query), "fail_execution") /\ ValidRecovery(r)
               /\ r.phase = "terminal" /\ r.reason = "recovery_execution_failed"
<1>. DEFINE r == FailRecovery(PendingRec(query), "recovery_execution_failed")
<1>1. /\ r.phase = "terminal" /\ r.active = query /\ r.attempts = Missed
      /\ r.outcome = "recovery_failed" /\ r.reason = "recovery_execution_failed"
  BY DEF FailRecovery, PendingRec
<1>2. Legal(PendingRec(query), "fail_execution")
  BY DEF Legal, PendingRec
<1>. HIDE DEF r
<1>3. ValidFailure(r)
  BY <1>1, MissedOnce DEF ValidFailure
<1>4. ValidTerminal(r)
  BY <1>1, <1>3 DEF ValidTerminal
<1>5. ValidRecovery(r)
  BY <1>1, <1>4, MissedOnce DEF ValidRecovery, ValidAttempts, ValidPhase
<1>q. QED
  BY <1>1, <1>2, <1>5 DEF r

LEMMA SecondAttempt ==
    ASSUME NEW query \in Queries, NEW ok \in BOOLEAN
    PROVE  LET r == RecordRecovery(PendingRec(query), ok)
           IN  /\ Legal(PendingRec(query), "record_recovery") /\ ValidRecovery(r)
               /\ r.phase = "terminal" /\ r.reason = "none"
               /\ ok => r.outcome = "recovered_evidence_sufficient"
<1>. DEFINE r == RecordRecovery(PendingRec(query), ok)
            last == [query |-> query, sufficient |-> ok]
            both == Append(Missed, last)
<1>1. /\ Len(both) = 2 /\ both # <<>> /\ both[1] = Missed[1] /\ both[2] = last
      /\ last.query = query /\ last.sufficient = ok
  BY DEF Missed
<1>. HIDE DEF last
<1>2. /\ r.phase = "terminal" /\ r.reason = "none" /\ r.active = query /\ r.attempts = both
      /\ r.outcome = IF ok THEN "recovered_evidence_sufficient"
                     ELSE "insufficient_after_bounded_recovery"
  BY DEF RecordRecovery, PendingRec, last
<1>3. Legal(PendingRec(query), "record_recovery")
  BY MissedOnce DEF Legal, PendingRec
<1>. HIDE DEF r, both
<1>4. ValidTwoAttempts(r, ok)
  BY <1>1, <1>2, MissedOnce DEF ValidTwoAttempts
<1>5. ValidTerminal(r)
  <2>1. CASE ok
    <3>1. r.outcome = "recovered_evidence_sufficient" /\ ValidTwoAttempts(r, TRUE)
      BY <1>2, <1>4, <2>1
    <3>q. QED
      BY <3>1 DEF ValidTerminal
  <2>2. CASE ~ok
    <3>1. r.outcome = "insufficient_after_bounded_recovery" /\ ValidTwoAttempts(r, FALSE)
      BY <1>2, <1>4, <2>2
    <3>q. QED
      BY <3>1 DEF ValidTerminal
  <2>q. QED
    BY <2>1, <2>2
<1>6. ValidRecovery(r)
  <2>1. both[1].query = "original"
    BY <1>1, MissedOnce
  <2>2. ValidAttempts(r)
    <3>1. Len(both) <= 2
      BY <1>1
    <3>2. r.attempts = both
      BY <1>2
    <3>q. QED
      BY <2>1, <3>1, <3>2, Zenon DEF ValidAttempts
  <2>3. ValidPhase(r)
    BY <1>2, <1>5 DEF ValidPhase
  <2>q. QED
    BY <2>2, <2>3 DEF ValidRecovery
<1>q. QED
  BY <1>2, <1>3, <1>6 DEF r

(***************************************************************************)
(* The steps.                                                              *)
(***************************************************************************)
LEMMA EndedIs ==
    ASSUME NEW status
    PROVE  /\ Ended(status).status = status
           /\ \A units : status # "answered" => CitedAnswer(units, Ended(status))
  BY DEF Ended, Pending, CitedAnswer

\* Where the recovery is while an attempt runs.
LEMMA AttemptOf ==
    ASSUME AnswerInv, pc \in Attempting \cup {"ready", "compare"}
    PROVE  /\ RecoveryOff \/ RecoveryPends
           /\ RecoveryOff => ~Recovering
           /\ RecoveryPends => Recovering
           /\ result = Pending
<1>1. ~RecoveryDecides /\ ~RecoveryEnds
  BY DEF RecoveryDecides, RecoveryEnds, Attempting
<1>2. RecoveryOff => ~Recovering
  BY DEF RecoveryOff, Recovering, NoRecovery
<1>3. RecoveryPends => Recovering
  BY DEF RecoveryPends, Recovering, PendingRec
<1>4. result = Pending
  BY DEF AnswerInv, ResultInv, Attempting
<1>q. QED
  BY <1>1, <1>2, <1>3, <1>4 DEF AnswerInv, RecoveryInv

LEMMA RaiseKeeps ==
    ASSUME AnswerInv, pc \in Attempting \cup {"ready", "compare"},
           NEW kind \in {"grounded_error", "escaped_error"}, Raise(kind)
    PROVE  AnswerInv'
<1>1. UNCHANGED <<q, pointer, stack, dense, lexical, pool, anchors, ctx, first, calls>>
  BY DEF Raise
<1>2. pc' = "done" /\ pc # "idle"
  BY DEF Raise, ApplyAndEnd, Attempting
<1>3. TypeOK' /\ QuestionInv' /\ EvidenceInv' /\ StackInv'
  <2>1. TypeOK'
    BY <1>1, <1>2 DEF AnswerInv, TypeOK
  <2>2. QuestionInv'
    BY <1>1, <1>2 DEF AnswerInv, QuestionInv
  <2>3. EvidenceInv'
    BY <1>1, <1>2 DEF AnswerInv, EvidenceInv
  <2>4. StackInv'
    BY <1>1, <1>2 DEF AnswerInv, StackInv
  <2>q. QED
    BY <2>1, <2>2, <2>3, <2>4
<1>4. CASE RecoveryOff
  <2>1. rec' = rec /\ result' = Ended(kind)
    BY <1>4, AttemptOf DEF Raise
  <2>2. RecoveryOff'
    BY <1>1, <1>2, <1>4, <2>1 DEF RecoveryOff, Attempting
  <2>3. ResultInv'
    BY <1>2, <2>1, EndedIs DEF ResultInv
  <2>q. QED
    BY <1>3, <2>2, <2>3 DEF AnswerInv, RecoveryInv
<1>5. CASE RecoveryPends
  <2>1. PICK query \in Queries : rec = PendingRec(query)
    BY <1>5 DEF RecoveryPends
  <2>. DEFINE r == FailRecovery(rec, "recovery_execution_failed")
  <2>2. /\ Legal(rec, "fail_execution") /\ ValidRecovery(r) /\ ValidRecovery(rec)
        /\ r.phase = "terminal" /\ r.reason = "recovery_execution_failed"
    BY <2>1, ExecutionFails, Preparation
  <2>3. ApplyAndEnd("fail_execution", r, "grounded_error")
    BY <1>5, AttemptOf DEF Raise
  <2>. HIDE DEF r
  <2>4. rec' = r /\ result' = Ended("grounded_error")
    BY <2>2, <2>3 DEF ApplyAndEnd
  <2>5. calls'.rewrites = 1
    BY <1>1, <1>5 DEF RecoveryPends
  <2>6. result'.status = "grounded_error"
    BY <2>4, EndedIs
  <2>7. ValidRecovery(rec')
    BY <2>2, <2>4
  <2>8. RecoveryEnds'
    BY <1>2, <2>2, <2>4, <2>5, <2>6, <2>7 DEF RecoveryEnds
  <2>9. ResultInv'
    BY <1>2, <2>4, EndedIs DEF ResultInv
  <2>q. QED
    BY <1>3, <2>8, <2>9 DEF AnswerInv, RecoveryInv
<1>q. QED
  BY <1>4, <1>5, AttemptOf

\* From one stage of an attempt to the next.
LEMMA AdvanceKeeps ==
    ASSUME AnswerInv, pc \in Attempting, NEW stage \in Attempting, Advance(stage), UNCHANGED calls
    PROVE  QuestionInv' /\ RecoveryInv' /\ ResultInv'
<1>1. UNCHANGED <<q, pointer, rec, result, first, calls>> /\ pc' = stage
  BY DEF Advance
<1>2. QuestionInv'
  BY <1>1 DEF AnswerInv, QuestionInv, Attempting
<1>3. RecoveryInv'
  <2>1. CASE RecoveryOff
    <3>1. RecoveryOff'
      BY <1>1, <2>1 DEF RecoveryOff, Attempting
    <3>q. QED
      BY <3>1 DEF RecoveryInv
  <2>2. CASE RecoveryPends
    <3>1. RecoveryPends'
      BY <1>1, <2>2 DEF RecoveryPends, Attempting
    <3>q. QED
      BY <3>1 DEF RecoveryInv
  <2>q. QED
    BY <2>1, <2>2, AttemptOf
<1>4. ResultInv'
  <2>1. result' = Pending /\ calls'.generations = 0
    BY <1>1, AttemptOf DEF AnswerInv, ResultInv, Attempting
  <2>2. Pending.status = "pending"
    BY DEF Pending
  <2>q. QED
    BY <1>1, <2>1, <2>2 DEF ResultInv, CitedAnswer
<1>q. QED
  BY <1>2, <1>3, <1>4

LEMMA ReindexKeeps == ASSUME AnswerInv, Reindex PROVE AnswerInv'
<1>1. UNCHANGED <<pc, q, stack, dense, lexical, pool, anchors, ctx, first, rec, calls, result>>
  BY DEF Reindex
<1>2. pointer' \in Pointers
  <2>1. pointer \in Pointers
    BY DEF AnswerInv, TypeOK, Pointers
  <2>2. CASE pointer.chunks + 1 \in Generations /\ pointer' = [pointer EXCEPT !.chunks = pointer.chunks + 1]
    BY <2>1, <2>2 DEF Pointers
  <2>3. CASE pointer' = [pointer EXCEPT !.dense = pointer.chunks]
    BY <2>1, <2>3 DEF Pointers
  <2>4. CASE pointer' = [pointer EXCEPT !.lexical = pointer.chunks]
    BY <2>1, <2>4 DEF Pointers
  <2>q. QED
    BY <2>2, <2>3, <2>4 DEF Reindex
<1>3. TypeOK'
  BY <1>1, <1>2 DEF AnswerInv, TypeOK, Pointers
<1>4. QuestionInv' /\ EvidenceInv' /\ StackInv'
  <2>1. QuestionInv'
    BY <1>1 DEF AnswerInv, QuestionInv
  <2>2. EvidenceInv'
    BY <1>1 DEF AnswerInv, EvidenceInv
  <2>3. StackInv'
    BY <1>1 DEF AnswerInv, StackInv, Recovering
  <2>q. QED
    BY <2>1, <2>2, <2>3
<1>5. RecoveryInv' /\ ResultInv'
  <2>1. RecoveryOff => RecoveryOff'
    BY <1>1 DEF RecoveryOff
  <2>2. RecoveryDecides => RecoveryDecides'
    BY <1>1 DEF RecoveryDecides
  <2>3. RecoveryPends => RecoveryPends'
    BY <1>1 DEF RecoveryPends
  <2>4. RecoveryEnds => RecoveryEnds'
    BY <1>1 DEF RecoveryEnds
  <2>5. ResultInv'
    BY <1>1 DEF AnswerInv, ResultInv
  <2>q. QED
    BY <2>1, <2>2, <2>3, <2>4, <2>5 DEF AnswerInv, RecoveryInv
<1>q. QED
  BY <1>3, <1>4, <1>5 DEF AnswerInv

LEMMA AskKeeps ==
    ASSUME AnswerInv, NEW mode, NEW strategy \in Strategies, NEW budget \in Budgets,
           NEW scope, NEW recovery, Ask(mode, strategy, budget, scope, recovery)
    PROVE  AnswerInv'
<1>1. /\ UNCHANGED <<pointer, stack, dense, lexical, pool, anchors, ctx, first, rec, calls, result>>
      /\ pc = "idle" /\ pc' = "ready"
      /\ q'.strategy = strategy /\ q'.budget = budget /\ q'.bound = pointer
  BY DEF Ask
<1>2. budget \in Nat
  BY AnswerAssumption
<1>3. TypeOK'
  BY <1>1 DEF AnswerInv, TypeOK
<1>4. QuestionInv'
  BY <1>1, <1>2 DEF AnswerInv, QuestionInv, TypeOK, Pointers
<1>5. EvidenceInv'
  <2>1. ctx' = EmptyContext
    BY <1>1 DEF AnswerInv, EvidenceInv
  <2>2. ctx' \in GoodContexts(q'.strategy, q'.budget)
    BY <1>1, <1>2, <2>1, EmptyIsGood
  <2>q. QED
    BY <1>1, <2>2 DEF EvidenceInv
<1>6. StackInv'
  BY <1>1 DEF AnswerInv, StackInv
<1>7. RecoveryInv'
  <2>1. RecoveryOff
    BY <1>1 DEF AnswerInv, RecoveryInv, RecoveryDecides, RecoveryPends, RecoveryEnds, Attempting
  <2>2. RecoveryOff'
    BY <1>1, <2>1 DEF RecoveryOff, Attempting
  <2>q. QED
    BY <2>2 DEF RecoveryInv
<1>8. ResultInv'
  BY <1>1 DEF AnswerInv, ResultInv
<1>q. QED
  BY <1>3, <1>4, <1>5, <1>6, <1>7, <1>8 DEF AnswerInv

LEMMA CheckReadyKeeps == ASSUME AnswerInv, CheckReady PROVE AnswerInv'
<1>1. CASE Raise("grounded_error")
  BY <1>1, RaiseKeeps DEF CheckReady
<1>2. CASE ~Raise("grounded_error")
  <2>1. /\ pc = "ready" /\ pc' = "dense" /\ UNCHANGED <<q, pointer, rec, result, first>>
        /\ calls' = [calls EXCEPT !.retrievals = calls.retrievals + 1]
        /\ stack' = NoStack /\ dense' = <<>> /\ lexical' = <<>> /\ pool' = <<>>
        /\ anchors' = <<>> /\ ctx' = EmptyContext
    BY <1>2 DEF CheckReady, Advance
  <2>2. /\ calls \in [retrievals : 0..2, rewrites : 0..1, generations : 0..1]
        /\ calls.generations = 0 /\ calls.retrievals \in {0, 1}
    <3>1. calls \in [retrievals : 0..2, rewrites : 0..1, generations : 0..1]
      BY DEF AnswerInv, TypeOK
    <3>2. calls.generations = 0
      BY <2>1 DEF AnswerInv, ResultInv
    <3>3. calls.retrievals \in {0, 1}
      BY <2>1, AttemptOf DEF RecoveryOff, RecoveryPends
    <3>q. QED
      BY <3>1, <3>2, <3>3
  <2>3. /\ calls' \in [retrievals : 0..2, rewrites : 0..1, generations : 0..1]
        /\ calls'.retrievals = calls.retrievals + 1 /\ calls'.rewrites = calls.rewrites
        /\ calls'.generations = 0
    BY <2>1, <2>2
  <2>4. TypeOK'
    <3>1. /\ <<>> \in SeqOf(Children, DenseK) /\ <<>> \in SeqOf(Children, LexicalK)
          /\ <<>> \in SeqOf(Children, InputK) /\ <<>> \in SeqOf(Children, AnchorK)
      BY AnswerAssumption, SeqOfBound
    <3>q. QED
      BY <2>1, <2>3, <3>1 DEF AnswerInv, TypeOK
  <2>5. QuestionInv'
    BY <2>1 DEF AnswerInv, QuestionInv
  <2>6. EvidenceInv'
    <3>1. ctx' \in GoodContexts(q'.strategy, q'.budget)
      BY <2>1, EmptyIsGood DEF AnswerInv, QuestionInv
    <3>q. QED
      BY <2>1, <3>1 DEF EvidenceInv
  <2>7. StackInv'
    BY <2>1 DEF StackInv, Stacks, NoStack
  <2>8. RecoveryInv'
    <3>1. CASE RecoveryOff
      <4>1. RecoveryOff'
        BY <2>1, <2>3, <3>1 DEF RecoveryOff, Attempting
      <4>q. QED
        BY <4>1 DEF RecoveryInv
    <3>2. CASE RecoveryPends
      <4>1. RecoveryPends'
        BY <2>1, <2>3, <3>2 DEF RecoveryPends, Attempting
      <4>q. QED
        BY <4>1 DEF RecoveryInv
    <3>q. QED
      BY <2>1, <3>1, <3>2, AttemptOf
  <2>9. ResultInv'
    <3>1. result' = Pending /\ Pending.status = "pending"
      BY <2>1, AttemptOf DEF Pending
    <3>q. QED
      BY <2>1, <2>3, <3>1 DEF ResultInv, CitedAnswer
  <2>q. QED
    BY <2>4, <2>5, <2>6, <2>7, <2>8, <2>9 DEF AnswerInv
<1>q. QED
  BY <1>1, <1>2

LEMMA DenseKeeps == ASSUME AnswerInv, DenseRetrieve \/ DenseFault PROVE AnswerInv'
<1>1. pc = "dense" /\ pc \in Attempting
  BY DEF DenseRetrieve, DenseFault, Attempting
<1>2. CASE Raise("escaped_error")
  BY <1>1, <1>2, RaiseKeeps
<1>3. CASE ~Raise("escaped_error")
  <2>. DEFINE g == IF Bound THEN q.bound.dense ELSE pointer.dense
  <2>1. PICK hits \in Hits(g, DenseK) :
          /\ dense' = hits /\ stack' = [stack EXCEPT !.dense = g] /\ Advance("lexical")
          /\ UNCHANGED <<lexical, pool, anchors, ctx, calls>>
    BY <1>3 DEF DenseRetrieve, DenseFault
  <2>2. g \in Generations
    BY DEF AnswerInv, TypeOK, QuestionInv, Pointers
  <2>3. dense' \in SeqOf(Children, DenseK)
    BY <2>1, <2>2, HitsOf, AnswerAssumption
  <2>. HIDE DEF g
  <2>4. g \in Int
    BY <2>2, GenerationsAre
  <2>5. UNCHANGED <<q, pointer, rec, result, first>> /\ pc' = "lexical"
    BY <2>1 DEF Advance
  <2>6. TypeOK'
    BY <2>1, <2>3, <2>5 DEF AnswerInv, TypeOK
  <2>7. EvidenceInv'
    BY <1>1, <2>1, <2>5 DEF AnswerInv, EvidenceInv
  <2>8. StackInv'
    <3>1. stack' \in Stacks
      BY <2>1, <2>4 DEF AnswerInv, StackInv, Stacks
    <3>q. QED
      BY <2>5, <3>1 DEF StackInv
  <2>9. QuestionInv' /\ RecoveryInv' /\ ResultInv'
    <3>1. "lexical" \in Attempting
      BY DEF Attempting
    <3>q. QED
      BY <1>1, <2>1, <3>1, AdvanceKeeps
  <2>q. QED
    BY <2>6, <2>7, <2>8, <2>9 DEF AnswerInv
<1>q. QED
  BY <1>2, <1>3

LEMMA LexicalKeeps == ASSUME AnswerInv, LexicalRetrieve \/ LexicalFault PROVE AnswerInv'
<1>1. pc = "lexical" /\ pc \in Attempting
  BY DEF LexicalRetrieve, LexicalFault, Attempting
<1>2. CASE Raise("grounded_error")
  BY <1>1, <1>2, RaiseKeeps
<1>3. CASE ~Raise("grounded_error")
  <2>. DEFINE g == IF Bound THEN q.bound.lexical ELSE pointer.lexical
  <2>1. PICK hits \in Hits(g, LexicalK) :
          /\ lexical' = hits /\ stack' = [stack EXCEPT !.lexical = g] /\ Advance("fuse")
          /\ UNCHANGED <<dense, pool, anchors, ctx, calls>>
    BY <1>3 DEF LexicalRetrieve, LexicalFault
  <2>2. g \in Generations
    BY DEF AnswerInv, TypeOK, QuestionInv, Pointers
  <2>3. lexical' \in SeqOf(Children, LexicalK)
    BY <2>1, <2>2, HitsOf, AnswerAssumption
  <2>. HIDE DEF g
  <2>4. g \in Int
    BY <2>2, GenerationsAre
  <2>5. UNCHANGED <<q, pointer, rec, result, first>> /\ pc' = "fuse"
    BY <2>1 DEF Advance
  <2>6. TypeOK'
    BY <2>1, <2>3, <2>5 DEF AnswerInv, TypeOK
  <2>7. EvidenceInv'
    BY <1>1, <2>1, <2>5 DEF AnswerInv, EvidenceInv
  <2>8. StackInv'
    <3>1. stack' \in Stacks
      BY <2>1, <2>4 DEF AnswerInv, StackInv, Stacks
    <3>q. QED
      BY <2>5, <3>1 DEF StackInv
  <2>9. QuestionInv' /\ RecoveryInv' /\ ResultInv'
    <3>1. "fuse" \in Attempting
      BY DEF Attempting
    <3>q. QED
      BY <1>1, <2>1, <3>1, AdvanceKeeps
  <2>q. QED
    BY <2>6, <2>7, <2>8, <2>9 DEF AnswerInv
<1>q. QED
  BY <1>2, <1>3

LEMMA FuseKeeps == ASSUME AnswerInv, FuseBranches PROVE AnswerInv'
<1>1. pc = "fuse" /\ pc \in Attempting
  BY DEF FuseBranches, Attempting
<1>2. CASE Raise("grounded_error")
  BY <1>1, <1>2, RaiseKeeps
<1>3. CASE ~Raise("grounded_error")
  <2>1. /\ stack.dense = stack.lexical /\ pool' = Truncate(Fuse(dense, lexical), InputK)
        /\ Advance("rerank") /\ UNCHANGED <<stack, dense, lexical, anchors, ctx, calls>>
    BY <1>3 DEF FuseBranches
  <2>2. UNCHANGED <<q, pointer, rec, result, first>> /\ pc' = "rerank"
    BY <2>1 DEF Advance
  <2>3. dense \in Seq(Children) /\ lexical \in Seq(Children)
    BY SeqOfBound, AnswerAssumption DEF AnswerInv, TypeOK
  <2>4. pool' \in SeqOf(Children, InputK)
    <3>1. Fuse(dense, lexical) \in Seq(Children)
      <4>. DEFINE B == Branches(dense, lexical)
                  R == FuseOrder(dense, lexical)
      <4>1. StrictOrder(R, B) /\ IsFiniteSet(B) /\ B \subseteq Children
        BY <2>3, FuseOrdered
      <4>2. Fuse(dense, lexical) \in InOrder(R, B, Cardinality(B))
        BY <2>3, FuseSorted
      <4>. HIDE DEF B, R
      <4>3. Fuse(dense, lexical) \in Seq(B)
        BY <4>1, <4>2, SortIsComplete
      <4>q. QED
        BY <4>1, <4>3, SeqMonotonic
    <3>q. QED
      BY <2>1, <3>1, TruncateOf, AnswerAssumption
  <2>5. TypeOK'
    BY <2>1, <2>2, <2>4 DEF AnswerInv, TypeOK
  <2>6. EvidenceInv'
    BY <1>1, <2>1, <2>2 DEF AnswerInv, EvidenceInv
  <2>7. StackInv'
    BY <2>1, <2>2 DEF AnswerInv, StackInv
  <2>8. QuestionInv' /\ RecoveryInv' /\ ResultInv'
    <3>1. "rerank" \in Attempting
      BY DEF Attempting
    <3>q. QED
      BY <1>1, <2>1, <3>1, AdvanceKeeps
  <2>q. QED
    BY <2>5, <2>6, <2>7, <2>8 DEF AnswerInv
<1>q. QED
  BY <1>2, <1>3

LEMMA RerankKeeps == ASSUME AnswerInv, Rerank \/ RerankFault PROVE AnswerInv'
<1>1. pc = "rerank" /\ pc \in Attempting
  BY DEF Rerank, RerankFault, Attempting
<1>2. CASE Raise("grounded_error")
  BY <1>1, <1>2, RaiseKeeps
<1>3. CASE ~Raise("grounded_error")
  <2>1. PICK score \in [ToSet(pool) -> {0, 1}] :
          anchors' = Truncate(SortScored(pool, score), AnchorK)
    BY <1>3 DEF Rerank, RerankFault
  <2>2. /\ Advance("structure") /\ dense' = <<>> /\ lexical' = <<>>
        /\ UNCHANGED <<stack, pool, ctx, calls>>
    BY <1>3 DEF Rerank, RerankFault
  <2>3. UNCHANGED <<q, pointer, rec, result, first>> /\ pc' = "structure"
    BY <2>2 DEF Advance
  <2>4. anchors' \in SeqOf(Children, AnchorK)
    <3>1. pool \in Seq(Children)
      BY SeqOfBound, AnswerAssumption DEF AnswerInv, TypeOK
    <3>2. SortScored(pool, score) \in Seq(Children)
      BY <3>1, ScoredOf
    <3>q. QED
      BY <2>1, <3>2, TruncateOf, AnswerAssumption
  <2>5. TypeOK'
    <3>1. <<>> \in SeqOf(Children, DenseK) /\ <<>> \in SeqOf(Children, LexicalK)
      BY AnswerAssumption, SeqOfBound
    <3>q. QED
      BY <2>2, <2>3, <2>4, <3>1 DEF AnswerInv, TypeOK
  <2>6. EvidenceInv'
    BY <1>1, <2>2, <2>3 DEF AnswerInv, EvidenceInv
  <2>7. StackInv'
    BY <1>1, <2>2, <2>3 DEF AnswerInv, StackInv
  <2>8. QuestionInv' /\ RecoveryInv' /\ ResultInv'
    <3>1. "structure" \in Attempting
      BY DEF Attempting
    <3>q. QED
      BY <1>1, <2>2, <3>1, AdvanceKeeps
  <2>q. QED
    BY <2>5, <2>6, <2>7, <2>8 DEF AnswerInv
<1>q. QED
  BY <1>2, <1>3

LEMMA LoadStructureKeeps == ASSUME AnswerInv, LoadStructure PROVE AnswerInv'
<1>. DEFINE g == IF Bound THEN q.bound.chunks ELSE pointer.chunks
<1>1. /\ pc = "structure" /\ pc \in Attempting
      /\ stack' = [stack EXCEPT !.chunks = g]
      /\ ctx' = EmptyContext \/ ctx' = Stopped(EmptyContext, "no_anchors")
      /\ pool' = <<>> /\ Advance("expand") /\ UNCHANGED <<dense, lexical, anchors, calls>>
  BY DEF LoadStructure, Attempting
<1>2. UNCHANGED <<q, pointer, rec, result, first>> /\ pc' = "expand"
  BY <1>1 DEF Advance
<1>3. g \in Int
  <2>1. g \in Generations
    BY DEF AnswerInv, TypeOK, QuestionInv, Pointers
  <2>. HIDE DEF g
  <2>q. QED
    BY <2>1, GenerationsAre
<1>. HIDE DEF g
<1>4. TypeOK'
  <2>1. <<>> \in SeqOf(Children, InputK)
    BY AnswerAssumption, SeqOfBound
  <2>q. QED
    BY <1>1, <1>2, <2>1 DEF AnswerInv, TypeOK
<1>5. EvidenceInv'
  <2>1. ctx' \in GoodContexts(q'.strategy, q'.budget)
    BY <1>1, <1>2, EmptyIsGood DEF AnswerInv, QuestionInv
  <2>q. QED
    BY <1>2, <2>1 DEF EvidenceInv
<1>6. StackInv'
  <2>1. stack \in Stacks /\ stack.dense = stack.lexical
    BY <1>1 DEF AnswerInv, StackInv
  <2>2. stack' \in Stacks /\ stack'.dense = stack'.lexical
    BY <1>1, <1>3, <2>1 DEF Stacks
  <2>q. QED
    BY <1>2, <2>2 DEF StackInv
<1>7. QuestionInv' /\ RecoveryInv' /\ ResultInv'
  <2>1. "expand" \in Attempting
    BY DEF Attempting
  <2>q. QED
    BY <1>1, <2>1, AdvanceKeeps
<1>q. QED
  BY <1>4, <1>5, <1>6, <1>7 DEF AnswerInv

LEMMA ExpandAnchorKeeps == ASSUME AnswerInv, ExpandAnchor PROVE AnswerInv'
<1>1. pc = "expand" /\ pc \in Attempting /\ anchors # <<>> /\ ctx.stop = "completed"
  BY DEF ExpandAnchor, Attempting
<1>2. CASE Raise("grounded_error")
  BY <1>1, <1>2, RaiseKeeps
<1>3. CASE ~Raise("grounded_error")
  <2>1. /\ ctx' = Expand(ctx, Head(anchors), q.strategy, q.budget)
        /\ anchors' = Tail(anchors)
        /\ Advance("expand") /\ UNCHANGED <<stack, dense, lexical, pool, calls>>
    BY <1>3 DEF ExpandAnchor
  <2>2. UNCHANGED <<q, pointer, rec, result, first>> /\ pc' = "expand"
    BY <2>1 DEF Advance
  <2>3. Head(anchors) \in Children /\ anchors' \in SeqOf(Children, AnchorK)
    BY <1>1, <2>1, SeqOfBound, AnswerAssumption DEF AnswerInv, TypeOK
  <2>4. TypeOK'
    BY <2>1, <2>2, <2>3 DEF AnswerInv, TypeOK
  <2>5. EvidenceInv'
    <3>. DEFINE anchor == Head(anchors)
                strategy == q.strategy
                budget == q.budget
    <3>1. /\ strategy \in Strategies /\ budget \in Nat /\ anchor \in Children
          /\ ctx \in GoodContexts(strategy, budget)
      BY <1>1, <2>3 DEF AnswerInv, QuestionInv, EvidenceInv
    <3>2. ctx' = Expand(ctx, anchor, strategy, budget)
      BY <2>1
    <3>. HIDE DEF anchor, strategy, budget
    <3>3. ctx' \in GoodContexts(strategy, budget)
      BY <1>1, <3>1, <3>2, ExpandKeeps
    <3>4. ctx' \in GoodContexts(q'.strategy, q'.budget)
      BY <2>2, <3>3 DEF strategy, budget
    <3>q. QED
      BY <2>2, <3>4 DEF EvidenceInv
  <2>6. StackInv'
    BY <1>1, <2>1, <2>2 DEF AnswerInv, StackInv
  <2>7. QuestionInv' /\ RecoveryInv' /\ ResultInv'
    BY <1>1, <2>1, AdvanceKeeps
  <2>q. QED
    BY <2>4, <2>5, <2>6, <2>7 DEF AnswerInv
<1>q. QED
  BY <1>2, <1>3

LEMMA FinishContextKeeps == ASSUME AnswerInv, FinishContext PROVE AnswerInv'
<1>1. pc = "expand" /\ pc \in Attempting /\ result = Pending /\ calls.generations = 0
  BY DEF FinishContext, Attempting, AnswerInv, ResultInv
<1>2. CASE Raise("grounded_error")
  BY <1>1, <1>2, RaiseKeeps
<1>3. CASE ~Raise("grounded_error")
  <2>1. /\ UnitDocs(ctx.units) \subseteq q.scope
        /\ UNCHANGED <<q, pointer, stack, dense, lexical, pool, anchors, ctx, calls, result>>
        /\ pc' \in {"compare", "recover", "generate"}
    BY <1>3 DEF FinishContext, InScope, Advance
  <2>2. TypeOK'
    BY <2>1 DEF AnswerInv, TypeOK
  <2>3. QuestionInv'
    BY <1>1, <2>1 DEF AnswerInv, QuestionInv
  <2>4. EvidenceInv'
    BY <2>1 DEF AnswerInv, EvidenceInv
  <2>5. ResultInv'
    BY <1>1, <2>1 DEF AnswerInv, ResultInv
  <2>6. stack \in Stacks /\ stack.dense = stack.lexical
    BY <1>1 DEF AnswerInv, StackInv
  <2>7. CASE RecoveryOff
    <3>1. ~Recovering
      BY <1>1, <2>7, AttemptOf
    <3>2. CASE pc' = "recover" /\ rec' = AwaitingInitial
      <4>1. RecoveryDecides'
        BY <1>1, <2>1, <2>7, <3>2 DEF RecoveryDecides, RecoveryOff, Attempting
      <4>2. StackInv'
        BY <2>1, <2>6, <3>2 DEF StackInv
      <4>q. QED
        BY <2>2, <2>3, <2>4, <2>5, <4>1, <4>2 DEF AnswerInv, RecoveryInv
    <3>3. CASE pc' = "generate" /\ rec' = rec
      <4>1. RecoveryOff'
        BY <1>1, <2>1, <2>7, <3>3 DEF RecoveryOff, Attempting
      <4>2. StackInv'
        BY <2>1, <2>6, <3>1, <3>3 DEF StackInv, Recovering
      <4>q. QED
        BY <2>2, <2>3, <2>4, <2>5, <4>1, <4>2 DEF AnswerInv, RecoveryInv
    <3>q. QED
      BY <1>3, <3>1, <3>2, <3>3 DEF FinishContext, Advance
  <2>8. CASE RecoveryPends
    <3>1. Recovering
      BY <1>1, <2>8, AttemptOf
    <3>2. pc' = "compare" /\ rec' = rec
      BY <1>3, <3>1 DEF FinishContext, Advance
    <3>3. RecoveryPends'
      BY <1>1, <2>1, <2>8, <3>2 DEF RecoveryPends, Attempting
    <3>4. StackInv'
      BY <2>1, <2>6, <3>2 DEF StackInv
    <3>q. QED
      BY <2>2, <2>3, <2>4, <2>5, <3>3, <3>4 DEF AnswerInv, RecoveryInv
  <2>q. QED
    BY <1>1, <2>7, <2>8, AttemptOf
<1>q. QED
  BY <1>2, <1>3

\* What a step of the coordinator or of the generator leaves alone.
LEMMA EvidenceStays ==
    ASSUME AnswerInv, UNCHANGED <<q, pointer, stack, dense, lexical, pool, anchors, ctx, first>>,
           calls' \in [retrievals : 0..2, rewrites : 0..1, generations : 0..1],
           \/ pc = "recover" /\ pc' \in {"recover", "ready", "done"}
           \/ pc = "compare" /\ pc' = "done"
           \/ pc = "compare" /\ pc' = "generate" /\ SameStack(first.stack, stack)
           \/ pc = "generate" /\ pc' = "done"
    PROVE  TypeOK' /\ QuestionInv' /\ EvidenceInv' /\ StackInv'
<1>1. TypeOK'
  BY DEF AnswerInv, TypeOK
<1>2. QuestionInv'
  BY DEF AnswerInv, QuestionInv
<1>3. EvidenceInv'
  BY DEF AnswerInv, EvidenceInv
<1>4. StackInv'
  BY DEF AnswerInv, StackInv, SameStack
<1>q. QED
  BY <1>1, <1>2, <1>3, <1>4

\* A recovery that has not rewritten the question yet.
LEMMA DecidesOf ==
    ASSUME AnswerInv, pc = "recover"
    PROVE  /\ RecoveryDecides /\ result = Pending /\ calls.generations = 0
           /\ calls \in [retrievals : 0..2, rewrites : 0..1, generations : 0..1]
           /\ rec.phase = "awaiting_initial" => rec = AwaitingInitial
           /\ rec.phase = "eligible" => rec = EligibleRec
<1>1. RecoveryDecides
  BY DEF AnswerInv, RecoveryInv, RecoveryOff, RecoveryPends, RecoveryEnds, Attempting
<1>2. AwaitingInitial.phase = "awaiting_initial" /\ EligibleRec.phase = "eligible"
  BY DEF AwaitingInitial, NoRecovery, EligibleRec
<1>3. result = Pending /\ calls.generations = 0
  BY DEF AnswerInv, ResultInv
<1>4. calls \in [retrievals : 0..2, rewrites : 0..1, generations : 0..1]
  BY DEF AnswerInv, TypeOK
<1>q. QED
  BY <1>1, <1>2, <1>3, <1>4 DEF RecoveryDecides

LEMMA RecordInsufficiencyKeeps == ASSUME AnswerInv, RecordInsufficiency PROVE AnswerInv'
<1>1. /\ pc = "recover" /\ Apply("record_initial", RecordInitial(rec, FALSE))
      /\ UNCHANGED <<q, pointer, stack, dense, lexical, pool, anchors, ctx, first, calls>>
      /\ rec = AwaitingInitial
  BY DecidesOf DEF RecordInsufficiency
<1>2. rec' = EligibleRec /\ result' = result /\ pc' = pc
  BY <1>1, FirstAttempt DEF Apply
<1>3. RecoveryDecides'
  BY <1>1, <1>2, DecidesOf DEF RecoveryDecides
<1>4. TypeOK' /\ QuestionInv' /\ EvidenceInv' /\ StackInv'
  BY <1>1, <1>2, DecidesOf, EvidenceStays
<1>5. ResultInv'
  BY <1>1, <1>2 DEF AnswerInv, ResultInv
<1>q. QED
  BY <1>3, <1>4, <1>5 DEF AnswerInv, RecoveryInv

LEMMA PreparationFaultKeeps ==
    ASSUME AnswerInv, NEW called \in BOOLEAN, PreparationFault(called)
    PROVE  AnswerInv'
<1>. DEFINE r == FailRecovery(EligibleRec, "rewrite_preparation_failed")
            more == IF called THEN 1 ELSE 0
<1>1. /\ pc = "recover" /\ rec = EligibleRec
      /\ calls' = [calls EXCEPT !.rewrites = calls.rewrites + more]
      /\ ApplyAndEnd("fail_preparation", r, "grounded_error")
      /\ UNCHANGED <<q, pointer, stack, dense, lexical, pool, anchors, ctx, first>>
  BY DecidesOf DEF PreparationFault
<1>2. more \in {0, 1}
  OBVIOUS
<1>. HIDE DEF r, more
<1>3. /\ ValidRecovery(EligibleRec) /\ Legal(EligibleRec, "fail_preparation") /\ ValidRecovery(r)
      /\ r.phase = "terminal" /\ r.reason = "rewrite_preparation_failed"
  BY FirstAttempt, PreparationFails DEF r
<1>4. rec' = r /\ result' = Ended("grounded_error") /\ pc' = "done"
  BY <1>1, <1>3 DEF ApplyAndEnd
<1>5. /\ calls' \in [retrievals : 0..2, rewrites : 0..1, generations : 0..1]
      /\ calls'.retrievals = 1
  <2>1. /\ calls \in [retrievals : 0..2, rewrites : 0..1, generations : 0..1]
        /\ calls.retrievals = 1 /\ calls.rewrites = 0
    BY <1>1, DecidesOf DEF RecoveryDecides
  <2>q. QED
    BY <1>1, <1>2, <2>1
<1>6. TypeOK' /\ QuestionInv' /\ EvidenceInv' /\ StackInv'
  BY <1>1, <1>4, <1>5, EvidenceStays
<1>7. RecoveryEnds'
  <2>1. result'.status = "grounded_error" /\ ValidRecovery(rec')
    BY <1>3, <1>4, EndedIs
  <2>q. QED
    BY <1>3, <1>4, <1>5, <2>1 DEF RecoveryEnds
<1>8. ResultInv'
  BY <1>4, EndedIs DEF ResultInv
<1>q. QED
  BY <1>6, <1>7, <1>8 DEF AnswerInv, RecoveryInv

LEMMA RewriteKeeps ==
    ASSUME AnswerInv, NEW query \in Queries, Rewrite(query)
    PROVE  AnswerInv'
<1>. DEFINE next == PrepareQuery(rec, query)
<1>1. /\ pc = "recover" /\ rec = EligibleRec
      /\ calls' = [calls EXCEPT !.rewrites = calls.rewrites + 1]
      /\ IF ValidRecovery(rec) /\ Legal(rec, "prepare") /\ ValidRecovery(next)
         THEN rec' = next /\ pc' = "ready" /\ result' = result
         ELSE rec' = rec /\ pc' = "done" /\ result' = Ended("protocol_error")
      /\ UNCHANGED <<q, pointer, stack, dense, lexical, pool, anchors, ctx, first>>
  BY DecidesOf DEF Rewrite
<1>2. /\ ValidRecovery(rec) /\ Legal(rec, "prepare") /\ ValidRecovery(next)
      /\ next = PendingRec(query)
  BY <1>1, FirstAttempt, Preparation
<1>. HIDE DEF next
<1>3. rec' = PendingRec(query) /\ pc' = "ready" /\ result' = result
  BY <1>1, <1>2
<1>4. /\ calls' \in [retrievals : 0..2, rewrites : 0..1, generations : 0..1]
      /\ calls'.retrievals = 1 /\ calls'.rewrites = 1 /\ calls'.generations = 0
  <2>1. /\ calls \in [retrievals : 0..2, rewrites : 0..1, generations : 0..1]
        /\ calls.retrievals = 1 /\ calls.rewrites = 0 /\ calls.generations = 0
    BY <1>1, DecidesOf DEF RecoveryDecides
  <2>q. QED
    BY <1>1, <2>1
<1>5. TypeOK' /\ QuestionInv' /\ EvidenceInv' /\ StackInv'
  BY <1>1, <1>3, <1>4, EvidenceStays
<1>6. RecoveryPends'
  BY <1>3, <1>4 DEF RecoveryPends
<1>7. ResultInv'
  <2>1. result' = Pending /\ Pending.status = "pending"
    BY <1>1, <1>3, DecidesOf DEF Pending
  <2>q. QED
    BY <1>3, <1>4, <2>1 DEF ResultInv, CitedAnswer
<1>q. QED
  BY <1>5, <1>6, <1>7 DEF AnswerInv, RecoveryInv

LEMMA CompareLineageKeeps == ASSUME AnswerInv, CompareLineage PROVE AnswerInv'
<1>1. pc = "compare"
  BY DEF CompareLineage
<1>2. CASE Raise("grounded_error")
  BY <1>1, <1>2, RaiseKeeps
<1>3. CASE ~Raise("grounded_error")
  <2>1. PICK query \in Queries : rec = PendingRec(query)
    BY <1>1, AttemptOf DEF RecoveryPends, RecoveryOff
  <2>. DEFINE ok == ctx.units # <<>>
              r == RecordRecovery(PendingRec(query), ok)
  <2>2. ok \in BOOLEAN
    OBVIOUS
  <2>3. /\ SameStack(first.stack, stack)
        /\ IF ValidRecovery(rec) /\ Legal(rec, "record_recovery") /\ ValidRecovery(r)
           THEN rec' = r /\ pc' = "generate" /\ result' = result
           ELSE rec' = rec /\ pc' = "done" /\ result' = Ended("protocol_error")
        /\ UNCHANGED <<q, pointer, stack, dense, lexical, pool, anchors, ctx, first, calls>>
    BY <1>3, <2>1 DEF CompareLineage
  <2>. HIDE DEF ok
  <2>4. /\ ValidRecovery(rec) /\ Legal(rec, "record_recovery") /\ ValidRecovery(r)
        /\ r.phase = "terminal" /\ r.reason = "none"
        /\ ok => r.outcome = "recovered_evidence_sufficient"
    BY <2>1, <2>2, Preparation, SecondAttempt
  <2>. HIDE DEF r
  <2>5. rec' = r /\ pc' = "generate" /\ result' = result
    BY <2>3, <2>4
  <2>6. calls \in [retrievals : 0..2, rewrites : 0..1, generations : 0..1]
    BY DEF AnswerInv, TypeOK
  <2>7. TypeOK' /\ QuestionInv' /\ EvidenceInv' /\ StackInv'
    BY <1>1, <2>3, <2>5, <2>6, EvidenceStays
  <2>8. result' = Pending /\ Pending.status = "pending" /\ calls'.generations = 0
    BY <1>1, <2>3, <2>5 DEF AnswerInv, ResultInv, Pending
  <2>9. RecoveryEnds'
    <3>1. ValidRecovery(rec') /\ rec'.phase = "terminal" /\ rec'.reason = "none"
      BY <2>4, <2>5
    <3>2. ctx'.units # <<>> => rec'.outcome = "recovered_evidence_sufficient"
      BY <2>3, <2>4, <2>5 DEF ok
    <3>q. QED
      BY <2>5, <2>8, <3>1, <3>2 DEF RecoveryEnds
  <2>10. ResultInv'
    BY <2>5, <2>8 DEF ResultInv, CitedAnswer
  <2>q. QED
    BY <2>7, <2>9, <2>10 DEF AnswerInv, RecoveryInv
<1>q. QED
  BY <1>2, <1>3

\* The executor ends the question, with or without a call of the generator.
LEMMA FinishKeeps ==
    ASSUME AnswerInv, pc = "generate", NEW r, Finish(r),
           \/ UNCHANGED calls
           \/ calls' = [calls EXCEPT !.generations = calls.generations + 1],
           r.status # "protocol_error", CitedAnswer(ctx.units, r),
           r.status = "answered" => ctx.units # <<>>
    PROVE  AnswerInv'
<1>1. /\ pc' = "done" /\ result' = r
      /\ UNCHANGED <<q, pointer, stack, dense, lexical, pool, anchors, ctx, first, rec>>
  BY DEF Finish
<1>2. calls \in [retrievals : 0..2, rewrites : 0..1, generations : 0..1] /\ calls.generations = 0
  BY DEF AnswerInv, TypeOK, ResultInv
<1>3. /\ calls' \in [retrievals : 0..2, rewrites : 0..1, generations : 0..1]
      /\ calls'.retrievals = calls.retrievals /\ calls'.rewrites = calls.rewrites
  BY <1>2
<1>4. TypeOK' /\ QuestionInv' /\ EvidenceInv' /\ StackInv'
  BY <1>1, <1>3, EvidenceStays
<1>5. RecoveryInv'
  <2>1. RecoveryOff \/ RecoveryEnds
    BY DEF AnswerInv, RecoveryInv, RecoveryDecides, RecoveryPends, Attempting
  <2>2. RecoveryOff => RecoveryOff'
    BY <1>1, <1>3 DEF RecoveryOff, Attempting
  <2>3. RecoveryEnds => RecoveryEnds'
    BY <1>1, <1>3 DEF RecoveryEnds
  <2>q. QED
    BY <2>1, <2>2, <2>3 DEF RecoveryInv
<1>6. ResultInv'
  BY <1>1 DEF ResultInv
<1>q. QED
  BY <1>4, <1>5, <1>6 DEF AnswerInv

LEMMA ExecutorKeeps ==
    ASSUME AnswerInv, AbstainEmpty \/ ProvenanceFault \/ GeneratorFault \/ ModelAbstains
    PROVE  AnswerInv'
<1>1. PICK status \in {"insufficient_evidence", "generation_failed", "model_abstain"} :
        /\ pc = "generate" /\ Finish(Ended(status))
        /\ \/ UNCHANGED calls
           \/ calls' = [calls EXCEPT !.generations = calls.generations + 1]
  BY DEF AbstainEmpty, ProvenanceFault, GeneratorFault, ModelAbstains, Invoke
<1>2. /\ Ended(status).status = status /\ status # "protocol_error" /\ status # "answered"
      /\ CitedAnswer(ctx.units, Ended(status))
  BY EndedIs
<1>. DEFINE r == Ended(status)
<1>3. /\ Finish(r) /\ r.status # "protocol_error" /\ r.status # "answered"
      /\ CitedAnswer(ctx.units, r)
  BY <1>1, <1>2
<1>. HIDE DEF r
<1>q. QED
  BY <1>1, <1>3, FinishKeeps

LEMMA GenerateKeeps == ASSUME AnswerInv, Generate PROVE AnswerInv'
<1>1. PICK blocks \in Outputs(ctx.units) :
        /\ Invoke
        /\ Finish(IF Parse(blocks, ctx.units) = "none" THEN Project(blocks, ctx.units)
                  ELSE Ended(Parse(blocks, ctx.units)))
  BY DEF Generate
<1>. DEFINE units == ctx.units
            defect == Parse(blocks, units)
            r == IF defect = "none" THEN Project(blocks, units) ELSE Ended(defect)
<1>2. /\ pc = "generate" /\ units # <<>> /\ Finish(r)
      /\ calls' = [calls EXCEPT !.generations = calls.generations + 1]
  BY <1>1 DEF Invoke
<1>3. units \in Seq(UnitRecs)
  BY DEF AnswerInv, EvidenceInv, GoodContexts, Contexts
<1>4. r.status # "protocol_error" /\ CitedAnswer(units, r)
  <2>1. CASE defect = "none"
    <3>1. CitedAnswer(units, Project(blocks, units))
      BY <1>1, <1>3, <2>1, ProjectIsCited
    <3>2. Project(blocks, units).status \in {"answered", "citation_invalid"}
      BY EndedIs DEF Project
    <3>q. QED
      BY <2>1, <3>1, <3>2
  <2>2. CASE defect # "none"
    <3>1. defect \in {"generation_failed", "citation_invalid"}
      BY <2>2 DEF Parse, Defect
    <3>2. r = Ended(defect)
      BY <2>2
    <3>. HIDE DEF r, defect
    <3>q. QED
      BY <3>1, <3>2, EndedIs
  <2>q. QED
    BY <2>1, <2>2
<1>. HIDE DEF r
<1>q. QED
  BY <1>2, <1>4, FinishKeeps

(***************************************************************************)
(* The theorems.                                                           *)
(***************************************************************************)
LEMMA AnswerInitially == ASSUME Init PROVE AnswerInv
<1>1. TypeOK
  <2>1. /\ <<>> \in SeqOf(Children, DenseK) /\ <<>> \in SeqOf(Children, LexicalK)
        /\ <<>> \in SeqOf(Children, InputK) /\ <<>> \in SeqOf(Children, AnchorK)
    BY AnswerAssumption, SeqOfBound
  <2>2. 0 \in Generations
    BY AnswerAssumption
  <2>q. QED
    BY <2>1, <2>2 DEF Init, TypeOK, Origin, NoCalls
<1>2. QuestionInv
  BY AnswerAssumption DEF Init, QuestionInv, NoQuestion, Pointers, Origin
<1>3. EvidenceInv
  <2>1. ctx = EmptyContext /\ q.budget \in Nat
    BY DEF Init, NoQuestion
  <2>2. ctx \in GoodContexts(q.strategy, q.budget)
    BY <2>1, EmptyIsGood
  <2>q. QED
    BY <2>2 DEF Init, EvidenceInv
<1>4. StackInv
  BY DEF Init, StackInv, Stacks, NoStack
<1>5. RecoveryInv
  BY DEF Init, RecoveryInv, RecoveryOff, NoCalls, Attempting
<1>6. ResultInv
  BY DEF Init, ResultInv, Pending, CitedAnswer, NoCalls
<1>q. QED
  BY <1>1, <1>2, <1>3, <1>4, <1>5, <1>6 DEF AnswerInv

LEMMA AnswerKeeps == ASSUME AnswerInv, [Next]_vars PROVE AnswerInv'
<1>1. CASE Reindex
  BY <1>1, ReindexKeeps
<1>2. CASE \E mode \in {"product", "cli"}, s \in Strategies, b \in Budgets,
              scope \in Scopes \cup {NoScope}, r \in BOOLEAN : Ask(mode, s, b, scope, r)
  BY <1>2, AskKeeps
<1>3. CASE Step
  <2>1. CASE CheckReady \/ DenseRetrieve \/ DenseFault \/ LexicalRetrieve \/ LexicalFault
    BY <2>1, CheckReadyKeeps, DenseKeeps, LexicalKeeps
  <2>2. CASE FuseBranches \/ Rerank \/ RerankFault \/ LoadStructure \/ ExpandAnchor
    BY <2>2, FuseKeeps, RerankKeeps, LoadStructureKeeps, ExpandAnchorKeeps
  <2>3. CASE FinishContext \/ RecordInsufficiency \/ CompareLineage
    BY <2>3, FinishContextKeeps, RecordInsufficiencyKeeps, CompareLineageKeeps
  <2>4. CASE \E called \in BOOLEAN : PreparationFault(called)
    BY <2>4, PreparationFaultKeeps
  <2>5. CASE \E query \in Queries : Rewrite(query)
    BY <2>5, RewriteKeeps
  <2>6. CASE AbstainEmpty \/ ProvenanceFault \/ GeneratorFault \/ ModelAbstains
    BY <2>6, ExecutorKeeps
  <2>7. CASE Generate
    BY <2>7, GenerateKeeps
  <2>q. QED
    BY <1>3, <2>1, <2>2, <2>3, <2>4, <2>5, <2>6, <2>7 DEF Step
<1>4. CASE UNCHANGED vars
  <2>1. TypeOK' /\ QuestionInv' /\ EvidenceInv' /\ ResultInv'
    BY <1>4 DEF vars, AnswerInv, TypeOK, QuestionInv, EvidenceInv, ResultInv
  <2>2. StackInv'
    BY <1>4 DEF vars, AnswerInv, StackInv, Recovering
  <2>3. RecoveryInv'
    BY <1>4 DEF vars, AnswerInv, RecoveryInv, RecoveryOff, RecoveryDecides, RecoveryPends,
                RecoveryEnds
  <2>q. QED
    BY <2>1, <2>2, <2>3 DEF AnswerInv
<1>q. QED
  BY <1>1, <1>2, <1>3, <1>4 DEF Next, Done

\* The inductive invariant: what each stage of a question was given is what
\* the stages before it have settled, in run_grounded_query_core, the hybrid
\* retriever, the expander and the recovery coordinator.
THEOREM AnswerInvariant == Spec => []AnswerInv
<1>1. Init => AnswerInv
  BY AnswerInitially
<1>2. AnswerInv /\ [Next]_vars => AnswerInv'
  BY AnswerKeeps
<1>q. QED
  BY <1>1, <1>2, PTL DEF Spec

\* A question's evidence: the reranker's input respects both branches, the
\* expander's own test holds the budget, no chunk comes twice and no child
\* after its whole parent, an excerpt contains its anchor and fills what is
\* left, and what the generator sees is of the scope and of one stack of
\* indexes, however the corpus is re-indexed meanwhile.
THEOREM EvidenceHolds == Spec => []EvidenceIsSound
<1>1. ASSUME AnswerInv PROVE EvidenceIsSound
  <2>. USE <1>1
  <2>. DEFINE strategy == q.strategy
              budget == q.budget
  <2>1. ctx \in GoodContexts(strategy, budget)
    BY DEF AnswerInv, EvidenceInv
  <2>2. BudgetHolds
    BY <2>1 DEF BudgetHolds, GoodContexts
  <2>3. EvidenceIsDistinct
    BY <2>1 DEF EvidenceIsDistinct, GoodContexts
  <2>4. ClipKeepsAnchor
    BY <2>1 DEF ClipKeepsAnchor, GoodContexts
  <2>5. EvidenceInScope
    BY DEF EvidenceInScope, AnswerInv, EvidenceInv
  <2>6. OneStack
    BY DEF OneStack, AnswerInv, StackInv, SameStack
  <2>7. FusionRespectsBranches
    <3>. SUFFICES ASSUME pc = "rerank",
                         NEW a \in ToSet(dense) \cup ToSet(lexical),
                         NEW b \in ToSet(dense) \cup ToSet(lexical),
                         a # b, Beats(dense, a, b) \/ Beats(lexical, a, b),
                         ~Beats(dense, b, a), ~Beats(lexical, b, a), b \in ToSet(pool)
                  PROVE  a \in ToSet(pool) /\ RankIn(pool, a) < RankIn(pool, b)
      BY DEF FusionRespectsBranches
    <3>1. dense \in Seq(Children) /\ lexical \in Seq(Children)
      BY SeqOfBound, AnswerAssumption DEF AnswerInv, TypeOK
    <3>2. pool = Truncate(Fuse(dense, lexical), InputK) /\ InputK \in Nat
      BY AnswerAssumption DEF AnswerInv, EvidenceInv
    <3>3. a \in Branches(dense, lexical) /\ b \in Branches(dense, lexical)
      BY DEF Branches
    <3>q. QED
      BY <3>1, <3>2, <3>3, FusionRespects
  <2>8. TypeOK
    BY DEF AnswerInv
  <2>q. QED
    BY <2>2, <2>3, <2>4, <2>5, <2>6, <2>7, <2>8 DEF EvidenceIsSound
<1>2. Spec => []AnswerInv
  BY AnswerInvariant
<1>q. QED
  BY <1>1, <1>2, PTL

\* An answer's citations lead to units of its context, numbered by their
\* first reference; a recovery ends in one valid terminal state, after one
\* rewrite and one more retrieval at most, and no event is ever refused.
THEOREM AnswerHolds == Spec => []AnswerIsSound
<1>1. ASSUME AnswerInv PROVE AnswerIsSound
  <2>. USE <1>1
  <2>1. AnswerIsCited
    BY DEF AnswerIsCited, CitedAnswer, AnswerInv, ResultInv
  <2>2. RecoveryIsAudited
    <3>1. result.status # "protocol_error"
      BY DEF AnswerInv, ResultInv
    <3>2. ASSUME pc = "done", Recovering PROVE RecoveryEnds
      BY <3>2 DEF AnswerInv, RecoveryInv, RecoveryOff, RecoveryDecides, RecoveryPends,
                  Attempting, Recovering, NoRecovery
    <3>q. QED
      BY <3>1, <3>2 DEF RecoveryIsAudited, RecoveryEnds
  <2>q. QED
    BY <2>1, <2>2 DEF AnswerIsSound
<1>2. Spec => []AnswerInv
  BY AnswerInvariant
<1>q. QED
  BY <1>1, <1>2, PTL
=============================================================================
