---------------------------- MODULE WorkshopProofs ----------------------------
(***************************************************************************)
(* Proofs about the offline workshop (MCWorkshop), for any drafts,         *)
(* writers, callers, texts, ladder and performance schedule: authoring of  *)
(* Gold, provisioning of the embedding model, the embedder and the         *)
(* performance runs keep their invariants, and undo nothing others rely on.*)
(***************************************************************************)
EXTENDS MCWorkshop, FiniteSetTheorems, SequenceTheorems, WellFoundedInduction, TLAPS

(***************************************************************************)
(* Gold authoring.                                                         *)
(***************************************************************************)

Texts == {"P", "E"}
Case == [pool : SUBSET Passages, labels : SUBSET Passages,
         status : {"pending"} \cup Terminal, query : Texts, tags : Texts,
         grades : UNION {[S -> 0..1] : S \in SUBSET Passages}, basis : Texts \cup {"none"}]
RunFiles == UNION {[S -> Case] : S \in SUBSET Drafts}
RunDirs == {Absent} \cup [there : {TRUE}, cases : RunFiles]
JobRecords == [op : {"rest", "propose"}]
              \cup [op : {"pool", "prelabel"}, copy : RunFiles, targets : SUBSET Drafts]
Sessions == [op : {"rest"}] \cup [op : {"write"}, cases : RunFiles]
Datasets(rows) == {Absent} \cup [there : {TRUE}, cases : SUBSET rows]
FinalizerRecords(rows) == [op : {"rest", "ended"}]
                          \cup [op : {"staged", "aside", "promoted"}, new : SUBSET rows]

AuthorTypes ==
    /\ run \in RunDirs /\ job \in [Jobs -> JobRecords] /\ session \in Sessions
    /\ gold \in Datasets(approvals) /\ backups \in [Finalizers -> Datasets(approvals)]
    /\ finalizer \in [Finalizers -> FinalizerRecords(approvals)]

\* Every case that is approved, in the file or in a copy a job works on, was
\* approved as it stands there: whatever copy is written back, what finalize
\* reads of it is in the history.
Reviewed ==
    /\ run.there => ValidCases(run.cases) /\ GoldCases(run.cases) \subseteq approvals
    /\ session.op = "write" => ValidCases(session.cases)
    /\ \A p \in Jobs : job[p].op \in {"pool", "prelabel"} =>
          /\ GoldCases(job[p].copy) \subseteq approvals
          /\ job[p].op = "pool" => job[p].targets = PoolTargets(job[p].copy)
    /\ \A row \in approvals : row[4] # {}

\* Who has promoted did so over a gap of its own, so that the dataset of
\* before is in its backup only until then; the backup of another one that
\* is between its renames, or has stopped there, is never removed.
Swapping ==
    /\ \A f \in Finalizers : finalizer[f].op = "aside" => backups[f].there
    /\ (\E f \in Finalizers : finalizer[f].op = "promoted") =>
          \/ gold.there
          \/ \E g \in Finalizers : backups[g].there /\ finalizer[g].op \in {"aside", "ended"}
    /\ GapIsBrief

AuthorInv == AuthorTypes /\ Reviewed /\ Swapping

(* --- Cases ------------------------------------------------------------------ *)

LEMMA GradesFields ==
    /\ NoGrades \in UNION {[S -> 0..1] : S \in SUBSET Passages}
    /\ DOMAIN NoGrades = {}
<1>1. NoGrades \in [{} -> 0..1]
  BY DEF NoGrades
<1>q. QED
  BY <1>1

LEMMA CaseFields ==
    ASSUME NEW c \in Case
    PROVE  /\ c.pool \in SUBSET Passages /\ c.labels \in SUBSET Passages
           /\ c.status \in {"pending"} \cup Terminal /\ c.query \in Texts /\ c.tags \in Texts
           /\ c.grades \in UNION {[S -> 0..1] : S \in SUBSET Passages}
           /\ c.grades \in [DOMAIN c.grades -> 0..1] /\ DOMAIN c.grades \in SUBSET Passages
           /\ c.basis \in Texts \cup {"none"}
<1>1. c.grades \in UNION {[S -> 0..1] : S \in SUBSET Passages}
  BY DEF Case
<1>2. PICK S \in SUBSET Passages : c.grades \in [S -> 0..1]
  BY <1>1
<1>q. QED
  BY <1>1, <1>2 DEF Case

\* The row of a case is made of its query, its tags and its grades.
LEMMA SameRow ==
    ASSUME NEW d, NEW old, NEW new, new.query = old.query, new.tags = old.tags, new.grades = old.grades
    PROVE  GoldCase(d, new) = GoldCase(d, old)
  BY DEF GoldCase

LEMMA RowIsPositive ==
    ASSUME NEW d, NEW c, quality_eligible_for_gold(c)
    PROVE  GoldCase(d, c)[4] # {}
<1>1. PICK x \in DOMAIN c.grades : c.grades[x] >= 1
  BY DEF quality_eligible_for_gold
<1>2. <<x, c.grades[x]>> \in {<<y, c.grades[y]>> : y \in {z \in DOMAIN c.grades : c.grades[z] >= 1}}
  BY <1>1
<1>q. QED
  BY <1>2 DEF GoldCase

LEMMA GradeIsCase ==
    ASSUME NEW c \in Case, NEW x \in c.pool, NEW g \in 0..1
    PROVE  set_human_grade(c, x, g) \in Case /\ clear_human_grade(c, x) \in Case
<1>. DEFINE more == [y \in DOMAIN c.grades \cup {x} |-> IF y = x THEN g ELSE c.grades[y]]
<1>. DEFINE left == DOMAIN c.grades \ {x}
<1>. DEFINE less == [y \in left |-> c.grades[y]]
<1>1. more \in [DOMAIN c.grades \cup {x} -> 0..1] /\ less \in [left -> 0..1]
  BY CaseFields
<1>2. DOMAIN c.grades \cup {x} \in SUBSET Passages /\ left \in SUBSET Passages
  BY CaseFields
<1>3. /\ more \in UNION {[S -> 0..1] : S \in SUBSET Passages}
      /\ less \in UNION {[S -> 0..1] : S \in SUBSET Passages}
  BY <1>1, <1>2
<1>4. set_human_grade(c, x, g) = [c EXCEPT !.grades = more, !.basis = c.query]
  BY DEF set_human_grade
<1>5. clear_human_grade(c, x) = [c EXCEPT !.grades = less, !.basis = IF left = {} THEN "none" ELSE @]
  BY DEF clear_human_grade
<1>. HIDE DEF more, less, left
<1>q. QED
  BY <1>3, <1>4, <1>5, CaseFields DEF Case

LEMMA TextIsCase ==
    ASSUME NEW c \in Case, NEW t \in Texts
    PROVE  set_reviewed_query(c, t) \in Case /\ set_reviewed_tags(c, t) \in Case
<1>1. set_reviewed_query(c, t) \in Case
  BY CaseFields, GradesFields DEF set_reviewed_query, Case
<1>2. [c EXCEPT !.tags = t] \in Case
  BY CaseFields DEF Case
<1>3. \A b \in Case : demote_if_classification_invalid(b) \in Case
  BY CaseFields DEF demote_if_classification_invalid, Case
<1>q. QED
  BY <1>1, <1>2, <1>3 DEF set_reviewed_tags

LEMMA DecisionIsCase ==
    ASSUME NEW c \in Case, NEW new \in Decisions(c)
    PROVE  new \in Case
<1>1. \A s \in {"pending"} \cup Terminal : [c EXCEPT !.status = s] \in Case
  BY CaseFields DEF Case
<1>2. CASE new \in {set_human_grade(c, x, g) : x \in {y \in c.pool : c.status = "pending" /\ (c.grades # NoGrades => c.basis = c.query)}, g \in 0..1}
  BY <1>2, GradeIsCase
<1>3. CASE new \in {clear_human_grade(c, x) : x \in {y \in c.pool : c.status = "pending"}}
  BY <1>3, GradeIsCase
<1>4. CASE \/ new \in {set_reviewed_query(c, q) : q \in {"P", "E"}}
           \/ new \in {set_reviewed_tags(c, t) : t \in {"P", "E"}}
  BY <1>4, TextIsCase DEF Texts
<1>5. CASE new \in {[c EXCEPT !.status = s] :
             s \in {u \in {"accepted", "edited"} : Approvable(c) /\ (u = "edited") = proposal_content_changed(c)}
                   \cup {u \in {"rejected"} : c.status = "pending"} \cup {u \in {"pending"} : c.status \in Terminal}}
  BY <1>1, <1>5 DEF Terminal
<1>q. QED
  BY <1>2, <1>3, <1>4, <1>5 DEF Decisions

(* --- Run files --------------------------------------------------------------- *)

LEMMA RunFileFields ==
    ASSUME NEW cases \in RunFiles
    PROVE  cases \in [DOMAIN cases -> Case] /\ DOMAIN cases \in SUBSET Drafts
<1>1. PICK S \in SUBSET Drafts : cases \in [S -> Case]
  BY DEF RunFiles
<1>q. QED
  BY <1>1

LEMMA IsRunFile ==
    ASSUME NEW S \in SUBSET Drafts, NEW cases \in [S -> Case]
    PROVE  cases \in RunFiles
  BY DEF RunFiles

\* Rows made of cases that keep their status, text and grades are the same.
LEMMA SameRows ==
    ASSUME NEW old, NEW new, DOMAIN new = DOMAIN old,
           \A d \in DOMAIN old : /\ new[d].status = old[d].status /\ new[d].query = old[d].query
                                 /\ new[d].tags = old[d].tags /\ new[d].grades = old[d].grades
    PROVE  GoldCases(new) = GoldCases(old)
<1>1. \A d \in DOMAIN old : GoldCase(d, new[d]) = GoldCase(d, old[d])
  BY SameRow
<1>2. {e \in DOMAIN new : new[e].status \in {"accepted", "edited"}}
      = {e \in DOMAIN old : old[e].status \in {"accepted", "edited"}}
  OBVIOUS
<1>q. QED
  BY <1>1, <1>2 DEF GoldCases

LEMMA PooledFields ==
    ASSUME NEW cases \in RunFiles, NEW done \in SUBSET Drafts, NEW pools \in [done -> SUBSET Passages]
    PROVE  /\ Pooled(cases, pools) \in RunFiles /\ DOMAIN Pooled(cases, pools) = DOMAIN cases
           /\ \A d \in DOMAIN cases :
                 LET old == cases[d]  new == Pooled(cases, pools)[d] IN
                 /\ new.status = old.status /\ new.query = old.query /\ new.tags = old.tags
                 /\ new.grades = old.grades /\ new.basis = old.basis
                 /\ d \notin done => new.pool = old.pool
<1>1. \A d \in DOMAIN cases : cases[d] \in Case
  BY RunFileFields
<1>2. DOMAIN Pooled(cases, pools) = DOMAIN cases
  BY DEF Pooled
<1>3. ASSUME NEW d \in DOMAIN cases
      PROVE  LET old == cases[d]  new == Pooled(cases, pools)[d] IN
             /\ new \in Case /\ new.status = old.status /\ new.query = old.query /\ new.tags = old.tags
             /\ new.grades = old.grades /\ new.basis = old.basis
             /\ d \notin done => new.pool = old.pool
  <2>1. CASE d \in done
    <3>1. Pooled(cases, pools)[d] = [cases[d] EXCEPT !.pool = pools[d]]
      BY <2>1 DEF Pooled
    <3>2. pools[d] \in SUBSET Passages
      BY <2>1
    <3>q. QED
      BY <1>1, <2>1, <3>1, <3>2 DEF Case
  <2>2. CASE d \notin done
    BY <1>1, <2>2 DEF Pooled
  <2>q. QED
    BY <2>1, <2>2
<1>4. Pooled(cases, pools) \in [DOMAIN cases -> Case]
  <2>1. Pooled(cases, pools) = [d \in DOMAIN cases |-> Pooled(cases, pools)[d]]
    BY DEF Pooled
  <2>q. QED
    BY <1>3, <2>1
<1>q. QED
  BY <1>2, <1>3, <1>4, RunFileFields, IsRunFile

LEMMA PrelabelledFields ==
    ASSUME NEW cases \in RunFiles, NEW done
    PROVE  /\ Prelabelled(cases, done) \in RunFiles /\ DOMAIN Prelabelled(cases, done) = DOMAIN cases
           /\ \A d \in DOMAIN cases :
                 LET old == cases[d]  new == Prelabelled(cases, done)[d] IN
                 /\ new.status = old.status /\ new.query = old.query /\ new.tags = old.tags
                 /\ new.grades = old.grades /\ new.basis = old.basis /\ new.pool = old.pool
<1>1. \A d \in DOMAIN cases : cases[d] \in Case
  BY RunFileFields
<1>2. DOMAIN Prelabelled(cases, done) = DOMAIN cases
  BY DEF Prelabelled
<1>3. ASSUME NEW d \in DOMAIN cases
      PROVE  LET old == cases[d]  new == Prelabelled(cases, done)[d] IN
             /\ new \in Case /\ new.status = old.status /\ new.query = old.query /\ new.tags = old.tags
             /\ new.grades = old.grades /\ new.basis = old.basis /\ new.pool = old.pool
  <2>1. CASE d \in done
    <3>1. Prelabelled(cases, done)[d] = [cases[d] EXCEPT !.labels = cases[d].pool]
      BY <2>1 DEF Prelabelled
    <3>q. QED
      BY <1>1, <3>1, CaseFields DEF Case
  <2>2. CASE d \notin done
    BY <1>1, <2>2 DEF Prelabelled
  <2>q. QED
    BY <2>1, <2>2
<1>4. Prelabelled(cases, done) \in [DOMAIN cases -> Case]
  <2>1. Prelabelled(cases, done) = [d \in DOMAIN cases |-> Prelabelled(cases, done)[d]]
    BY DEF Prelabelled
  <2>q. QED
    BY <1>3, <2>1
<1>q. QED
  BY <1>2, <1>3, <1>4, RunFileFields, IsRunFile
(* --- Steps ------------------------------------------------------------------- *)

LEMMA JobFields ==
    ASSUME NEW j \in JobRecords
    PROVE  /\ j.op \in {"rest", "propose", "pool", "prelabel"}
           /\ j.op \in {"pool", "prelabel"} => j.copy \in RunFiles /\ j.targets \in SUBSET Drafts
  BY DEF JobRecords

LEMMA DatasetFields ==
    ASSUME NEW rows, NEW g \in Datasets(rows)
    PROVE  g.there \in BOOLEAN /\ (g.there => g.cases \in SUBSET rows) /\ (~g.there => g = Absent)
<1>1. Absent.there = FALSE
  BY DEF Absent
<1>2. CASE g = Absent
  BY <1>1, <1>2
<1>3. CASE g \in [there : {TRUE}, cases : SUBSET rows]
  <2>1. g.there = TRUE /\ g.cases \in SUBSET rows
    BY <1>3
  <2>q. QED
    BY <2>1
<1>q. QED
  BY <1>2, <1>3 DEF Datasets

LEMMA FinalizerFields ==
    ASSUME NEW rows, NEW z \in FinalizerRecords(rows)
    PROVE  /\ z.op \in {"rest", "ended", "staged", "aside", "promoted"}
           /\ z.op \in {"staged", "aside", "promoted"} => z.new \in SUBSET rows
  BY DEF FinalizerRecords

LEMMA DirIsRun == /\ \A cases \in RunFiles : Dir(cases) \in RunDirs /\ Dir(cases).there /\ Dir(cases).cases = cases
                  /\ \A d \in RunDirs : (d.there => d.cases \in RunFiles) /\ d.there \in BOOLEAN
<1>1. ASSUME NEW cases \in RunFiles
      PROVE  Dir(cases) \in RunDirs /\ Dir(cases).there /\ Dir(cases).cases = cases
  <2>1. [there |-> TRUE, cases |-> cases] \in [there : {TRUE}, cases : RunFiles]
    OBVIOUS
  <2>q. QED
    BY <2>1 DEF Dir, RunDirs
<1>2. ASSUME NEW d \in RunDirs
      PROVE  (d.there => d.cases \in RunFiles) /\ d.there \in BOOLEAN
  <2>1. Absent.there = FALSE
    BY DEF Absent
  <2>2. CASE d = Absent
    BY <2>1, <2>2
  <2>3. CASE d \in [there : {TRUE}, cases : RunFiles]
    <3>1. d.there = TRUE /\ d.cases \in RunFiles
      BY <2>3
    <3>q. QED
      BY <3>1
  <2>q. QED
    BY <2>2, <2>3 DEF RunDirs
<1>q. QED
  BY <1>1, <1>2

LEMMA RestIsTyped ==
    /\ Resting \in JobRecords /\ [op |-> "propose"] \in JobRecords /\ Resting \in Sessions
    /\ Resting.op = "rest" /\ Ended.op = "ended" /\ Absent.there = FALSE
    /\ \A rows : Resting \in FinalizerRecords(rows) /\ Ended \in FinalizerRecords(rows) /\ Absent \in Datasets(rows)
  BY DEF JobRecords, Sessions, FinalizerRecords, Resting, Ended, Datasets, Absent

LEMMA AuthorStarts == AuthorInit => AuthorInv
<1>. SUFFICES ASSUME AuthorInit PROVE AuthorInv
  OBVIOUS
<1>. USE DEF AuthorInit
<1>1. AuthorTypes
  BY RestIsTyped DEF AuthorTypes, RunDirs
<1>2. Reviewed
  BY RestIsTyped DEF Reviewed
<1>3. Swapping
  BY RestIsTyped DEF Swapping, GapIsBrief
<1>q. QED
  BY <1>1, <1>2, <1>3 DEF AuthorInv

\* What is left of the invariant for a step that leaves the finalizers and
\* their directories alone, and the rows approved.
LEMMA SwapKept ==
    ASSUME AuthorInv, UNCHANGED <<gold, backups, finalizer, lost>>, approvals \subseteq approvals'
    PROVE  /\ Swapping' /\ gold' \in Datasets(approvals') /\ backups' \in [Finalizers -> Datasets(approvals')]
           /\ finalizer' \in [Finalizers -> FinalizerRecords(approvals')]
<1>1. \A g \in Datasets(approvals) : g \in Datasets(approvals')
  BY DEF Datasets
<1>2. \A z \in FinalizerRecords(approvals) : z \in FinalizerRecords(approvals')
  BY DEF FinalizerRecords
<1>3. Swapping'
  BY DEF AuthorInv, Swapping, GapIsBrief
<1>q. QED
  BY <1>1, <1>2, <1>3 DEF AuthorInv, AuthorTypes

\* A step of a job: a record for the job, and perhaps a new file.
LEMMA JobStep ==
    ASSUME AuthorInv, NEW p \in Jobs, NEW rec \in JobRecords, job' = [job EXCEPT ![p] = rec],
           rec.op \in {"pool", "prelabel"} =>
             GoldCases(rec.copy) \subseteq approvals /\ (rec.op = "pool" => rec.targets = PoolTargets(rec.copy)),
           run' \in RunDirs, run'.there => ValidCases(run'.cases) /\ GoldCases(run'.cases) \subseteq approvals,
           UNCHANGED <<session, gold, backups, finalizer, lost, approvals>>
    PROVE  AuthorInv'
<1>1. AuthorTypes'
  BY SwapKept DEF AuthorInv, AuthorTypes
<1>2. Reviewed'
  BY DEF AuthorInv, AuthorTypes, Reviewed
<1>q. QED
  BY <1>1, <1>2, SwapKept DEF AuthorInv

LEMMA ProposeSteps ==
    ASSUME AuthorInv, NEW p \in Jobs,
           (\E force \in BOOLEAN : StartPropose(p, force)) \/ (\E made \in SUBSET Drafts : FinishPropose(p, made))
    PROVE  AuthorInv'
<1>1. run \in RunDirs /\ (run.there => ValidCases(run.cases) /\ GoldCases(run.cases) \subseteq approvals)
  BY DEF AuthorInv, AuthorTypes, Reviewed
<1>2. ASSUME NEW force \in BOOLEAN, StartPropose(p, force)
      PROVE  AuthorInv'
  <2>1. [op |-> "propose"].op = "propose"
    OBVIOUS
  <2>q. QED
    BY <1>1, <1>2, <2>1, RestIsTyped, JobStep DEF StartPropose
<1>3. ASSUME NEW made \in SUBSET Drafts, FinishPropose(p, made)
      PROVE  AuthorInv'
  <2>. DEFINE cases == [d \in made |-> SilverCase]
  <2>1. SilverCase \in Case /\ SilverCase.status = "pending" /\ ValidPrelabel(SilverCase) /\ ValidReview(SilverCase)
    BY GradesFields DEF SilverCase, Case, Terminal, Texts, ValidPrelabel, ValidReview
  <2>2. cases \in RunFiles /\ ValidCases(cases) /\ GoldCases(cases) = {}
    <3>1. cases \in [made -> Case]
      BY <2>1
    <3>2. DOMAIN cases = made /\ \A d \in made : cases[d] = SilverCase
      OBVIOUS
    <3>. HIDE DEF cases
    <3>3. ValidCases(cases)
      BY <2>1, <3>2 DEF ValidCases
    <3>4. {e \in DOMAIN cases : cases[e].status \in {"accepted", "edited"}} = {}
      BY <2>1, <3>2
    <3>5. GoldCases(cases) = {}
      BY <3>4 DEF GoldCases
    <3>q. QED
      BY <3>1, <3>3, <3>5, IsRunFile
  <2>3. run' = Dir(cases)
    BY <1>3 DEF FinishPropose
  <2>. HIDE DEF cases
  <2>4. run' \in RunDirs /\ ValidCases(run'.cases) /\ GoldCases(run'.cases) = {}
    BY <2>2, <2>3, DirIsRun
  <2>q. QED
    BY <1>3, <2>4, RestIsTyped, JobStep DEF FinishPropose
<1>q. QED
  BY <1>2, <1>3

LEMMA JobStarts ==
    ASSUME AuthorInv, NEW p \in Jobs, NEW force \in BOOLEAN, StartPool(p, force) \/ StartPrelabel(p, force)
    PROVE  AuthorInv'
<1>1. /\ run \in RunDirs /\ run.there /\ run.cases \in RunFiles
      /\ ValidCases(run.cases) /\ GoldCases(run.cases) \subseteq approvals
  BY DirIsRun DEF AuthorInv, AuthorTypes, Reviewed, StartPool, StartPrelabel
<1>2. DOMAIN run.cases \in SUBSET Drafts
  BY <1>1, RunFileFields
<1>3. PoolTargets(run.cases) \in SUBSET Drafts /\ PrelabelTargets(run.cases) \in SUBSET Drafts
  BY <1>2 DEF PoolTargets, PrelabelTargets
<1>4. CASE StartPool(p, force)
  <2>. DEFINE rec == [op |-> "pool", copy |-> run.cases, targets |-> PoolTargets(run.cases)]
  <2>1. rec \in JobRecords /\ rec.op = "pool" /\ rec.copy = run.cases /\ rec.targets = PoolTargets(run.cases)
    BY <1>1, <1>3 DEF JobRecords
  <2>2. /\ job' = [job EXCEPT ![p] = rec] /\ UNCHANGED <<run, session, gold, backups, finalizer, lost, approvals>>
    BY <1>4 DEF StartPool
  <2>. HIDE DEF rec
  <2>q. QED
    BY <1>1, <2>1, <2>2, JobStep
<1>5. CASE StartPrelabel(p, force)
  <2>. DEFINE rec == [op |-> "prelabel", copy |-> run.cases, targets |-> PrelabelTargets(run.cases)]
  <2>1. rec \in JobRecords /\ rec.op = "prelabel" /\ rec.copy = run.cases
    BY <1>1, <1>3 DEF JobRecords
  <2>2. /\ job' = [job EXCEPT ![p] = rec] /\ UNCHANGED <<run, session, gold, backups, finalizer, lost, approvals>>
    BY <1>5 DEF StartPrelabel
  <2>. HIDE DEF rec
  <2>3. rec.op # "pool"
    BY <2>1
  <2>q. QED
    BY <1>1, <2>1, <2>2, <2>3, JobStep
<1>q. QED
  BY <1>4, <1>5

\* What a job writes: the copy it took, whose reviews it leaves alone.
WrittenFrom(copy, targets, pooling, cases) ==
    /\ cases \in RunFiles /\ DOMAIN cases = DOMAIN copy
    /\ \A d \in DOMAIN copy :
          LET old == copy[d]  new == cases[d] IN
          /\ new.status = old.status /\ new.query = old.query /\ new.tags = old.tags
          /\ new.grades = old.grades /\ new.basis = old.basis
          /\ d \notin targets \/ ~pooling => new.pool = old.pool

LEMMA JobWrites ==
    ASSUME AuthorInv, NEW p \in Jobs, FinishPool(p) \/ FinishPrelabel(p)
    PROVE  /\ job[p] \in JobRecords /\ job[p].op \in {"pool", "prelabel"} /\ job[p].copy \in RunFiles
           /\ \E cases : /\ WrittenFrom(job[p].copy, job[p].targets, job[p].op = "pool", cases)
                         /\ run' = Persisted(cases)
<1>1. job[p] \in JobRecords
  BY DEF AuthorInv, AuthorTypes
<1>2. /\ job[p].op \in {"pool", "prelabel"} /\ job[p].copy \in RunFiles /\ job[p].targets \in SUBSET Drafts
  BY <1>1, JobFields DEF FinishPool, FinishPrelabel
<1>3. CASE FinishPool(p)
  <2>1. PICK done \in SUBSET job[p].targets : \E pools \in [done -> SUBSET Passages \ {{}}] :
          run' = Persisted(Pooled(job[p].copy, pools))
    BY <1>3 DEF FinishPool
  <2>2. PICK pools \in [done -> SUBSET Passages \ {{}}] : run' = Persisted(Pooled(job[p].copy, pools))
    BY <2>1
  <2>3. pools \in [done -> SUBSET Passages] /\ done \in SUBSET Drafts
    BY <1>2, <2>2
  <2>4. job[p].op = "pool"
    BY <1>3 DEF FinishPool
  <2>5. WrittenFrom(job[p].copy, job[p].targets, job[p].op = "pool", Pooled(job[p].copy, pools))
    <3>1. \A d \in DOMAIN job[p].copy : d \notin job[p].targets => d \notin done
      BY <2>1
    <3>q. QED
      BY <1>2, <2>3, <2>4, <3>1, PooledFields DEF WrittenFrom
  <2>q. QED
    BY <1>1, <1>2, <2>2, <2>5
<1>4. CASE FinishPrelabel(p)
  <2>1. PICK done \in SUBSET job[p].targets : run' = Persisted(Prelabelled(job[p].copy, done))
    BY <1>4 DEF FinishPrelabel
  <2>2. WrittenFrom(job[p].copy, job[p].targets, job[p].op = "pool", Prelabelled(job[p].copy, done))
    BY <1>2, PrelabelledFields DEF WrittenFrom
  <2>q. QED
    BY <1>1, <1>2, <2>1, <2>2
<1>q. QED
  BY <1>3, <1>4

LEMMA JobEnds ==
    ASSUME AuthorInv, NEW p \in Jobs, FinishPool(p) \/ FinishPrelabel(p) \/ JobDies(p)
    PROVE  AuthorInv'
<1>1. run \in RunDirs /\ (run.there => ValidCases(run.cases) /\ GoldCases(run.cases) \subseteq approvals)
  BY DEF AuthorInv, AuthorTypes, Reviewed
<1>2. /\ job' = [job EXCEPT ![p] = Resting]
      /\ UNCHANGED <<session, gold, backups, finalizer, lost, approvals>>
  BY DEF FinishPool, FinishPrelabel, JobDies
<1>3. CASE JobDies(p)
  BY <1>1, <1>2, <1>3, JobStep, RestIsTyped DEF JobDies
<1>4. CASE FinishPool(p) \/ FinishPrelabel(p)
  <2>1. PICK cases : /\ WrittenFrom(job[p].copy, job[p].targets, job[p].op = "pool", cases)
                     /\ run' = Persisted(cases)
    BY <1>4, JobWrites
  <2>2. GoldCases(cases) = GoldCases(job[p].copy)
    BY <2>1, SameRows DEF WrittenFrom
  <2>3. GoldCases(cases) \subseteq approvals
    BY <1>4, <2>2, JobWrites DEF AuthorInv, Reviewed
  <2>4. CASE ValidCases(cases)
    <3>1. run' = Dir(cases) /\ cases \in RunFiles
      BY <2>1, <2>4 DEF Persisted, WrittenFrom
    <3>2. run' \in RunDirs /\ ValidCases(run'.cases) /\ GoldCases(run'.cases) \subseteq approvals
      BY <2>3, <2>4, <3>1, DirIsRun
    <3>q. QED
      BY <1>2, <3>2, JobStep, RestIsTyped
  <2>5. CASE ~ValidCases(cases)
    <3>1. run' = run
      BY <2>1, <2>5 DEF Persisted
    <3>q. QED
      BY <1>1, <1>2, <3>1, JobStep, RestIsTyped
  <2>q. QED
    BY <2>4, <2>5
<1>q. QED
  BY <1>3, <1>4

LEMMA DecideSteps ==
    ASSUME AuthorInv, NEW d \in Drafts, Decide(d)
    PROVE  AuthorInv'
<1>1. run.cases \in RunFiles /\ d \in DOMAIN run.cases
  BY DirIsRun DEF AuthorInv, AuthorTypes, Decide
<1>2. PICK c \in Decisions(run.cases[d]) :
        /\ ValidCases([run.cases EXCEPT ![d] = c])
        /\ session' = [op |-> "write", cases |-> [run.cases EXCEPT ![d] = c]]
  BY DEF Decide
<1>3. c \in Case
  BY <1>1, RunFileFields, DecisionIsCase
<1>4. [run.cases EXCEPT ![d] = c] \in RunFiles
  <2>1. [run.cases EXCEPT ![d] = c] \in [DOMAIN run.cases -> Case]
    BY <1>1, <1>3, RunFileFields
  <2>q. QED
    BY <1>1, <2>1, RunFileFields, IsRunFile
<1>5. PICK updated : updated = [run.cases EXCEPT ![d] = c]
  OBVIOUS
<1>6. session' = [op |-> "write", cases |-> updated] /\ updated \in RunFiles /\ ValidCases(updated)
  BY <1>2, <1>4, <1>5
<1>7. session' \in Sessions /\ session'.cases = updated
  BY <1>6 DEF Sessions
<1>8. UNCHANGED <<run, job, gold, backups, finalizer, lost, approvals>>
  BY DEF Decide
<1>9. AuthorTypes'
  BY <1>7, <1>8, SwapKept DEF AuthorInv, AuthorTypes
<1>10. Reviewed'
  BY <1>6, <1>7, <1>8 DEF AuthorInv, Reviewed
<1>q. QED
  BY <1>8, <1>9, <1>10, SwapKept DEF AuthorInv

LEMMA SaveSteps ==
    ASSUME AuthorInv, SaveDecision
    PROVE  AuthorInv'
<1>1. session \in Sessions /\ session.op = "write" /\ ValidCases(session.cases)
  BY DEF AuthorInv, AuthorTypes, Reviewed, SaveDecision
<1>2. session.cases \in RunFiles
  BY <1>1 DEF Sessions
<1>3. approvals' = approvals \cup GoldCases(session.cases)
  BY DEF SaveDecision, GoldCases
<1>4. UNCHANGED <<job, gold, backups, finalizer, lost>> /\ session' = Resting /\ run' = Dir(session.cases)
  BY DEF SaveDecision
<1>5. run' \in RunDirs /\ run'.cases = session.cases
  BY <1>2, <1>4, DirIsRun
<1>6. \A row \in GoldCases(session.cases) : row[4] # {}
  <2>1. \A e \in DOMAIN session.cases :
          session.cases[e].status \in {"accepted", "edited"} => quality_eligible_for_gold(session.cases[e])
    BY <1>1 DEF ValidCases, ValidReview
  <2>q. QED
    BY <2>1, RowIsPositive DEF GoldCases
<1>7. AuthorTypes'
  BY <1>3, <1>4, <1>5, SwapKept, RestIsTyped DEF AuthorInv, AuthorTypes
<1>8. Reviewed'
  <2>1. run'.there => ValidCases(run'.cases) /\ GoldCases(run'.cases) \subseteq approvals'
    BY <1>1, <1>3, <1>5
  <2>2. \A row \in approvals' : row[4] # {}
    BY <1>3, <1>6 DEF AuthorInv, Reviewed
  <2>3. session'.op = "write" => ValidCases(session'.cases)
    BY <1>4, RestIsTyped
  <2>4. \A p \in Jobs : job'[p].op \in {"pool", "prelabel"} =>
          /\ GoldCases(job'[p].copy) \subseteq approvals'
          /\ job'[p].op = "pool" => job'[p].targets = PoolTargets(job'[p].copy)
    BY <1>3, <1>4 DEF AuthorInv, Reviewed
  <2>q. QED
    BY <2>1, <2>2, <2>3, <2>4 DEF Reviewed
<1>q. QED
  BY <1>3, <1>4, <1>7, <1>8, SwapKept DEF AuthorInv
\* A step of finalize leaves the file, the jobs and the reviewer alone.
LEMMA FinalizeStep ==
    ASSUME AuthorInv, UNCHANGED <<run, job, session, approvals>>,
           NEW f \in Finalizers, NEW rec \in FinalizerRecords(approvals),
           finalizer' = [finalizer EXCEPT ![f] = rec],
           gold' \in Datasets(approvals), backups' \in [Finalizers -> Datasets(approvals)], Swapping'
    PROVE  AuthorInv'
<1>1. AuthorTypes'
  BY DEF AuthorInv, AuthorTypes
<1>2. Reviewed'
  BY DEF AuthorInv, Reviewed
<1>q. QED
  BY <1>1, <1>2 DEF AuthorInv

LEMMA FinalizerTypes ==
    ASSUME AuthorInv
    PROVE  /\ gold \in Datasets(approvals) /\ gold.there \in BOOLEAN
           /\ backups \in [Finalizers -> Datasets(approvals)]
           /\ \A f \in Finalizers : backups[f].there \in BOOLEAN
           /\ finalizer \in [Finalizers -> FinalizerRecords(approvals)]
           /\ \A f \in Finalizers : finalizer[f] \in FinalizerRecords(approvals)
  BY DatasetFields DEF AuthorInv, AuthorTypes

LEMMA StartFinalizeStep ==
    ASSUME AuthorInv, NEW f \in Finalizers, NEW force \in BOOLEAN, StartFinalize(f, force)
    PROVE  AuthorInv'
<1>. DEFINE rec == [op |-> "staged", new |-> GoldCases(run.cases)]
<1>1. GoldCases(run.cases) \subseteq approvals
  BY DEF AuthorInv, Reviewed, StartFinalize
<1>2. rec \in FinalizerRecords(approvals) /\ rec.op = "staged"
  BY <1>1 DEF FinalizerRecords
<1>3. /\ finalizer' = [finalizer EXCEPT ![f] = rec] /\ UNCHANGED <<run, job, session, approvals>>
      /\ gold' = gold /\ backups' = backups /\ lost' = lost /\ finalizer[f].op = "rest"
  BY DEF StartFinalize
<1>. HIDE DEF rec
<1>4. Swapping'
  BY <1>2, <1>3, FinalizerTypes DEF AuthorInv, Swapping, GapIsBrief
<1>q. QED
  BY <1>2, <1>3, <1>4, FinalizerTypes, FinalizeStep

LEMMA SameDataset ==
    ASSUME NEW rows, NEW z \in FinalizerRecords(rows), z.op \in {"staged", "aside", "promoted"}
    PROVE  /\ \A s \in {"staged", "aside", "promoted"} :
                 [z EXCEPT !.op = s] \in FinalizerRecords(rows) /\ [z EXCEPT !.op = s].op = s
           /\ Dir(z.new) \in Datasets(rows) /\ Dir(z.new).there
<1>1. z \in [op : {"staged", "aside", "promoted"}, new : SUBSET rows]
  BY DEF FinalizerRecords
<1>2. \A s \in {"staged", "aside", "promoted"} :
         [z EXCEPT !.op = s] \in [op : {"staged", "aside", "promoted"}, new : SUBSET rows] /\ [z EXCEPT !.op = s].op = s
  BY <1>1
<1>3. z.new \in SUBSET rows
  BY <1>1
<1>4. [there |-> TRUE, cases |-> z.new] \in [there : {TRUE}, cases : SUBSET rows]
  BY <1>3
<1>q. QED
  BY <1>2, <1>4 DEF FinalizerRecords, Datasets, Dir

LEMMA MoveAsideStep ==
    ASSUME AuthorInv, NEW f \in Finalizers, MoveAside(f)
    PROVE  AuthorInv' /\ \E g \in Finalizers : backups'[g].there
<1>. PICK rec : rec = [finalizer[f] EXCEPT !.op = "aside"]
  OBVIOUS
<1>1. rec \in FinalizerRecords(approvals) /\ rec.op = "aside"
  BY FinalizerTypes, SameDataset DEF MoveAside
<1>2. /\ finalizer' = [finalizer EXCEPT ![f] = rec] /\ UNCHANGED <<run, job, session, approvals>>
      /\ gold' = Absent /\ backups' = [backups EXCEPT ![f] = gold] /\ gold.there /\ lost' = lost
  BY DEF MoveAside
<1>3. backups'[f].there /\ finalizer'[f].op = "aside" /\ backups' \in [Finalizers -> Datasets(approvals)]
  BY <1>1, <1>2, FinalizerTypes
<1>4. gold' \in Datasets(approvals)
  BY <1>2, RestIsTyped
<1>5. Swapping'
  BY <1>1, <1>2, <1>3, FinalizerTypes DEF AuthorInv, Swapping, GapIsBrief
<1>q. QED
  BY <1>1, <1>2, <1>3, <1>4, <1>5, FinalizeStep

LEMMA PromoteStep ==
    ASSUME AuthorInv, NEW f \in Finalizers, Promote(f)
    PROVE  AuthorInv' /\ gold'.there
<1>. PICK rec : rec = [finalizer[f] EXCEPT !.op = "promoted"]
  OBVIOUS
<1>1. rec \in FinalizerRecords(approvals) /\ rec.op = "promoted"
  BY FinalizerTypes, SameDataset DEF Promote
<1>2. gold' \in Datasets(approvals) /\ gold'.there
  BY FinalizerTypes, SameDataset DEF Promote
<1>3. /\ finalizer' = [finalizer EXCEPT ![f] = rec] /\ UNCHANGED <<run, job, session, approvals>>
      /\ backups' = backups /\ lost' = lost
  BY DEF Promote
<1>4. Swapping'
  BY <1>1, <1>2, <1>3, FinalizerTypes DEF AuthorInv, Swapping, GapIsBrief
<1>q. QED
  BY <1>1, <1>2, <1>3, <1>4, FinalizerTypes, FinalizeStep

\* The one who clears its backup has promoted: the dataset is in place, or
\* with another one.
LEMMA RemoveBackupStep ==
    ASSUME AuthorInv, NEW f \in Finalizers, RemoveBackup(f)
    PROVE  AuthorInv' /\ (gold'.there \/ \E g \in Finalizers : backups'[g].there)
<1>1. /\ finalizer' = [finalizer EXCEPT ![f] = Resting] /\ UNCHANGED <<run, job, session, approvals>>
      /\ gold' = gold /\ lost' = lost /\ finalizer[f].op = "promoted"
      /\ backups' = [backups EXCEPT ![f] = Absent]
  BY DEF RemoveBackup, Cleared
<1>2. backups' \in [Finalizers -> Datasets(approvals)]
  BY <1>1, FinalizerTypes, RestIsTyped
<1>3. \/ gold.there
      \/ \E g \in Finalizers : backups[g].there /\ finalizer[g].op \in {"aside", "ended"}
  BY <1>1 DEF AuthorInv, Swapping
<1>4. \A g \in Finalizers : g # f => backups'[g] = backups[g] /\ finalizer'[g] = finalizer[g]
  BY <1>1, FinalizerTypes
<1>5. finalizer'[f].op = "rest" /\ backups'[f].there = FALSE
  BY <1>1, FinalizerTypes, RestIsTyped
<1>6. \/ gold'.there
      \/ \E g \in Finalizers : backups'[g].there /\ finalizer'[g].op \in {"aside", "ended"}
  BY <1>1, <1>3, <1>4
<1>7. Swapping'
  <2>1. \A g \in Finalizers : finalizer'[g].op = "aside" => backups'[g].there
    BY <1>4, <1>5 DEF AuthorInv, Swapping
  <2>2. GapIsBrief'
    <3>1. ASSUME NEW g \in Finalizers, backups'[g].there, ~gold'.there
          PROVE  lost' \/ \E h \in Finalizers : finalizer'[h].op = "aside"
      <4>1. backups[g].there /\ ~gold.there
        BY <1>1, <1>4, <1>5, <3>1
      <4>2. lost \/ \E h \in Finalizers : finalizer[h].op = "aside"
        BY <4>1 DEF AuthorInv, Swapping, GapIsBrief
      <4>q. QED
        BY <1>1, <1>4, <4>2
    <3>q. QED
      BY <3>1 DEF GapIsBrief
  <2>q. QED
    BY <1>6, <2>1, <2>2 DEF Swapping
<1>q. QED
  BY <1>1, <1>2, <1>6, <1>7, FinalizerTypes, RestIsTyped, FinalizeStep

LEMMA PromoteFailsStep ==
    ASSUME AuthorInv, NEW f \in Finalizers, PromoteFails(f)
    PROVE  AuthorInv' /\ gold'.there
<1>1. finalizer[f].op = "aside" /\ backups[f].there /\ UNCHANGED <<run, job, session, approvals, lost>>
  BY DEF PromoteFails, AuthorInv, Swapping
<1>2. CASE gold.there
  <2>1. finalizer' = [finalizer EXCEPT ![f] = Ended] /\ gold' = gold /\ backups' = backups
    BY <1>2 DEF PromoteFails, Restored
  <2>2. Swapping'
    BY <1>1, <1>2, <2>1, RestIsTyped, FinalizerTypes DEF AuthorInv, Swapping, GapIsBrief
  <2>q. QED
    BY <1>1, <1>2, <2>1, <2>2, RestIsTyped, FinalizerTypes, FinalizeStep
<1>3. CASE ~gold.there
  <2>1. /\ finalizer' = [finalizer EXCEPT ![f] = Resting]
        /\ gold' = backups[f] /\ backups' = [backups EXCEPT ![f] = Absent]
    BY <1>3 DEF PromoteFails, Restored, Cleared
  <2>2. gold' \in Datasets(approvals) /\ gold'.there /\ backups' \in [Finalizers -> Datasets(approvals)]
    BY <1>1, <2>1, FinalizerTypes, RestIsTyped
  <2>3. Swapping'
    BY <1>1, <2>1, <2>2, RestIsTyped, FinalizerTypes DEF AuthorInv, Swapping, GapIsBrief
  <2>q. QED
    BY <1>1, <2>1, <2>2, <2>3, RestIsTyped, FinalizeStep
<1>q. QED
  BY <1>2, <1>3

LEMMA FinalizeEnds ==
    ASSUME AuthorInv, NEW f \in Finalizers, StageFails(f) \/ FinalizerDies(f)
    PROVE  AuthorInv' /\ gold' = gold /\ backups' = backups
<1>1. UNCHANGED <<run, job, session, approvals, gold, backups>>
  BY DEF StageFails, FinalizerDies
<1>2. CASE StageFails(f)
  <2>1. finalizer' = [finalizer EXCEPT ![f] = Resting] /\ finalizer[f].op = "staged" /\ lost' = lost
    BY <1>2 DEF StageFails
  <2>2. Swapping'
    BY <1>1, <2>1, RestIsTyped, FinalizerTypes DEF AuthorInv, Swapping, GapIsBrief
  <2>q. QED
    BY <1>1, <2>1, <2>2, RestIsTyped, FinalizerTypes, FinalizeStep
<1>3. CASE FinalizerDies(f)
  <2>1. /\ finalizer' = [finalizer EXCEPT ![f] = Ended] /\ finalizer[f].op \in {"aside", "promoted"}
        /\ lost' = TRUE
    BY <1>3 DEF FinalizerDies
  <2>2. Swapping'
    BY <1>1, <2>1, RestIsTyped, FinalizerTypes DEF AuthorInv, Swapping, GapIsBrief
  <2>q. QED
    BY <1>1, <2>1, <2>2, RestIsTyped, FinalizerTypes, FinalizeStep
<1>q. QED
  BY <1>1, <1>2, <1>3

(* --- Theorems of gold authoring ------------------------------------------------ *)

LEMMA AuthorStep ==
    ASSUME AuthorInv, AuthorNext
    PROVE  AuthorInv'
<1>1. ASSUME NEW p \in Jobs, \/ \E force \in BOOLEAN : StartPropose(p, force) \/ StartPool(p, force) \/ StartPrelabel(p, force)
                             \/ \E made \in SUBSET Drafts : FinishPropose(p, made)
                             \/ FinishPool(p) \/ FinishPrelabel(p) \/ JobDies(p)
      PROVE  AuthorInv'
  BY <1>1, ProposeSteps, JobStarts, JobEnds
<1>2. ASSUME NEW f \in Finalizers, \/ \E force \in BOOLEAN : StartFinalize(f, force)
                                   \/ MoveAside(f) \/ Promote(f) \/ RemoveBackup(f) \/ PromoteFails(f)
                                   \/ StageFails(f) \/ FinalizerDies(f)
      PROVE  AuthorInv'
  BY <1>2, StartFinalizeStep, MoveAsideStep, PromoteStep, RemoveBackupStep, PromoteFailsStep, FinalizeEnds
<1>q. QED
  BY <1>1, <1>2, DecideSteps, SaveSteps DEF AuthorNext

LEMMA AuthorStutters == ASSUME AuthorInv, UNCHANGED authorVars PROVE AuthorInv'
  BY DEF authorVars, AuthorInv, AuthorTypes, Reviewed, Swapping, GapIsBrief

\* What the jobs, the reviewer and the finalizers rely on of each other, for
\* any drafts, passages and processes (gold_authoring).
THEOREM AuthorInvariant == AuthorSpec => []AuthorInv
<1>1. AuthorInv /\ [AuthorNext]_authorVars => AuthorInv'
  BY AuthorStep, AuthorStutters
<1>q. QED
  BY AuthorStarts, <1>1, PTL DEF AuthorSpec

LEMMA AuthorFacts == ASSUME AuthorInv PROVE AuthoringIsSound
<1>1. RunFileLoads
  BY DEF AuthorInv, Reviewed, RunFileLoads
<1>2. GoldIsApproved
  <2>1. gold.there => gold.cases \in SUBSET approvals
    BY FinalizerTypes, DatasetFields
  <2>q. QED
    BY <2>1 DEF AuthorInv, Reviewed, GoldIsApproved
<1>q. QED
  BY <1>1, <1>2 DEF AuthoringIsSound, AuthorInv, Swapping

\* The run file always loads, and the published dataset holds approved cases
\* only, in place or on its way back (finalize, review_ops, persist).
THEOREM AuthoringHolds == AuthorSpec => []AuthoringIsSound
  BY AuthorInvariant, AuthorFacts, PTL

\* A job that nobody wrote beside leaves reviews alone.
LEMMA ReviewsAreLeft == ASSUME AuthorInv, [AuthorNext]_authorVars PROVE JobLeavesReviews
<1>. SUFFICES ASSUME NEW p \in Jobs, job[p].op \in {"pool", "prelabel"}, job'[p].op = "rest",
                     run.there, run.cases = job[p].copy, NEW d \in DOMAIN run.cases
              PROVE  LET old == run.cases[d]  new == run'.cases[d] IN
                     /\ new.status = old.status /\ new.grades = old.grades /\ new.basis = old.basis
                     /\ old.status \in Terminal => new.pool = old.pool
  BY DEF JobLeavesReviews
<1>1. job[p].op # job'[p].op
  OBVIOUS
<1>2. job \in [Jobs -> JobRecords]
  BY DEF AuthorInv, AuthorTypes
<1>3. FinishPool(p) \/ FinishPrelabel(p) \/ JobDies(p)
  <2>1. job' # job
    BY <1>1
  <2>2. \/ \E q \in Jobs : \E force \in BOOLEAN : StartPropose(q, force) \/ StartPool(q, force) \/ StartPrelabel(q, force)
        \/ \E q \in Jobs : \E made \in SUBSET Drafts : FinishPropose(q, made)
        \/ \E q \in Jobs : FinishPool(q) \/ FinishPrelabel(q) \/ JobDies(q)
    BY <2>1 DEF AuthorNext, authorVars, Decide, SaveDecision, StartFinalize, MoveAside, Promote, RemoveBackup,
                PromoteFails, StageFails, FinalizerDies
  <2>3. ASSUME NEW q \in Jobs, NEW force \in BOOLEAN,
               StartPropose(q, force) \/ StartPool(q, force) \/ StartPrelabel(q, force)
        PROVE  FALSE
    <3>1. job[q].op = "rest"
      BY <2>3 DEF StartPropose, StartPool, StartPrelabel, Idle
    <3>2. q # p
      BY <3>1
    <3>3. job'[p] = job[p]
      BY <1>2, <2>3, <3>2 DEF StartPropose, StartPool, StartPrelabel
    <3>q. QED
      BY <3>3
  <2>4. ASSUME NEW q \in Jobs, NEW made \in SUBSET Drafts, FinishPropose(q, made)
        PROVE  FALSE
    <3>1. q # p /\ job' = [job EXCEPT ![q] = Resting]
      BY <2>4 DEF FinishPropose
    <3>q. QED
      BY <1>1, <1>2, <3>1
  <2>5. PICK q \in Jobs : FinishPool(q) \/ FinishPrelabel(q) \/ JobDies(q)
    BY <2>2, <2>3, <2>4
  <2>6. job' = [job EXCEPT ![q] = Resting]
    BY <2>5 DEF FinishPool, FinishPrelabel, JobDies
  <2>7. q = p
    BY <1>1, <1>2, <2>6
  <2>q. QED
    BY <2>5, <2>7
<1>4. CASE JobDies(p)
  BY <1>4 DEF JobDies
<1>5. CASE FinishPool(p) \/ FinishPrelabel(p)
  <2>1. PICK cases : /\ WrittenFrom(job[p].copy, job[p].targets, job[p].op = "pool", cases)
                     /\ run' = Persisted(cases)
    BY <1>5, JobWrites
  <2>2. CASE ~ValidCases(cases)
    BY <2>1, <2>2 DEF Persisted
  <2>3. CASE ValidCases(cases)
    <3>1. run'.cases = cases
      BY <2>1, <2>3, DirIsRun DEF Persisted, WrittenFrom
    <3>2. run.cases[d].status \in Terminal /\ job[p].op = "pool" => d \notin job[p].targets
      BY DEF AuthorInv, Reviewed, PoolTargets, Terminal
    <3>q. QED
      BY <2>1, <3>1, <3>2 DEF WrittenFrom
  <2>q. QED
    BY <2>2, <2>3
<1>q. QED
  BY <1>3, <1>4, <1>5

\* A published dataset is somewhere on disk after every step.
LEMMA DatasetStays == ASSUME AuthorInv, [AuthorNext]_authorVars PROVE DatasetSurvives
<1>1. ASSUME gold' = gold, backups' = backups
      PROVE  DatasetSurvives
  BY <1>1 DEF DatasetSurvives
<1>2. CASE UNCHANGED authorVars
  BY <1>1, <1>2 DEF authorVars
<1>3. ASSUME NEW f \in Finalizers, \/ \E force \in BOOLEAN : StartFinalize(f, force)
                                   \/ MoveAside(f) \/ Promote(f) \/ RemoveBackup(f) \/ PromoteFails(f)
                                   \/ StageFails(f) \/ FinalizerDies(f)
      PROVE  DatasetSurvives
  <2>1. CASE MoveAside(f) \/ Promote(f) \/ RemoveBackup(f) \/ PromoteFails(f)
    BY <2>1, MoveAsideStep, PromoteStep, RemoveBackupStep, PromoteFailsStep DEF DatasetSurvives
  <2>2. CASE (\E force \in BOOLEAN : StartFinalize(f, force)) \/ StageFails(f) \/ FinalizerDies(f)
    BY <1>1, <2>2 DEF StartFinalize, StageFails, FinalizerDies
  <2>q. QED
    BY <1>3, <2>1, <2>2
<1>4. ASSUME NEW p \in Jobs, \/ \E force \in BOOLEAN : StartPropose(p, force) \/ StartPool(p, force) \/ StartPrelabel(p, force)
                             \/ \E made \in SUBSET Drafts : FinishPropose(p, made)
                             \/ FinishPool(p) \/ FinishPrelabel(p) \/ JobDies(p)
      PROVE  DatasetSurvives
  BY <1>1, <1>4 DEF StartPropose, StartPool, StartPrelabel, FinishPropose, FinishPool, FinishPrelabel, JobDies
<1>5. CASE (\E d \in Drafts : Decide(d)) \/ SaveDecision
  BY <1>1, <1>5 DEF Decide, SaveDecision
<1>q. QED
  BY <1>2, <1>3, <1>4, <1>5 DEF AuthorNext
(***************************************************************************)
(* Provisioning of the embedding model.                                    *)
(***************************************************************************)

Readiness == {"absent", "ready", "invalid"}
Pointers == [Representations -> Int]
Manifests == [kind : {"absent", "malformed", "present"}, ptr : Pointers]
InstanceRecords == [id : Nat \ {0}, rep : Representations, intact : BOOLEAN]
TxSteps == {"staging", "replaced", "durable", "restoring", "restored"}
TxRecords == [at : {"rest"}]
             \cup [at : TxSteps, requested : SUBSET Representations, todo : SUBSET Representations,
                   previous : Manifests, ptr : Pointers]

ProvisionTypes ==
    /\ bundle \in Manifests /\ synced \in Manifests /\ legacy \in Readiness /\ faults \in Nat
    /\ instances \in SUBSET InstanceRecords /\ IsFiniteSet(instances)
    /\ tx \in [Writers -> TxRecords]

\* Instances are numbered, so that the next number is nobody's.
Numbered ==
    /\ \A i \in instances : i.id <= Cardinality(instances)
    /\ \A i, j \in instances : i.id = j.id => i = j

Placed(ptr) == \A r \in Representations : ptr[r] > 0 => \E i \in instances : i.id = ptr[r] /\ i.rep = r
Installed(m) == m.kind = "present" => Placed(m.ptr)

\* What a transaction was not asked for keeps the pointer it had; a torch in
\* the model root may be named where there was no manifest.
KeptPointer(previous, ptr, r) ==
    IF previous.kind = "present" THEN ptr[r] = previous.ptr[r]
    ELSE ptr[r] = 0 \/ (r = "torch_st_v1" /\ ptr[r] = -1)

\* A transaction under way knows what the manifest says: the one before it,
\* until it has replaced that one, and after it has put it back.
Transacting(t) ==
    t.at # "rest" =>
       /\ t.previous.kind # "malformed" /\ Installed(t.previous) /\ Placed(t.ptr)
       /\ t.todo \subseteq t.requested
       /\ \A r \in Representations \ t.requested : KeptPointer(t.previous, t.ptr, r)
       /\ t.at \in {"staging", "restored"} => bundle = t.previous
       /\ t.at \in {"replaced", "durable", "restoring"} => bundle = Manifest("present", t.ptr)

ProvisionInv ==
    /\ ProvisionTypes /\ Numbered
    /\ Installed(bundle) /\ Installed(synced)
    /\ \A w \in Writers : Transacting(tx[w])
    /\ \A v, w \in Writers : tx[v].at # "rest" /\ tx[w].at # "rest" => v = w

LEMMA TxFields ==
    ASSUME NEW t \in TxRecords, t.at # "rest"
    PROVE  /\ t \in [at : TxSteps, requested : SUBSET Representations, todo : SUBSET Representations,
                     previous : Manifests, ptr : Pointers]
           /\ t.at \in TxSteps /\ t.requested \in SUBSET Representations /\ t.todo \in SUBSET Representations
           /\ t.previous \in Manifests /\ t.ptr \in Pointers
<1>1. t \in [at : TxSteps, requested : SUBSET Representations, todo : SUBSET Representations,
             previous : Manifests, ptr : Pointers]
  BY DEF TxRecords
<1>q. QED
  BY <1>1

LEMMA NoTxFields == NoTx \in TxRecords /\ NoTx.at = "rest"
  BY DEF NoTx, TxRecords

LEMMA ManifestFields ==
    /\ \A m \in Manifests : m.kind \in {"absent", "malformed", "present"} /\ m.ptr \in Pointers
    /\ \A ptr \in Pointers : /\ Manifest("present", ptr) \in Manifests /\ Manifest("present", ptr).kind = "present"
                             /\ Manifest("present", ptr).ptr = ptr
  BY DEF Manifests, Manifest

\* Instances as they were, or more, or less intact.
Kept == \A i \in instances : \E j \in instances' : j.id = i.id /\ j.rep = i.rep

LEMMA PlacedKept ==
    ASSUME Kept
    PROVE  (\A ptr : Placed(ptr) => Placed(ptr)') /\ (\A m : Installed(m) => Installed(m)')
<1>1. ASSUME NEW ptr, Placed(ptr) PROVE Placed(ptr)'
  BY <1>1 DEF Placed, Kept
<1>q. QED
  BY <1>1 DEF Installed

\* A step of one transaction: what it leaves there.
LEMMA TxStep ==
    ASSUME ProvisionInv, NEW w \in Writers, NEW t \in TxRecords, tx' = [tx EXCEPT ![w] = t],
           \A v \in Writers : tx[v].at # "rest" => v = w, Transacting(t)',
           bundle' \in Manifests, synced' \in Manifests, Installed(bundle)', Installed(synced)',
           legacy' = legacy, faults' \in Nat,
           instances' \in SUBSET InstanceRecords, IsFiniteSet(instances'), Numbered', Kept
    PROVE  ProvisionInv'
<1>1. ProvisionTypes'
  BY DEF ProvisionInv, ProvisionTypes
<1>2. /\ tx' \in [Writers -> TxRecords] /\ tx'[w] = t
      /\ \A v \in Writers \ {w} : tx'[v] = tx[v] /\ tx[v].at = "rest"
  BY DEF ProvisionInv, ProvisionTypes
<1>3. \A v \in Writers : Transacting(tx[v])'
  <2>1. Transacting(tx[w])'
    BY <1>2 DEF Transacting, Installed, Placed
  <2>2. ASSUME NEW v \in Writers \ {w} PROVE Transacting(tx[v])'
    BY <1>2 DEF Transacting
  <2>q. QED
    BY <2>1, <2>2
<1>4. \A u, v \in Writers : tx'[u].at # "rest" /\ tx'[v].at # "rest" => u = v
  BY <1>2
<1>q. QED
  BY <1>1, <1>3, <1>4 DEF ProvisionInv

\* The rest of what a step needs when it touches no instance.
LEMMA SameInstances ==
    ASSUME ProvisionInv, instances' = instances, legacy' = legacy
    PROVE  /\ instances' \in SUBSET InstanceRecords /\ IsFiniteSet(instances') /\ Numbered' /\ Kept
           /\ \A m : Installed(m) => Installed(m)'
           /\ \A ptr : Placed(ptr) => Placed(ptr)'
           /\ \A rep, ptr : InstanceReadiness(rep, ptr)' = InstanceReadiness(rep, ptr)
<1>1. Kept
  BY DEF Kept
<1>q. QED
  BY <1>1, PlacedKept DEF ProvisionInv, ProvisionTypes, Numbered, InstanceReadiness

LEMMA ActiveAlone ==
    ASSUME ProvisionInv, NEW w \in Writers, tx[w].at # "rest"
    PROVE  /\ \A v \in Writers : tx[v].at # "rest" => v = w
           /\ tx[w] \in TxRecords /\ Transacting(tx[w])
           /\ tx[w].requested \in SUBSET Representations /\ tx[w].todo \in SUBSET Representations
           /\ tx[w].previous \in Manifests /\ tx[w].ptr \in Pointers
<1>1. tx[w] \in TxRecords
  BY DEF ProvisionInv, ProvisionTypes
<1>q. QED
  BY <1>1, TxFields DEF ProvisionInv

LEMMA MovedTx ==
    ASSUME NEW t \in TxRecords, t.at # "rest", NEW step \in TxSteps
    PROVE  /\ [t EXCEPT !.at = step] \in TxRecords /\ [t EXCEPT !.at = step].at = step
           /\ [t EXCEPT !.at = step].requested = t.requested /\ [t EXCEPT !.at = step].todo = t.todo
           /\ [t EXCEPT !.at = step].previous = t.previous /\ [t EXCEPT !.at = step].ptr = t.ptr
<1>1. t \in [at : TxSteps, requested : SUBSET Representations, todo : SUBSET Representations,
             previous : Manifests, ptr : Pointers]
  BY TxFields
<1>2. [t EXCEPT !.at = step] \in [at : TxSteps, requested : SUBSET Representations, todo : SUBSET Representations,
             previous : Manifests, ptr : Pointers]
  BY <1>1
<1>q. QED
  BY <1>1, <1>2 DEF TxRecords
(* --- Steps of a transaction --------------------------------------------------- *)

LEMMA ProvisionStarts ==
    ASSUME bundle \in {Manifest("absent", NoPointers), Manifest("malformed", NoPointers)}, synced = bundle,
           legacy \in Readiness, instances = {}, tx = [w \in Writers |-> NoTx], faults \in Nat
    PROVE  ProvisionInv
<1>1. NoPointers \in Pointers
  BY DEF NoPointers, Pointers
<1>2. bundle \in Manifests /\ bundle.kind # "present"
  BY <1>1 DEF Manifests, Manifest
<1>3. ProvisionTypes
  <2>1. IsFiniteSet(instances)
    BY FS_EmptySet
  <2>q. QED
    BY <1>2, <2>1, NoTxFields DEF ProvisionTypes
<1>q. QED
  BY <1>2, <1>3, NoTxFields DEF ProvisionInv, Numbered, Installed, Transacting

LEMMA PlansFields ==
    ASSUME NEW requested \in SUBSET Representations, NEW force \in BOOLEAN
    PROVE  /\ ToInstall(Plans(requested, force)) \subseteq requested
           /\ \A r \in Representations \ requested :
                 r \in DOMAIN Plans(requested, force) /\ Plans(requested, force)[r] = "adopt_legacy"
                   => r = "torch_st_v1" /\ bundle.kind = "absent"
<1>. DEFINE adopts == "onnx_fp32_v1" \in requested /\ bundle.kind = "absent" /\ LegacyTorchReady
<1>. DEFINE dom == requested \cup {x \in {"torch_st_v1"} : adopts}
<1>1. Plans(requested, force)
      = [r \in dom |-> IF r \in requested THEN PlanOf(r, requested, force) ELSE "adopt_legacy"]
  BY DEF Plans
<1>2. \A r \in dom : r \notin requested => r = "torch_st_v1" /\ bundle.kind = "absent"
  OBVIOUS
<1>. HIDE DEF adopts, dom
<1>3. DOMAIN Plans(requested, force) = dom
  BY <1>1
<1>4. \A r \in dom : r \notin requested => Plans(requested, force)[r] = "adopt_legacy"
  BY <1>1
<1>5. \A r \in ToInstall(Plans(requested, force)) : r \in dom /\ Plans(requested, force)[r] # "adopt_legacy"
  BY <1>3 DEF ToInstall
<1>q. QED
  BY <1>2, <1>3, <1>4, <1>5

LEMMA BeginStep ==
    ASSUME ProvisionInv, NEW w \in Writers, NEW requested \in SUBSET Representations, NEW force \in BOOLEAN,
           NEW source \in BOOLEAN, BeginTransaction(w, requested, force, source)
    PROVE  ProvisionInv'
<1>. PICK plans : plans = Plans(requested, force)
  OBVIOUS
<1>. PICK ptr : ptr = StartPointers(plans)
  OBVIOUS
<1>. PICK todo : todo = ToInstall(plans)
  OBVIOUS
<1>. PICK t : t = [at |-> "staging", requested |-> requested, todo |-> todo, previous |-> bundle, ptr |-> ptr]
  OBVIOUS
<1>1. /\ Unlocked /\ bundle.kind # "malformed" /\ tx' = [tx EXCEPT ![w] = t]
      /\ UNCHANGED <<bundle, synced, legacy, instances, faults>>
  BY DEF BeginTransaction
<1>2. bundle \in Manifests /\ bundle.ptr \in Pointers /\ Installed(bundle) /\ faults \in Nat /\ synced \in Manifests
      /\ Installed(synced)
  BY ManifestFields DEF ProvisionInv, ProvisionTypes
<1>3. /\ todo \subseteq requested
      /\ \A r \in Representations \ requested :
            r \in DOMAIN plans /\ plans[r] = "adopt_legacy" => r = "torch_st_v1" /\ bundle.kind = "absent"
  BY PlansFields
<1>4. \A r \in Representations :
        ptr[r] = IF r \in DOMAIN plans /\ plans[r] = "adopt_legacy" THEN -1
                 ELSE IF bundle.kind = "present" THEN bundle.ptr[r] ELSE 0
  BY DEF StartPointers
<1>5. ptr \in Pointers
  BY <1>2 DEF StartPointers, Pointers
<1>6. Placed(ptr)
  BY <1>2, <1>4 DEF Installed, Placed
<1>7. \A r \in Representations \ requested : KeptPointer(bundle, ptr, r)
  BY <1>3, <1>4 DEF KeptPointer
<1>8. /\ t \in [at : TxSteps, requested : SUBSET Representations, todo : SUBSET Representations,
                previous : Manifests, ptr : Pointers]
      /\ t.at = "staging" /\ t.requested = requested /\ t.todo = todo /\ t.previous = bundle /\ t.ptr = ptr
  BY <1>2, <1>3, <1>5 DEF TxSteps
<1>9. t \in TxRecords
  BY <1>8 DEF TxRecords
<1>10. Placed(ptr)' /\ Installed(bundle)' /\ Installed(synced)' /\ Installed(t.previous)' /\ Placed(t.ptr)'
  BY <1>1, <1>2, <1>6, <1>8, SameInstances
<1>11. Transacting(t)'
  BY <1>1, <1>3, <1>7, <1>8, <1>10 DEF Transacting
<1>12. \A v \in Writers : tx[v].at # "rest" => v = w
  BY <1>1 DEF Unlocked
<1>q. QED
  BY <1>1, <1>2, <1>9, <1>10, <1>11, <1>12, SameInstances, TxStep

\* A new instance, with the next number.
LEMMA InstanceAdded ==
    ASSUME ProvisionInv, NEW rep \in Representations, instances' = WithInstance(rep)
    PROVE  /\ instances' \in SUBSET InstanceRecords /\ IsFiniteSet(instances') /\ Numbered' /\ Kept
           /\ NextId \in Nat \ {0} /\ (\A i \in instances : i.id < NextId)
           /\ \E i \in instances' : i.id = NextId /\ i.rep = rep
<1>. DEFINE new == [id |-> NextId, rep |-> rep, intact |-> TRUE]
<1>1. /\ instances \in SUBSET InstanceRecords /\ IsFiniteSet(instances)
      /\ \A i \in instances : i.id <= Cardinality(instances)
      /\ \A i, j \in instances : i.id = j.id => i = j
  BY DEF ProvisionInv, ProvisionTypes, Numbered
<1>2. Cardinality(instances) \in Nat
  BY <1>1, FS_CardinalityType
<1>3. NextId = Cardinality(instances) + 1 /\ NextId \in Nat \ {0}
  BY <1>2 DEF NextId
<1>4. \A i \in instances : i.id \in Nat /\ i.id < NextId
  BY <1>1, <1>2, <1>3 DEF InstanceRecords
<1>5. new \in InstanceRecords /\ new.id = NextId /\ new.rep = rep
  BY <1>3 DEF InstanceRecords
<1>6. instances' = instances \cup {new}
  BY DEF WithInstance
<1>. HIDE DEF new
<1>7. new \notin instances
  BY <1>4, <1>5, <1>3
<1>8. IsFiniteSet(instances') /\ Cardinality(instances') = NextId
  BY <1>1, <1>3, <1>6, <1>7, FS_AddElement
<1>9. Numbered'
  <2>1. \A i \in instances' : i.id <= Cardinality(instances')
    BY <1>3, <1>4, <1>5, <1>6, <1>8
  <2>2. \A i, j \in instances' : i.id = j.id => i = j
    BY <1>1, <1>3, <1>4, <1>5, <1>6
  <2>q. QED
    BY <2>1, <2>2 DEF Numbered
<1>q. QED
  BY <1>1, <1>3, <1>4, <1>5, <1>6, <1>8, <1>9 DEF Kept

LEMMA InstallStep ==
    ASSUME ProvisionInv, NEW w \in Writers, NEW rep \in Representations, InstallInstance(w, rep)
    PROVE  ProvisionInv'
<1>. PICK ptr : ptr = [tx[w].ptr EXCEPT ![rep] = NextId]
  OBVIOUS
<1>. PICK t : t = [tx[w] EXCEPT !.todo = tx[w].todo \ {rep}, !.ptr = ptr]
  OBVIOUS
<1>1. /\ tx[w].at = "staging" /\ rep \in tx[w].todo /\ instances' = WithInstance(rep)
      /\ tx' = [tx EXCEPT ![w] = t] /\ UNCHANGED <<bundle, synced, legacy, faults>>
  BY DEF InstallInstance
<1>2. /\ tx[w].at # "rest" /\ Transacting(tx[w]) /\ \A v \in Writers : tx[v].at # "rest" => v = w
      /\ tx[w] \in TxRecords /\ tx[w].ptr \in Pointers
  BY <1>1, ActiveAlone
<1>3. /\ Kept /\ NextId \in Nat \ {0} /\ instances' \in SUBSET InstanceRecords /\ IsFiniteSet(instances') /\ Numbered'
      /\ \E i \in instances' : i.id = NextId /\ i.rep = rep
  BY <1>1, InstanceAdded
<1>4. /\ ptr \in Pointers /\ ptr[rep] = NextId /\ \A r \in Representations \ {rep} : ptr[r] = tx[w].ptr[r]
  BY <1>2, <1>3 DEF Pointers
<1>5. /\ t \in TxRecords /\ t.at = "staging" /\ t.requested = tx[w].requested /\ t.todo = tx[w].todo \ {rep}
      /\ t.previous = tx[w].previous /\ t.ptr = ptr
  <2>1. tx[w] \in [at : TxSteps, requested : SUBSET Representations, todo : SUBSET Representations,
                   previous : Manifests, ptr : Pointers]
    BY <1>2, TxFields
  <2>2. t \in [at : TxSteps, requested : SUBSET Representations, todo : SUBSET Representations,
                   previous : Manifests, ptr : Pointers]
    BY <1>4, <2>1
  <2>3. t \in TxRecords
    BY <2>2 DEF TxRecords
  <2>q. QED
    BY <1>1, <1>4, <2>1, <2>3
<1>6. Installed(t.previous)' /\ Installed(bundle)' /\ Installed(synced)'
  <2>1. Installed(t.previous) /\ Installed(bundle) /\ Installed(synced)
    BY <1>2, <1>5 DEF Transacting, ProvisionInv
  <2>2. bundle' = bundle /\ synced' = synced
    BY <1>1
  <2>q. QED
    BY <1>3, <2>1, <2>2, PlacedKept DEF Installed, Placed
<1>7. Placed(t.ptr)'
  <2>1. \A r \in Representations : tx[w].ptr[r] > 0 => \E i \in instances : i.id = tx[w].ptr[r] /\ i.rep = r
    BY <1>2 DEF Transacting, Placed
  <2>2. \A r \in Representations : ptr[r] > 0 => \E i \in instances' : i.id = ptr[r] /\ i.rep = r
    BY <1>3, <1>4, <2>1 DEF Kept
  <2>q. QED
    BY <1>5, <2>2 DEF Placed
<1>8. Transacting(t)'
  <2>1. rep \in tx[w].requested
    BY <1>1, <1>2 DEF Transacting
  <2>2. \A r \in Representations \ t.requested : KeptPointer(t.previous, t.ptr, r)
    BY <1>2, <1>4, <1>5, <2>1 DEF Transacting, KeptPointer
  <2>3. bundle' = t.previous /\ t.previous.kind # "malformed" /\ t.todo \subseteq t.requested
    BY <1>1, <1>2, <1>5 DEF Transacting
  <2>q. QED
    BY <1>5, <1>6, <1>7, <2>2, <2>3 DEF Transacting
<1>q. QED
  BY <1>1, <1>2, <1>3, <1>5, <1>6, <1>8, TxStep DEF ProvisionInv, ProvisionTypes
\* A transaction moves on, or is over, and touches no instance.
LEMMA MoveStep ==
    ASSUME ProvisionInv, NEW w \in Writers, tx[w].at # "rest", NEW step \in TxSteps,
           tx' = [tx EXCEPT ![w] = [tx[w] EXCEPT !.at = step]],
           UNCHANGED <<legacy, instances>>, faults' \in Nat,
           bundle' \in {bundle, tx[w].previous, Manifest("present", tx[w].ptr)}, synced' \in {synced, bundle'},
           step \in {"staging", "restored"} => bundle' = tx[w].previous,
           step \in {"replaced", "durable", "restoring"} => bundle' = Manifest("present", tx[w].ptr)
    PROVE  ProvisionInv'
<1>. PICK t : t = [tx[w] EXCEPT !.at = step]
  OBVIOUS
<1>1. /\ tx[w] \in TxRecords /\ Transacting(tx[w]) /\ \A v \in Writers : tx[v].at # "rest" => v = w
      /\ tx[w].previous \in Manifests /\ tx[w].ptr \in Pointers
  BY ActiveAlone
<1>2. /\ t \in TxRecords /\ t.at = step /\ t.requested = tx[w].requested /\ t.todo = tx[w].todo
      /\ t.previous = tx[w].previous /\ t.ptr = tx[w].ptr
  BY <1>1, MovedTx
<1>3. bundle' \in Manifests /\ synced' \in Manifests
  BY <1>1, ManifestFields DEF ProvisionInv, ProvisionTypes
<1>4. Installed(t.previous)' /\ Placed(t.ptr)' /\ Installed(bundle)' /\ Installed(synced)'
  <2>1. Installed(t.previous) /\ Placed(t.ptr)
    BY <1>1, <1>2 DEF Transacting
  <2>2. \A b \in {bundle, t.previous, Manifest("present", t.ptr)} : Installed(b)
    BY <1>1, <1>2, <2>1, ManifestFields DEF Installed, ProvisionInv
  <2>3. PICK b \in {bundle, t.previous, Manifest("present", t.ptr)} : b = bundle'
    BY <1>2
  <2>4. PICK s : s = synced' /\ (s = synced \/ s = b)
    BY <2>3
  <2>5. Installed(b) /\ Installed(s)
    BY <2>2, <2>4 DEF ProvisionInv
  <2>6. instances' = instances
    OBVIOUS
  <2>q. QED
    BY <2>1, <2>3, <2>4, <2>5, <2>6 DEF Installed, Placed
<1>5. Transacting(t)'
  <2>1. \A r \in Representations \ t.requested : KeptPointer(t.previous, t.ptr, r)
    BY <1>1, <1>2 DEF Transacting
  <2>q. QED
    BY <1>1, <1>2, <1>4, <2>1 DEF Transacting
<1>q. QED
  BY <1>1, <1>2, <1>3, <1>4, <1>5, SameInstances, TxStep

LEMMA EndTx ==
    ASSUME ProvisionInv, NEW w \in Writers, tx[w].at # "rest", tx' = [tx EXCEPT ![w] = NoTx],
           UNCHANGED <<bundle, legacy, instances>>, faults' \in Nat, synced' \in {synced, bundle}
    PROVE  ProvisionInv'
<1>1. \A v \in Writers : tx[v].at # "rest" => v = w
  BY ActiveAlone
<1>2. PICK t : t = NoTx
  OBVIOUS
<1>3. t \in TxRecords /\ Transacting(t)'
  BY <1>2, NoTxFields DEF Transacting
<1>4. bundle' \in Manifests /\ synced' \in Manifests
  BY DEF ProvisionInv, ProvisionTypes
<1>5. Installed(bundle)' /\ Installed(synced)'
  BY DEF ProvisionInv, Installed, Placed
<1>q. QED
  BY <1>1, <1>2, <1>3, <1>4, <1>5, SameInstances, TxStep

LEMMA ReplaceSteps ==
    ASSUME ProvisionInv, NEW w \in Writers, ReplaceBundle(w) \/ SyncBundle(w) \/ RestoreBundle(w)
    PROVE  ProvisionInv'
<1>1. /\ tx[w].at \in {"staging", "replaced", "restoring"} /\ tx[w].at # "rest" /\ faults' = faults /\ faults \in Nat
  BY DEF ReplaceBundle, SyncBundle, RestoreBundle, ProvisionInv, ProvisionTypes
<1>2. Transacting(tx[w])
  BY <1>1, ActiveAlone
<1>3. CASE ReplaceBundle(w)
  <2>1. /\ tx' = [tx EXCEPT ![w] = [tx[w] EXCEPT !.at = "replaced"]] /\ bundle' = Manifest("present", tx[w].ptr)
        /\ UNCHANGED <<synced, legacy, instances>>
    BY <1>3 DEF ReplaceBundle
  <2>q. QED
    BY <1>1, <2>1, MoveStep DEF TxSteps
<1>4. CASE SyncBundle(w)
  <2>1. /\ tx' = [tx EXCEPT ![w] = [tx[w] EXCEPT !.at = "durable"]] /\ bundle' = bundle
        /\ synced' = bundle /\ UNCHANGED <<legacy, instances>> /\ tx[w].at = "replaced"
    BY <1>4 DEF SyncBundle
  <2>2. bundle' = Manifest("present", tx[w].ptr)
    BY <1>2, <2>1 DEF Transacting
  <2>q. QED
    BY <1>1, <2>1, <2>2, MoveStep DEF TxSteps
<1>5. CASE RestoreBundle(w)
  <2>1. /\ tx' = [tx EXCEPT ![w] = [tx[w] EXCEPT !.at = "restored"]] /\ bundle' = tx[w].previous
        /\ UNCHANGED <<synced, legacy, instances>>
    BY <1>5 DEF RestoreBundle
  <2>q. QED
    BY <1>1, <2>1, MoveStep DEF TxSteps
<1>q. QED
  BY <1>3, <1>4, <1>5

\* A transaction that goes on to restore has the manifest replaced.
LEMMA RestoringStep ==
    ASSUME ProvisionInv, NEW w \in Writers, tx[w].at \in {"replaced", "durable"},
           tx' = [tx EXCEPT ![w] = [tx[w] EXCEPT !.at = "restoring"]],
           UNCHANGED <<bundle, synced, legacy, instances, faults>>
    PROVE  ProvisionInv'
<1>1. Transacting(tx[w]) /\ faults' \in Nat
  BY ActiveAlone DEF ProvisionInv, ProvisionTypes
<1>2. bundle' = Manifest("present", tx[w].ptr)
  BY <1>1 DEF Transacting
<1>q. QED
  BY <1>1, <1>2, MoveStep DEF TxSteps

LEMMA DecideTxSteps ==
    ASSUME ProvisionInv, NEW w \in Writers, ValidateSelection(w) \/ TransactionFails(w)
    PROVE  /\ ProvisionInv' /\ UNCHANGED <<bundle, synced, legacy, instances, faults>>
           /\ \/ /\ tx' = [tx EXCEPT ![w] = NoTx]
                 /\ \/ tx[w].at = "staging"
                    \/ tx[w].at = "durable" /\ \A r \in tx[w].requested : Inspect(r) = "ready"
              \/ tx' = [tx EXCEPT ![w] = [tx[w] EXCEPT !.at = "restoring"]]
<1>1. /\ UNCHANGED <<bundle, synced, legacy, instances, faults>> /\ faults' \in Nat
      /\ tx[w].at \in {"staging", "replaced", "durable"}
  BY DEF ValidateSelection, TransactionFails, ProvisionInv, ProvisionTypes
<1>2. \/ /\ tx' = [tx EXCEPT ![w] = NoTx]
         /\ \/ tx[w].at = "staging"
            \/ tx[w].at = "durable" /\ \A r \in tx[w].requested : Inspect(r) = "ready"
      \/ tx[w].at \in {"replaced", "durable"} /\ tx' = [tx EXCEPT ![w] = [tx[w] EXCEPT !.at = "restoring"]]
  BY DEF ValidateSelection, TransactionFails, selection_may_be_live
<1>3. CASE tx' = [tx EXCEPT ![w] = NoTx]
  BY <1>1, <1>2, <1>3, EndTx
<1>4. CASE tx[w].at \in {"replaced", "durable"} /\ tx' = [tx EXCEPT ![w] = [tx[w] EXCEPT !.at = "restoring"]]
  BY <1>1, <1>4, RestoringStep
<1>q. QED
  BY <1>1, <1>2, <1>3, <1>4

LEMMA RestoredSteps ==
    ASSUME ProvisionInv, NEW w \in Writers, SyncRestored(w) \/ RestoreFails(w)
    PROVE  ProvisionInv'
<1>1. faults \in Nat
  BY DEF ProvisionInv, ProvisionTypes
<1>2. CASE SyncRestored(w)
  BY <1>1, <1>2, EndTx DEF SyncRestored
<1>3. CASE RestoreFails(w)
  <2>1. /\ tx' = [tx EXCEPT ![w] = NoTx] /\ UNCHANGED <<bundle, synced, legacy, instances>>
        /\ tx[w].at # "rest" /\ faults' = faults + 1
    BY <1>3 DEF RestoreFails
  <2>2. faults' \in Nat
    BY <1>1, <2>1
  <2>q. QED
    BY <2>1, <2>2, EndTx
<1>q. QED
  BY <1>2, <1>3

LEMMA PowerLossStep ==
    ASSUME ProvisionInv, PowerLoss
    PROVE  ProvisionInv'
<1>1. /\ faults' \in Nat /\ tx' = [w \in Writers |-> NoTx] /\ UNCHANGED <<legacy, instances>>
  BY DEF PowerLoss, ProvisionInv, ProvisionTypes
<1>2. PICK b \in {bundle, synced} : bundle' = b /\ synced' = b
  BY DEF PowerLoss
<1>3. b \in Manifests /\ Installed(b)
  BY <1>2 DEF ProvisionInv, ProvisionTypes
<1>4. Installed(bundle)' /\ Installed(synced)'
  BY <1>1, <1>2, <1>3 DEF Installed, Placed
<1>5. ProvisionTypes'
  BY <1>1, <1>2, <1>3, NoTxFields DEF ProvisionInv, ProvisionTypes
<1>6. Numbered'
  BY <1>1 DEF ProvisionInv, Numbered
<1>q. QED
  BY <1>1, <1>4, <1>5, <1>6, NoTxFields DEF ProvisionInv, Transacting

LEMMA DamageStep ==
    ASSUME ProvisionInv, NEW i \in instances, DamageInstance(i)
    PROVE  ProvisionInv' /\ Kept
<1>. PICK broken : broken = [i EXCEPT !.intact = FALSE]
  OBVIOUS
<1>1. /\ faults' \in Nat /\ instances' = (instances \ {i}) \cup {broken} /\ UNCHANGED <<bundle, synced, legacy, tx>>
      /\ instances \in SUBSET InstanceRecords /\ IsFiniteSet(instances)
      /\ \A k \in instances : k.id <= Cardinality(instances)
      /\ \A k, j \in instances : k.id = j.id => k = j
  BY DEF DamageInstance, ProvisionInv, ProvisionTypes, Numbered
<1>2. /\ broken \in InstanceRecords /\ broken.id = i.id /\ broken.rep = i.rep
  BY <1>1 DEF InstanceRecords
<1>3. broken \notin instances \ {i}
  BY <1>1, <1>2
<1>4. /\ IsFiniteSet(instances \ {i}) /\ Cardinality(instances \ {i}) = Cardinality(instances) - 1
      /\ Cardinality(instances) \in Nat
  BY <1>1, FS_RemoveElement, FS_CardinalityType
<1>5. IsFiniteSet(instances') /\ Cardinality(instances') = Cardinality(instances)
  <2>1. PICK rest : rest = instances \ {i}
    OBVIOUS
  <2>2. IsFiniteSet(rest) /\ broken \notin rest /\ instances' = rest \cup {broken}
    BY <1>1, <1>3, <1>4, <2>1
  <2>3. IsFiniteSet(rest \cup {broken}) /\ Cardinality(rest \cup {broken}) = Cardinality(rest) + 1
    BY <2>2, FS_AddElement
  <2>q. QED
    BY <1>4, <2>1, <2>2, <2>3
<1>6. Numbered'
  <2>1. \A k \in instances' : \E j \in instances : k.id = j.id /\ ((k = j /\ j # i) \/ (k = broken /\ j = i))
    BY <1>1, <1>2
  <2>2. \A k \in instances' : k.id <= Cardinality(instances')
    BY <1>1, <1>5, <2>1
  <2>3. ASSUME NEW k \in instances', NEW j \in instances', k.id = j.id PROVE k = j
    <3>1. PICK a \in instances : k.id = a.id /\ ((k = a /\ a # i) \/ (k = broken /\ a = i))
      BY <2>1
    <3>2. PICK b \in instances : j.id = b.id /\ ((j = b /\ b # i) \/ (j = broken /\ b = i))
      BY <2>1
    <3>3. a = b
      BY <1>1, <2>3, <3>1, <3>2
    <3>4. CASE a = i
      <4>1. k = broken /\ j = broken
        BY <3>1, <3>2, <3>3, <3>4
      <4>q. QED
        BY <4>1
    <3>5. CASE a # i
      <4>1. k = a /\ j = a
        BY <3>1, <3>2, <3>3, <3>5
      <4>q. QED
        BY <4>1
    <3>q. QED
      BY <3>4, <3>5
  <2>q. QED
    BY <2>2, <2>3 DEF Numbered
<1>7. Kept
  BY <1>1, <1>2 DEF Kept
<1>8. ProvisionTypes'
  BY <1>1, <1>2, <1>5 DEF ProvisionInv, ProvisionTypes
<1>9. Installed(bundle)' /\ Installed(synced)'
  BY <1>1, <1>7, PlacedKept DEF ProvisionInv, Installed, Placed
<1>10. ASSUME NEW w \in Writers PROVE Transacting(tx[w])'
  <2>1. Transacting(tx[w]) /\ tx'[w] = tx[w]
    BY <1>1 DEF ProvisionInv
  <2>2. PICK t : t = tx[w]
    OBVIOUS
  <2>3. t.at # "rest" => Installed(t.previous)' /\ Placed(t.ptr)'
    BY <1>7, <2>1, <2>2, PlacedKept DEF Transacting
  <2>4. Transacting(t)'
    BY <1>1, <2>1, <2>2, <2>3 DEF Transacting
  <2>q. QED
    BY <2>1, <2>2, <2>4 DEF Transacting, Installed, Placed
<1>q. QED
  BY <1>1, <1>6, <1>7, <1>8, <1>9, <1>10 DEF ProvisionInv

LEMMA ProvisionStep ==
    ASSUME ProvisionInv, ProvisionNext
    PROVE  ProvisionInv'
<1>1. ASSUME NEW w \in Writers,
             \E requested \in (SUBSET Representations) \ {{}}, force, source \in BOOLEAN :
               BeginTransaction(w, requested, force, source)
      PROVE  ProvisionInv'
  BY <1>1, BeginStep
<1>2. ASSUME NEW w \in Writers,
             \/ \E rep \in Representations : InstallInstance(w, rep)
             \/ ReplaceBundle(w) \/ SyncBundle(w) \/ ValidateSelection(w) \/ TransactionFails(w)
             \/ RestoreBundle(w) \/ SyncRestored(w) \/ RestoreFails(w)
      PROVE  ProvisionInv'
  BY <1>2, InstallStep, ReplaceSteps, DecideTxSteps, RestoredSteps
<1>q. QED
  BY <1>1, <1>2, PowerLossStep, DamageStep DEF ProvisionNext
(* --- Theorems of provisioning ----------------------------------------------------- *)

LEMMA ProvisionStutters == ASSUME ProvisionInv, UNCHANGED provisionVars PROVE ProvisionInv'
<1>1. ProvisionTypes'
  BY DEF provisionVars, ProvisionInv, ProvisionTypes
<1>2. Numbered'
  BY DEF provisionVars, ProvisionInv, Numbered
<1>3. Installed(bundle)' /\ Installed(synced)'
  BY DEF provisionVars, ProvisionInv, Installed, Placed
<1>4. ASSUME NEW w \in Writers PROVE Transacting(tx[w])'
  BY DEF provisionVars, ProvisionInv, Transacting, Installed, Placed
<1>5. \A v, w \in Writers : tx'[v].at # "rest" /\ tx'[w].at # "rest" => v = w
  BY DEF provisionVars, ProvisionInv
<1>q. QED
  BY <1>1, <1>2, <1>3, <1>4, <1>5 DEF ProvisionInv

LEMMA SelectionFacts == ASSUME ProvisionInv PROVE SelectionIsInstalled
  BY DEF ProvisionInv, Installed, Placed, SelectionIsInstalled

\* Readiness of a representation as a manifest selects it.
LEMMA InspectSame ==
    ASSUME ProvisionInv, NEW r \in Representations, bundle' = bundle, legacy' = legacy, instances' = instances
    PROVE  Inspect(r)' = Inspect(r)
  BY DEF Inspect, ByPointer, InstanceReadiness

LEMMA InspectInstalled ==
    ASSUME ProvisionInv, NEW r \in Representations, NEW rep \in Representations,
           bundle' = bundle, legacy' = legacy, instances' = WithInstance(rep)
    PROVE  Inspect(r)' = Inspect(r)
<1>1. CASE bundle.kind = "present" /\ bundle.ptr[r] > 0
  <2>1. PICK i \in instances : i.id = bundle.ptr[r] /\ i.rep = r
    BY <1>1 DEF ProvisionInv, Installed, Placed
  <2>2. bundle.ptr[r] < NextId /\ NextId \in Nat /\ bundle.ptr[r] \in Int
    BY <2>1, InstanceAdded, ManifestFields DEF ProvisionInv, ProvisionTypes, Pointers
  <2>3. \A j \in instances' : j.id = bundle.ptr[r] <=> j \in instances /\ j.id = bundle.ptr[r]
    BY <2>2 DEF WithInstance
  <2>4. PICK ptr : ptr = bundle.ptr[r]
    OBVIOUS
  <2>5. \A j \in instances' : j.id = ptr <=> j \in instances /\ j.id = ptr
    BY <2>3, <2>4
  <2>6. instances \subseteq instances'
    BY DEF WithInstance
  <2>7. InstanceReadiness(r, ptr)' = InstanceReadiness(r, ptr)
    BY <2>5, <2>6 DEF InstanceReadiness
  <2>q. QED
    BY <1>1, <2>4, <2>7 DEF Inspect, ByPointer
<1>2. CASE ~(bundle.kind = "present" /\ bundle.ptr[r] > 0)
  <2>1. bundle.ptr[r] \in Int
    BY ManifestFields DEF ProvisionInv, ProvisionTypes, Pointers
  <2>2. CASE ~ByPointer(r)
    <3>1. ~ByPointer(r)'
      BY <2>2 DEF ByPointer
    <3>q. QED
      BY <2>2, <3>1 DEF Inspect
  <2>3. CASE ByPointer(r)
    <3>1. bundle.kind = "present" /\ bundle.ptr[r] <= 0 /\ ByPointer(r)'
      BY <1>2, <2>1, <2>3 DEF ByPointer
    <3>2. PICK ptr : ptr = bundle.ptr[r]
      OBVIOUS
    <3>3. \A i \in instances : i.id # ptr
      BY <2>1, <3>1, <3>2 DEF ProvisionInv, ProvisionTypes, InstanceRecords
    <3>4. \A i \in instances' : i.id # ptr
      BY <2>1, <3>1, <3>2, InstanceAdded DEF InstanceRecords
    <3>5. InstanceReadiness(r, ptr)' = InstanceReadiness(r, ptr)
      BY <3>3, <3>4 DEF InstanceReadiness
    <3>q. QED
      BY <2>3, <3>1, <3>2, <3>5 DEF Inspect
  <2>q. QED
    BY <2>2, <2>3
<1>q. QED
  BY <1>1, <1>2

\* The manifest before a transaction and the one it publishes select what it
\* was not asked for alike.
LEMMA InspectReplaced ==
    ASSUME NEW t \in TxRecords, t.at # "rest", t.previous.kind # "malformed",
           NEW r \in Representations, KeptPointer(t.previous, t.ptr, r),
           \/ bundle = t.previous /\ bundle' = Manifest("present", t.ptr)
           \/ bundle = Manifest("present", t.ptr) /\ bundle' = t.previous,
           legacy' = legacy, instances' = instances
    PROVE  Inspect(r)' = Inspect(r)
<1>. PICK old : old = t.previous
  OBVIOUS
<1>. PICK new : new = Manifest("present", t.ptr)
  OBVIOUS
<1>. DEFINE Of(p) == IF p = -1 THEN legacy
                     ELSE IF \E i \in instances : i.id = p /\ i.rep = r
                          THEN IF \E i \in instances : i.id = p /\ i.intact THEN "ready" ELSE "invalid"
                          ELSE "absent"
<1>. DEFINE On(m) == IF m.kind = "malformed" THEN "invalid"
                     ELSE IF m.kind = "present" /\ m.ptr[r] # 0 THEN Of(m.ptr[r])
                     ELSE IF r = "torch_st_v1" THEN legacy ELSE "absent"
<1>1. \A p : Of(p) = InstanceReadiness(r, p) /\ Of(p) = InstanceReadiness(r, p)'
  BY DEF InstanceReadiness
<1>2. Of(-1) = legacy
  OBVIOUS
<1>. HIDE DEF Of
<1>3. Inspect(r) = On(bundle) /\ Inspect(r)' = On(bundle')
  BY <1>1 DEF Inspect, ByPointer
<1>4. new.kind = "present" /\ new.ptr = t.ptr
  BY DEF Manifest
<1>5. On(old) = On(new)
  BY <1>2, <1>4 DEF KeptPointer
<1>q. QED
  BY <1>3, <1>5

LEMMA OthersRest ==
    ASSUME ProvisionInv, NEW w \in Writers, tx[w].at # "rest", [ProvisionNext]_provisionVars
    PROVE  \/ UNCHANGED provisionVars
           \/ \E rep \in Representations : InstallInstance(w, rep)
           \/ ReplaceBundle(w) \/ SyncBundle(w) \/ ValidateSelection(w) \/ TransactionFails(w)
           \/ RestoreBundle(w) \/ SyncRestored(w)
           \/ faults' # faults
<1>0. faults \in Nat /\ faults + 1 # faults
  BY DEF ProvisionInv, ProvisionTypes
<1>1. ~Unlocked /\ \A v \in Writers : v # w => tx[v].at = "rest"
  BY DEF Unlocked, ProvisionInv
<1>2. ASSUME NEW v \in Writers, tx[v].at # "rest" PROVE v = w
  BY <1>1, <1>2
<1>3. \A v \in Writers : \A requested, force, source : ~BeginTransaction(v, requested, force, source)
  BY <1>1 DEF BeginTransaction
<1>4. \A v \in Writers : RestoreFails(v) => faults' # faults
  BY <1>0 DEF RestoreFails
<1>5. (PowerLoss => faults' # faults) /\ \A i \in instances : DamageInstance(i) => faults' # faults
  BY <1>0 DEF PowerLoss, DamageInstance
<1>6. \A v \in Writers :
        (\E rep \in Representations : InstallInstance(v, rep)) \/ ReplaceBundle(v) \/ SyncBundle(v) \/ ValidateSelection(v)
          \/ TransactionFails(v) \/ RestoreBundle(v) \/ SyncRestored(v) => tx[v].at # "rest"
  BY DEF InstallInstance, ReplaceBundle, SyncBundle, ValidateSelection, TransactionFails, RestoreBundle, SyncRestored
<1>q. QED
  BY <1>2, <1>3, <1>4, <1>5, <1>6 DEF ProvisionNext

LEMMA OthersKept == ASSUME ProvisionInv, [ProvisionNext]_provisionVars PROVE UnrequestedIsKept
<1>. SUFFICES ASSUME NEW w \in Writers, tx[w].at # "rest", tx'[w].at # "rest", faults' = faults,
                     NEW r \in Representations \ tx[w].requested
              PROVE  Inspect(r)' = Inspect(r)
  BY DEF UnrequestedIsKept
<1>1. /\ tx[w] \in TxRecords /\ tx[w].previous.kind # "malformed" /\ KeptPointer(tx[w].previous, tx[w].ptr, r)
      /\ tx[w].at \in {"staging", "restored"} => bundle = tx[w].previous
      /\ tx[w].at \in {"replaced", "durable", "restoring"} => bundle = Manifest("present", tx[w].ptr)
  BY ActiveAlone DEF Transacting
<1>2. CASE bundle' = bundle /\ legacy' = legacy /\ instances' = instances
  BY <1>2, InspectSame
<1>3. ASSUME NEW rep \in Representations, InstallInstance(w, rep)
      PROVE  Inspect(r)' = Inspect(r)
  BY <1>3, InspectInstalled DEF InstallInstance
<1>4. CASE ReplaceBundle(w)
  BY <1>1, <1>4, InspectReplaced DEF ReplaceBundle
<1>5. CASE RestoreBundle(w)
  BY <1>1, <1>5, InspectReplaced DEF RestoreBundle
<1>6. CASE UNCHANGED provisionVars \/ SyncBundle(w) \/ ValidateSelection(w) \/ TransactionFails(w) \/ SyncRestored(w)
  BY <1>2, <1>6 DEF provisionVars, SyncBundle, ValidateSelection, TransactionFails, SyncRestored
<1>q. QED
  BY <1>3, <1>4, <1>5, <1>6, OthersRest

LEMMA FailuresRestored == ASSUME ProvisionInv, [ProvisionNext]_provisionVars PROVE FailureRestores
<1>. SUFFICES ASSUME NEW w \in Writers, tx[w].at # "rest", tx'[w].at = "rest", faults' = faults
              PROVE  \/ tx[w].at = "durable" /\ \A r \in tx[w].requested : Inspect(r) = "ready"
                     \/ bundle' = tx[w].previous /\ (tx[w].at = "staging" \/ synced' = tx[w].previous)
  BY DEF FailureRestores
<1>1. /\ tx[w] \in TxRecords /\ Transacting(tx[w]) /\ tx \in [Writers -> TxRecords]
  BY ActiveAlone DEF ProvisionInv, ProvisionTypes
<1>2. ~UNCHANGED provisionVars
  BY DEF provisionVars
<1>3. ASSUME NEW step \in TxSteps, tx' = [tx EXCEPT ![w] = [tx[w] EXCEPT !.at = step]] PROVE FALSE
  <2>1. tx'[w] = [tx[w] EXCEPT !.at = step]
    BY <1>1, <1>3
  <2>2. tx'[w].at = step
    BY <1>1, <2>1, MovedTx
  <2>q. QED
    BY <2>2 DEF TxSteps
<1>4. ASSUME NEW rep \in Representations, InstallInstance(w, rep) PROVE FALSE
  <2>. PICK ptr : ptr = [tx[w].ptr EXCEPT ![rep] = NextId]
    OBVIOUS
  <2>. PICK todo : todo = tx[w].todo \ {rep}
    OBVIOUS
  <2>1. tx'[w] = [tx[w] EXCEPT !.todo = todo, !.ptr = ptr]
    BY <1>1, <1>4 DEF InstallInstance
  <2>2. tx'[w].at = tx[w].at
    BY <1>1, <2>1, TxFields
  <2>q. QED
    BY <2>2
<1>5. ~ReplaceBundle(w) /\ ~SyncBundle(w) /\ ~RestoreBundle(w)
  BY <1>3 DEF ReplaceBundle, SyncBundle, RestoreBundle, TxSteps
<1>6. CASE ValidateSelection(w) \/ TransactionFails(w)
  <2>1. \/ tx[w].at = "staging"
        \/ tx[w].at = "durable" /\ \A r \in tx[w].requested : Inspect(r) = "ready"
    BY <1>3, <1>6, DecideTxSteps DEF TxSteps
  <2>2. bundle' = bundle
    BY <1>6, DecideTxSteps
  <2>q. QED
    BY <1>1, <2>1, <2>2 DEF Transacting
<1>7. CASE SyncRestored(w)
  BY <1>1, <1>7 DEF SyncRestored, Transacting
<1>q. QED
  BY <1>2, <1>4, <1>5, <1>6, <1>7, OthersRest
(***************************************************************************)
(* The embedder.                                                           *)
(***************************************************************************)

Positive == Nat \ {0}
Embedders == [state : {"UNLOADED", "LOADING", "READY", "FAILED", "CLOSED"},
              kind : {"none", "INITIALIZATION", "EXECUTION"}, cuda : BOOLEAN, rep : Representations,
              instance : Int, backend : BOOLEAN, model : BOOLEAN, loads : Nat, batch : Positive,
              lock : Callers \cup {"free"}]
Works == [tokens : Seq(Nat), ladder : Seq(Positive), attempt : Nat, batches : SUBSET (Nat \X Nat),
          next : Nat, vectors : Seq(Nat)]
CallSteps == {"waiting", "loading", "execute", "failing", "answered"}
CallRecords == [at : {"rest"}] \cup [at : CallSteps, kind : {"query", "documents"}, work : Works]

Falling(ladder) == \A i, k \in DOMAIN ladder : i < k => ladder[k] < ladder[i]

\* A batch of an attempt: within the limit, and the budget unless it is one text.
Bounded(w, b) ==
    LET limit == w.ladder[w.attempt + 1] IN
    /\ SizeOf(b[1], b[2]) <= limit
    /\ b[1] = b[2] \/ SizeOf(b[1], b[2]) * LargestOf(w.tokens, b[1], b[2]) <= Budget(w.tokens, limit)

\* What an attempt has done: the texts before the next one have their vectors,
\* in order, and went in bounded batches.
Attempted(w) ==
    /\ w.ladder = <<>> => w.attempt = 0
    /\ w.ladder # <<>> => w.attempt < Len(w.ladder) /\ Falling(w.ladder)
    /\ w.next # 0 =>
          /\ w.ladder # <<>> /\ w.next <= Len(w.tokens) + 1
          /\ Len(w.vectors) = w.next - 1 /\ \A i \in 1..Len(w.vectors) : w.vectors[i] = i

\* What a call under way knows of the embedder, whatever the others do.
Calling(c, k) ==
    k.at # "rest" =>
       /\ emb.state # "none"
       /\ k.at = "loading" => emb.lock = c /\ emb.state = "LOADING"
       /\ k.kind = "documents" => c \in DocumentCallers
       /\ k.work.ladder # <<>> => k.kind = "documents" /\ k.at \notin {"waiting", "loading"}
       /\ Attempted(k.work)
       /\ k.work.next # 0 /\ emb.cuda => \A b \in k.work.batches : Bounded(k.work, b)
       /\ k.at = "answered" => k.work.next = Len(k.work.tokens) + 1

\* Where nobody else embeds documents the batch is that of the attempt.
Learnt(k) == OneDocumentCaller /\ k.at = "execute" /\ k.work.ladder # <<>> => emb.batch = k.work.ladder[k.work.attempt + 1]

Loading ==
    emb.state # "none" =>
       /\ emb \in Embedders /\ emb.loads <= 1
       /\ emb.state = "UNLOADED" => emb.loads = 0
       /\ emb.state = "LOADING" => emb.lock # "free"
       /\ emb.state = "READY" => emb.backend

RuntimeInv ==
    /\ emb \in {NoEmbedder} \cup Embedders /\ call \in [Callers -> CallRecords]
    /\ Loading /\ FrozenInstanceStays
    /\ \A c \in Callers : Calling(c, call[c]) /\ Learnt(call[c])

EmbeddingInv == ProvisionInv /\ RuntimeInv

LEMMA CallFields ==
    ASSUME NEW k \in CallRecords, k.at # "rest"
    PROVE  /\ k \in [at : CallSteps, kind : {"query", "documents"}, work : Works]
           /\ k.at \in CallSteps /\ k.kind \in {"query", "documents"} /\ k.work \in Works
           /\ k.work.tokens \in Seq(Nat) /\ k.work.ladder \in Seq(Positive) /\ k.work.attempt \in Nat
           /\ k.work.batches \in SUBSET (Nat \X Nat) /\ k.work.next \in Nat /\ k.work.vectors \in Seq(Nat)
           /\ Len(k.work.tokens) \in Nat /\ Len(k.work.ladder) \in Nat /\ DOMAIN k.work.ladder = 1..Len(k.work.ladder)
<1>1. k \in [at : CallSteps, kind : {"query", "documents"}, work : Works]
  BY DEF CallRecords
<1>2. k.work \in Works
  BY <1>1
<1>3. /\ k.work.tokens \in Seq(Nat) /\ k.work.ladder \in Seq(Positive) /\ k.work.attempt \in Nat
      /\ k.work.batches \in SUBSET (Nat \X Nat) /\ k.work.next \in Nat /\ k.work.vectors \in Seq(Nat)
  BY <1>2 DEF Works
<1>q. QED
  BY <1>1, <1>2, <1>3, LenProperties

LEMMA CallMoved ==
    ASSUME NEW k \in CallRecords, k.at # "rest", NEW step \in CallSteps
    PROVE  /\ [k EXCEPT !.at = step] \in CallRecords /\ [k EXCEPT !.at = step].at = step
           /\ [k EXCEPT !.at = step].kind = k.kind /\ [k EXCEPT !.at = step].work = k.work
<1>1. k \in [at : CallSteps, kind : {"query", "documents"}, work : Works]
  BY CallFields
<1>2. [k EXCEPT !.at = step] \in [at : CallSteps, kind : {"query", "documents"}, work : Works]
  BY <1>1
<1>q. QED
  BY <1>1, <1>2 DEF CallRecords

LEMMA CallWorks ==
    ASSUME NEW k \in CallRecords, k.at # "rest", NEW w \in Works
    PROVE  /\ [k EXCEPT !.work = w] \in CallRecords /\ [k EXCEPT !.work = w].at = k.at
           /\ [k EXCEPT !.work = w].kind = k.kind /\ [k EXCEPT !.work = w].work = w
<1>1. k \in [at : CallSteps, kind : {"query", "documents"}, work : Works]
  BY CallFields
<1>2. [k EXCEPT !.work = w] \in [at : CallSteps, kind : {"query", "documents"}, work : Works]
  BY <1>1
<1>q. QED
  BY <1>1, <1>2 DEF CallRecords

LEMMA NoCallFields == NoCall \in CallRecords /\ NoCall.at = "rest" /\ NoEmbedder.state = "none"
  BY DEF NoCall, CallRecords, NoEmbedder

LEMMA EmbedderFields ==
    ASSUME NEW e \in {NoEmbedder} \cup Embedders, e.state # "none"
    PROVE  /\ e \in Embedders /\ e.state \in {"UNLOADED", "LOADING", "READY", "FAILED", "CLOSED"}
           /\ e.kind \in {"none", "INITIALIZATION", "EXECUTION"} /\ e.cuda \in BOOLEAN /\ e.rep \in Representations
           /\ e.instance \in Int /\ e.backend \in BOOLEAN /\ e.model \in BOOLEAN /\ e.loads \in Nat
           /\ e.batch \in Positive /\ e.lock \in Callers \cup {"free"}
<1>1. e \in Embedders
  BY NoCallFields
<1>q. QED
  BY <1>1 DEF Embedders

LEMMA SomeEmbedder == \A e \in Embedders : e.state # "none"
  BY DEF Embedders

(* --- Partition and ladder ------------------------------------------------------------ *)

LEMMA LargestIndex ==
    ASSUME NEW n \in Nat, NEW S \in SUBSET (1..n), S # {}
    PROVE  Max(S) \in S
<1>. DEFINE T == {n - i : i \in S}
<1>1. \A i \in S : i \in Nat /\ n - i \in Nat
  OBVIOUS
<1>2. T \subseteq Nat /\ T # {}
  BY <1>1
<1>. HIDE DEF T
<1>3. PICK x \in T : \A y \in T : ~(<<y, x>> \in OpToRel(<, Nat))
  BY <1>2, WFMin, NatLessThanWellFounded
<1>4. \A y \in T : x <= y
  <2>. SUFFICES ASSUME NEW y \in T, y < x PROVE FALSE
    BY <1>2
  <2>1. <<y, x>> \in OpToRel(<, Nat)
    BY <1>2 DEF OpToRel
  <2>q. QED
    BY <1>3, <2>1
<1>5. PICK i \in S : x = n - i
  BY DEF T
<1>6. ASSUME NEW j \in S PROVE i >= j
  <2>1. n - j \in T
    BY DEF T
  <2>q. QED
    BY <1>1, <1>4, <1>5, <2>1
<1>q. QED
  BY <1>6 DEF Max

\* A batch begins with the next text and is that text alone, or fits.
LEMMA PartitionFields ==
    ASSUME NEW tokens \in Seq(Nat), NEW limit, NEW i \in 1..Len(tokens)
    PROVE  /\ Partition(tokens, limit, i) \in i..Len(tokens)
           /\ Partition(tokens, limit, i) = i \/ Fits(tokens, limit, i, Partition(tokens, limit, i))
<1>. DEFINE S == {k \in i..Len(tokens) : \A j \in (i + 1)..k : Fits(tokens, limit, i, j)}
<1>1. Len(tokens) \in Nat
  BY LenProperties
<1>2. i \in S /\ S \in SUBSET (1..Len(tokens))
  BY <1>1
<1>3. Max(S) \in S
  BY <1>1, <1>2, LargestIndex
<1>4. Partition(tokens, limit, i) = Max(S)
  BY DEF Partition
<1>5. Partition(tokens, limit, i) \in S
  BY <1>3, <1>4
<1>6. PICK p : p = Partition(tokens, limit, i)
  OBVIOUS
<1>7. p \in i..Len(tokens) /\ \A j \in (i + 1)..p : Fits(tokens, limit, i, j)
  BY <1>5, <1>6
<1>8. p # i => p \in (i + 1)..p
  BY <1>1, <1>7
<1>q. QED
  BY <1>6, <1>7, <1>8

LEMMA LadderFields ==
    ASSUME RuntimeInv, emb.state # "none"
    PROVE  /\ LadderFromHere \in Seq(Positive) /\ LadderFromHere # <<>> /\ 0 < Len(LadderFromHere)
           /\ LadderFromHere[1] = emb.batch /\ Falling(LadderFromHere)
<1>1. emb.batch \in Positive
  BY EmbedderFields DEF RuntimeInv
<1>2. Ladder \in Seq(Positive) /\ \A i, k \in DOMAIN Ladder : i < k => Ladder[k] < Ladder[i]
  BY RuntimeAssumption DEF Positive
<1>3. Len(Ladder) \in Nat /\ DOMAIN Ladder = 1..Len(Ladder) /\ \A i \in 1..Len(Ladder) : Ladder[i] \in Positive
  BY <1>2, LenProperties, ElementOfSeq
<1>4. CASE emb.cuda /\ \E i \in DOMAIN Ladder : Ladder[i] = emb.batch
  <2>. DEFINE n == CHOOSE i \in DOMAIN Ladder : Ladder[i] = emb.batch
  <2>1. n \in 1..Len(Ladder) /\ Ladder[n] = emb.batch
    BY <1>3, <1>4
  <2>2. LadderFromHere = SubSeq(Ladder, n, Len(Ladder))
    BY <1>4 DEF LadderFromHere
  <2>. HIDE DEF n
  <2>3. /\ LadderFromHere \in Seq(Positive) /\ Len(LadderFromHere) = Len(Ladder) - n + 1
        /\ \A i \in 1..(Len(Ladder) - n + 1) : LadderFromHere[i] = Ladder[n + i - 1]
    BY <1>3, <2>1, <2>2, SubSeqProperties
  <2>4. DOMAIN LadderFromHere = 1..(Len(Ladder) - n + 1)
    BY <2>3, LenProperties
  <2>5. \A i \in 1..(Len(Ladder) - n + 1) : n + i - 1 \in DOMAIN Ladder
    BY <1>3, <2>1
  <2>6. Falling(LadderFromHere)
    <3>. SUFFICES ASSUME NEW i \in DOMAIN LadderFromHere, NEW k \in DOMAIN LadderFromHere, i < k
                  PROVE  LadderFromHere[k] < LadderFromHere[i]
      BY DEF Falling
    <3>1. n + i - 1 < n + k - 1 /\ n + i - 1 \in DOMAIN Ladder /\ n + k - 1 \in DOMAIN Ladder
      BY <1>3, <2>1, <2>4, <2>5
    <3>2. Ladder[n + k - 1] < Ladder[n + i - 1]
      BY <1>2, <3>1
    <3>q. QED
      BY <2>3, <2>4, <3>2
  <2>7. 0 < Len(LadderFromHere) /\ LadderFromHere[1] = emb.batch
    BY <1>3, <2>1, <2>3
  <2>8. LadderFromHere # <<>>
    BY <2>7, EmptySeq
  <2>q. QED
    BY <2>3, <2>6, <2>7, <2>8
<1>5. CASE ~(emb.cuda /\ \E i \in DOMAIN Ladder : Ladder[i] = emb.batch)
  <2>1. LadderFromHere = <<emb.batch>>
    BY <1>5 DEF LadderFromHere
  <2>2. /\ <<emb.batch>> \in Seq(Positive) /\ Len(<<emb.batch>>) = 1 /\ <<emb.batch>>[1] = emb.batch
        /\ DOMAIN <<emb.batch>> = 1..1 /\ <<emb.batch>> # <<>>
    BY <1>1
  <2>3. Falling(<<emb.batch>>)
    BY <2>2 DEF Falling
  <2>q. QED
    BY <2>1, <2>2, <2>3
<1>q. QED
  BY <1>4, <1>5
(* --- Steps of the embedder ------------------------------------------------------------- *)

\* What a step may leave of the embedder so that no call is surprised.
SameEmbedder(e) ==
    /\ e \in Embedders /\ e.cuda = emb.cuda /\ e.rep = emb.rep /\ e.instance = emb.instance
    /\ e.state = "UNLOADED" => emb.state = "UNLOADED"

LEMMA FrozenKept ==
    ASSUME FrozenInstanceStays, emb.state # "none", SameEmbedder(emb'), legacy' = legacy, Kept
    PROVE  FrozenInstanceStays'
<1>. SUFFICES ASSUME emb'.state = "UNLOADED" PROVE InstanceReadiness(emb.rep, emb.instance)' # "absent"
  BY DEF FrozenInstanceStays
<1>. PICK rep : rep = emb.rep
  OBVIOUS
<1>. PICK ptr : ptr = emb.instance
  OBVIOUS
<1>1. emb'.rep = rep /\ emb'.instance = ptr /\ emb.state = "UNLOADED"
  BY DEF SameEmbedder
<1>2. InstanceReadiness(rep, ptr) # "absent"
  BY <1>1 DEF FrozenInstanceStays
<1>3. InstanceReadiness(rep, ptr)' # "absent"
  BY <1>2 DEF InstanceReadiness, Kept
<1>q. QED
  BY <1>1, <1>3

LEMMA RuntimeStep ==
    ASSUME RuntimeInv, emb.state # "none", NEW c \in Callers, NEW k \in CallRecords,
           call' = [call EXCEPT ![c] = k], SameEmbedder(emb'), legacy' = legacy, Kept, Loading',
           Calling(c, k)', Learnt(k)',
           \A d \in Callers \ {c} : call[d].at = "loading" => emb'.lock = d /\ emb'.state = "LOADING",
           emb'.batch = emb.batch \/ c \in DocumentCallers
    PROVE  RuntimeInv'
<1>1. emb' \in Embedders /\ emb'.state # "none" /\ emb'.cuda = emb.cuda
  BY SomeEmbedder DEF SameEmbedder
<1>2. call \in [Callers -> CallRecords] /\ FrozenInstanceStays
  BY DEF RuntimeInv
<1>3. call' \in [Callers -> CallRecords] /\ call'[c] = k /\ \A d \in Callers \ {c} : call'[d] = call[d]
  BY <1>2
<1>4. FrozenInstanceStays'
  BY <1>2, FrozenKept
<1>5. ASSUME NEW d \in Callers PROVE Calling(d, call[d])' /\ Learnt(call[d])'
  <2>1. CASE d = c
    BY <1>3, <2>1 DEF Calling, Learnt
  <2>2. CASE d # c
    <3>. PICK old : old = call[d]
      OBVIOUS
    <3>1. call'[d] = old
      BY <1>3, <2>2
    <3>2. Calling(d, old) /\ Learnt(old)
      BY DEF RuntimeInv
    <3>3. Calling(d, old)'
      BY <1>1, <2>2, <3>2 DEF Calling
    <3>4. Learnt(old)'
      BY <2>2, <3>2 DEF Calling, Learnt, OneDocumentCaller
    <3>q. QED
      BY <3>1, <3>3, <3>4 DEF Calling, Learnt
  <2>q. QED
    BY <2>1, <2>2
<1>q. QED
  BY <1>1, <1>3, <1>4, <1>5 DEF RuntimeInv

LEMMA SameRoot == ASSUME RootUnchanged PROVE legacy' = legacy /\ Kept
  BY DEF RootUnchanged, Kept

\* A step of a call that leaves the embedder as it is.
LEMMA CallStep ==
    ASSUME RuntimeInv, emb.state # "none", NEW c \in Callers, NEW k \in CallRecords,
           call' = [call EXCEPT ![c] = k], emb' = emb, RootUnchanged, Calling(c, k), Learnt(k)
    PROVE  RuntimeInv'
<1>1. SameEmbedder(emb') /\ Loading'
  BY EmbedderFields DEF RuntimeInv, SameEmbedder, Loading
<1>2. Calling(c, k)' /\ Learnt(k)'
  BY DEF Calling, Learnt
<1>3. \A d \in Callers : call[d].at = "loading" => emb'.lock = d /\ emb'.state = "LOADING"
  BY DEF RuntimeInv, Calling
<1>q. QED
  BY <1>1, <1>2, <1>3, SameRoot, RuntimeStep

LEMMA CallerFacts ==
    ASSUME RuntimeInv, NEW c \in Callers, call[c].at # "rest"
    PROVE  /\ emb.state # "none" /\ emb \in Embedders /\ call[c] \in CallRecords
           /\ Calling(c, call[c]) /\ Learnt(call[c])
<1>1. Calling(c, call[c]) /\ Learnt(call[c]) /\ call[c] \in CallRecords
  BY DEF RuntimeInv
<1>q. QED
  BY <1>1, EmbedderFields DEF RuntimeInv, Calling

LEMMA EndCall ==
    ASSUME RuntimeInv, emb.state # "none", NEW c \in Callers, call' = [call EXCEPT ![c] = NoCall], emb' = emb,
           RootUnchanged
    PROVE  RuntimeInv'
<1>1. PICK k : k = NoCall
  OBVIOUS
<1>2. k \in CallRecords /\ Calling(c, k) /\ Learnt(k)
  BY <1>1, NoCallFields DEF Calling, Learnt
<1>q. QED
  BY <1>1, <1>2, CallStep

LEMMA StartedFields ==
    ASSUME NEW c \in Callers, NEW what \in {"query", "documents"}, NEW at \in {"execute", "waiting"},
           NEW tokens \in Seq(Nat), what = "documents" => c \in DocumentCallers, emb.state # "none"
    PROVE  /\ Started(what, at, tokens) \in CallRecords
           /\ Calling(c, Started(what, at, tokens)) /\ Learnt(Started(what, at, tokens))
<1>. PICK w : w = Work(tokens)
  OBVIOUS
<1>1. /\ w \in Works /\ w.ladder = <<>> /\ w.next = 0 /\ w.attempt = 0 /\ w.batches = {}
  BY EmptySeq DEF Work, Works
<1>. PICK k : k = [at |-> at, kind |-> what, work |-> w]
  OBVIOUS
<1>2. k \in [at : CallSteps, kind : {"query", "documents"}, work : Works] /\ k.at = at /\ k.kind = what /\ k.work = w
  BY <1>1 DEF CallSteps
<1>3. k \in CallRecords
  BY <1>2 DEF CallRecords
<1>4. Calling(c, k) /\ Learnt(k)
  BY <1>1, <1>2 DEF Calling, Attempted, Learnt
<1>q. QED
  BY <1>3, <1>4 DEF Started

LEMMA EnsureReadyStep ==
    ASSUME RuntimeInv, NEW c \in Callers, NEW what \in {"query", "documents"}, NEW tokens \in Seq(Nat),
           what = "documents" => c \in DocumentCallers, EnsureReady(c, what, tokens)
    PROVE  RuntimeInv'
<1>1. emb.state # "none" /\ emb' = emb /\ RootUnchanged
  BY DEF EnsureReady
<1>2. CASE Refuses
  BY <1>1, <1>2, EndCall DEF EnsureReady
<1>3. CASE ~Refuses
  <2>1. PICK at \in {"execute", "waiting"} : call' = [call EXCEPT ![c] = Started(what, at, tokens)]
    <3>1. call' = [call EXCEPT ![c] = Started(what, IF IsReady THEN "execute" ELSE "waiting", tokens)]
      BY <1>3 DEF EnsureReady
    <3>q. QED
      BY <3>1
  <2>2. PICK k : k = Started(what, at, tokens)
    OBVIOUS
  <2>3. k \in CallRecords /\ Calling(c, k) /\ Learnt(k)
    BY <1>1, <2>2, StartedFields
  <2>q. QED
    BY <1>1, <2>1, <2>2, <2>3, CallStep
<1>q. QED
  BY <1>2, <1>3

LEMMA TakeLockStep ==
    ASSUME RuntimeInv, NEW c \in Callers, TakeInitLock(c)
    PROVE  RuntimeInv'
<1>1. /\ call[c].at = "waiting" /\ emb.lock = "free" /\ RootUnchanged /\ BeginLoad(c)
  BY DEF TakeInitLock
<1>2. /\ emb.state # "none" /\ emb \in Embedders /\ call[c] \in CallRecords /\ Calling(c, call[c])
      /\ call[c].at # "rest"
  BY <1>1, CallerFacts
<1>3. CASE Refuses
  BY <1>1, <1>2, <1>3, EndCall DEF BeginLoad
<1>4. CASE ~Refuses /\ IsReady
  <2>. PICK k : k = [call[c] EXCEPT !.at = "execute"]
    OBVIOUS
  <2>1. call' = [call EXCEPT ![c] = k] /\ emb' = emb
    BY <1>1, <1>4 DEF BeginLoad
  <2>2. k \in CallRecords /\ k.at = "execute" /\ k.kind = call[c].kind /\ k.work = call[c].work
    BY <1>2, CallMoved DEF CallSteps
  <2>3. Calling(c, k) /\ Learnt(k)
    BY <1>1, <1>2, <2>2 DEF Calling, Learnt
  <2>q. QED
    BY <1>1, <1>2, <2>1, <2>2, <2>3, CallStep
<1>5. CASE ~Refuses /\ ~IsReady
  <2>. PICK k : k = [call[c] EXCEPT !.at = "loading"]
    OBVIOUS
  <2>. PICK e : e = [emb EXCEPT !.state = "LOADING", !.loads = emb.loads + 1, !.lock = c]
    OBVIOUS
  <2>1. call' = [call EXCEPT ![c] = k] /\ emb' = e
    BY <1>1, <1>5 DEF BeginLoad
  <2>2. k \in CallRecords /\ k.at = "loading" /\ k.kind = call[c].kind /\ k.work = call[c].work
    BY <1>2, CallMoved DEF CallSteps
  <2>3. emb.state = "UNLOADED" /\ emb.loads = 0
    BY <1>1, <1>2, <1>5, EmbedderFields DEF RuntimeInv, Loading, Refuses, IsReady
  <2>4. /\ e \in Embedders /\ e.state = "LOADING" /\ e.loads = 1 /\ e.lock = c /\ e.cuda = emb.cuda /\ e.rep = emb.rep
        /\ e.instance = emb.instance /\ e.batch = emb.batch
    <3>1. emb.loads + 1 = 1 /\ 1 \in Nat
      BY <2>3
    <3>2. e = [emb EXCEPT !.state = "LOADING", !.loads = 1, !.lock = c]
      BY <3>1
    <3>3. e \in Embedders
      BY <1>2, <3>1, <3>2 DEF Embedders
    <3>q. QED
      BY <1>2, <3>2, <3>3 DEF Embedders
  <2>5. c # "free"
    BY RuntimeAssumption
  <2>6. SameEmbedder(emb') /\ Loading'
    BY <1>2, <2>1, <2>3, <2>4, <2>5 DEF SameEmbedder, Loading
  <2>7. Calling(c, k)' /\ Learnt(k)'
    BY <1>1, <1>2, <2>1, <2>2, <2>4 DEF Calling, Learnt
  <2>8. \A d \in Callers : call[d].at # "loading"
    BY <1>1, RuntimeAssumption DEF RuntimeInv, Calling
  <2>q. QED
    BY <1>1, <1>2, <2>1, <2>2, <2>4, <2>6, <2>7, <2>8, SameRoot, RuntimeStep
<1>q. QED
  BY <1>3, <1>4, <1>5

LEMMA FinishLoadStep ==
    ASSUME RuntimeInv, NEW c \in Callers, NEW ok \in BOOLEAN, FinishLoad(c, ok)
    PROVE  RuntimeInv'
<1>1. /\ call[c].at = "loading" /\ call[c].at # "rest" /\ RootUnchanged
  BY DEF FinishLoad
<1>2. /\ emb.state = "LOADING" /\ emb.state # "none" /\ emb \in Embedders /\ call[c] \in CallRecords
      /\ Calling(c, call[c]) /\ emb.lock = c /\ emb.loads <= 1
  BY <1>1, CallerFacts DEF Calling, RuntimeInv, Loading
<1>3. \A d \in Callers \ {c} : call[d].at # "loading"
  BY <1>2 DEF RuntimeInv, Calling
<1>4. CASE ok
  <2>. PICK k : k = [call[c] EXCEPT !.at = "execute"]
    OBVIOUS
  <2>. PICK e : e = [emb EXCEPT !.state = "READY", !.backend = TRUE, !.model = TRUE, !.lock = "free"]
    OBVIOUS
  <2>1. call' = [call EXCEPT ![c] = k] /\ emb' = e
    BY <1>4 DEF FinishLoad
  <2>2. k \in CallRecords /\ k.at = "execute" /\ k.kind = call[c].kind /\ k.work = call[c].work
    BY <1>1, <1>2, CallMoved DEF CallSteps
  <2>3. /\ e \in Embedders /\ e.state = "READY" /\ e.loads = emb.loads /\ e.backend /\ e.cuda = emb.cuda
        /\ e.rep = emb.rep /\ e.instance = emb.instance /\ e.batch = emb.batch
    BY <1>2 DEF Embedders
  <2>4. SameEmbedder(emb') /\ Loading'
    BY <1>2, <2>1, <2>3 DEF SameEmbedder, Loading
  <2>5. Calling(c, k)' /\ Learnt(k)'
    BY <1>1, <1>2, <2>1, <2>2, <2>3 DEF Calling, Learnt
  <2>q. QED
    BY <1>1, <1>2, <1>3, <2>1, <2>2, <2>3, <2>4, <2>5, SameRoot, RuntimeStep
<1>5. CASE ~ok
  <2>. PICK k : k = NoCall
    OBVIOUS
  <2>. PICK e : e = [emb EXCEPT !.state = "FAILED", !.kind = "INITIALIZATION", !.backend = FALSE, !.lock = "free"]
    OBVIOUS
  <2>1. call' = [call EXCEPT ![c] = k] /\ emb' = e
    BY <1>5 DEF FinishLoad
  <2>2. /\ e \in Embedders /\ e.state = "FAILED" /\ e.loads = emb.loads /\ e.cuda = emb.cuda
        /\ e.rep = emb.rep /\ e.instance = emb.instance /\ e.batch = emb.batch
    BY <1>2 DEF Embedders
  <2>3. SameEmbedder(emb') /\ Loading'
    BY <1>2, <2>1, <2>2 DEF SameEmbedder, Loading
  <2>4. k \in CallRecords /\ Calling(c, k)' /\ Learnt(k)'
    BY NoCallFields DEF Calling, Learnt
  <2>q. QED
    BY <1>1, <1>2, <1>3, <2>1, <2>2, <2>3, <2>4, SameRoot, RuntimeStep
<1>q. QED
  BY <1>4, <1>5

\* A step of a running call that touches the model or the batch only.
LEMMA WorkStep ==
    ASSUME RuntimeInv, NEW c \in Callers, call[c].at # "rest", NEW k \in CallRecords,
           call' = [call EXCEPT ![c] = k], RootUnchanged, NEW b \in BOOLEAN, NEW n \in Positive,
           emb' = [emb EXCEPT !.model = b, !.batch = n], n = emb.batch \/ c \in DocumentCallers,
           k.at # "loading",
           (k.at # "rest" =>
              /\ k.kind = "documents" => c \in DocumentCallers
              /\ k.work.ladder # <<>> => k.kind = "documents" /\ k.at \notin {"waiting", "loading"}
              /\ Attempted(k.work)
              /\ k.work.next # 0 /\ emb.cuda => \A x \in k.work.batches : Bounded(k.work, x)
              /\ k.at = "answered" => k.work.next = Len(k.work.tokens) + 1),
           OneDocumentCaller /\ k.at = "execute" /\ k.work.ladder # <<>> => n = k.work.ladder[k.work.attempt + 1]
    PROVE  RuntimeInv'
<1>1. emb.state # "none" /\ emb \in Embedders
  BY CallerFacts
<1>2. PICK e : e = [emb EXCEPT !.model = b, !.batch = n]
  OBVIOUS
<1>3. /\ e \in Embedders /\ e.state = emb.state /\ e.lock = emb.lock /\ e.loads = emb.loads /\ e.backend = emb.backend
      /\ e.cuda = emb.cuda /\ e.rep = emb.rep /\ e.instance = emb.instance /\ e.batch = n
  BY <1>1, <1>2 DEF Embedders
<1>4. emb' = e
  BY <1>2
<1>5. SameEmbedder(emb') /\ Loading'
  BY <1>1, <1>3, <1>4 DEF SameEmbedder, Loading, RuntimeInv
<1>6. Calling(c, k)' /\ Learnt(k)'
  BY <1>1, <1>3, <1>4 DEF Calling, Learnt
<1>7. \A d \in Callers \ {c} : call[d].at = "loading" => emb'.lock = d /\ emb'.state = "LOADING"
  BY <1>3, <1>4 DEF RuntimeInv, Calling
<1>q. QED
  BY <1>1, <1>3, <1>4, <1>5, <1>6, <1>7, SameRoot, RuntimeStep

\* Fields of an embedder that is left as it is, as WorkStep wants them.
LEMMA SameModel ==
    ASSUME NEW e \in Embedders
    PROVE  /\ e = [e EXCEPT !.model = e.model, !.batch = e.batch]
           /\ \A b \in BOOLEAN : [e EXCEPT !.model = b] = [e EXCEPT !.model = b, !.batch = e.batch]
           /\ \A n \in Positive : [e EXCEPT !.batch = n] = [e EXCEPT !.model = e.model, !.batch = n]
           /\ e.model \in BOOLEAN /\ e.batch \in Positive
  BY DEF Embedders
LEMMA StartDocumentsStep ==
    ASSUME RuntimeInv, NEW c \in Callers, StartDocuments(c)
    PROVE  RuntimeInv'
<1>1. /\ call[c].at = "execute" /\ call[c].at # "rest" /\ call[c].kind = "documents" /\ call[c].work.ladder = <<>>
      /\ RootUnchanged
  BY DEF StartDocuments
<1>2. /\ emb.state # "none" /\ emb \in Embedders /\ call[c] \in CallRecords /\ Calling(c, call[c])
      /\ c \in DocumentCallers
  BY <1>1, CallerFacts DEF Calling
<1>3. /\ call[c].work \in Works /\ call[c].work.next = 0 /\ call[c].work.attempt = 0
  BY <1>1, <1>2, CallFields DEF Calling, Attempted
<1>. PICK ladder : ladder = LadderFromHere
  OBVIOUS
<1>4. /\ ladder \in Seq(Positive) /\ ladder # <<>> /\ 0 < Len(ladder) /\ ladder[1] = emb.batch /\ Falling(ladder)
  BY <1>2, LadderFields
<1>w. PICK w : w = [call[c].work EXCEPT !.ladder = ladder]
  OBVIOUS
<1>5. w \in Works /\ w.ladder = ladder /\ w.next = 0 /\ w.attempt = 0
  BY <1>w, <1>3, <1>4 DEF Works
<1>k. PICK k : k = [call[c] EXCEPT !.work = w]
  OBVIOUS
<1>6. k \in CallRecords /\ k.at = "execute" /\ k.kind = "documents" /\ k.work = w
  BY <1>k, <1>1, <1>2, <1>5, CallWorks
<1>7. call' = [call EXCEPT ![c] = k]
  BY <1>w, <1>k DEF StartDocuments
<1>n. PICK n : n = emb.batch
  OBVIOUS
<1>8. emb' = [emb EXCEPT !.model = TRUE, !.batch = n] /\ n \in Positive
  BY <1>2, <1>n, SameModel DEF StartDocuments
<1>9. Attempted(w)
  BY <1>4, <1>5 DEF Attempted
<1>10. w.ladder[w.attempt + 1] = n
  BY <1>4, <1>5, <1>n
<1>11. /\ k.kind = "documents" => c \in DocumentCallers
       /\ k.work.ladder # <<>> => k.kind = "documents" /\ k.at \notin {"waiting", "loading"}
       /\ Attempted(k.work)
       /\ k.work.next # 0 /\ emb.cuda => \A x \in k.work.batches : Bounded(k.work, x)
       /\ k.at = "answered" => k.work.next = Len(k.work.tokens) + 1
  BY <1>2, <1>5, <1>6, <1>9
<1>12. n = k.work.ladder[k.work.attempt + 1] /\ k.at # "loading"
  BY <1>6, <1>10
<1>q. QED
  BY <1>1, <1>2, <1>6, <1>7, <1>8, <1>n, <1>11, <1>12, WorkStep

\* The batch size of an attempt is one of its ladder.
LEMMA LimitFields ==
    ASSUME NEW w \in Works, w.attempt < Len(w.ladder)
    PROVE  w.ladder[w.attempt + 1] \in Positive
<1>1. w.ladder \in Seq(Positive) /\ w.attempt \in Nat
  BY DEF Works
<1>2. w.attempt + 1 \in 1..Len(w.ladder)
  BY <1>1, LenProperties
<1>q. QED
  BY <1>1, <1>2, ElementOfSeq

LEMMA StartAttemptStep ==
    ASSUME RuntimeInv, NEW c \in Callers, StartAttempt(c)
    PROVE  /\ RuntimeInv' /\ emb'.state = emb.state /\ emb'.kind = emb.kind /\ emb'.loads = emb.loads
           /\ OneDocumentCaller => emb'.batch = emb.batch
<1>1. /\ call[c].at = "execute" /\ call[c].at # "rest" /\ call[c].work.ladder # <<>> /\ RootUnchanged
      /\ emb' = [emb EXCEPT !.batch = call[c].work.ladder[call[c].work.attempt + 1]]
  BY DEF StartAttempt
<1>2. /\ emb.state # "none" /\ emb \in Embedders /\ call[c] \in CallRecords /\ Calling(c, call[c]) /\ Learnt(call[c])
      /\ call[c].kind = "documents" /\ c \in DocumentCallers
  BY <1>1, CallerFacts DEF Calling
<1>3. /\ call[c].work \in Works /\ call[c].work.attempt < Len(call[c].work.ladder) /\ Falling(call[c].work.ladder)
      /\ call[c].work.tokens \in Seq(Nat) /\ Len(call[c].work.tokens) \in Nat
  BY <1>1, <1>2, CallFields DEF Calling, Attempted
<1>n. PICK n : n = call[c].work.ladder[call[c].work.attempt + 1]
  OBVIOUS
<1>4. n \in Positive
  BY <1>3, <1>n, LimitFields
<1>m. PICK model : model = emb.model
  OBVIOUS
<1>5. emb' = [emb EXCEPT !.model = model, !.batch = n] /\ model \in BOOLEAN
  BY <1>1, <1>2, <1>4, <1>n, <1>m, SameModel
<1>w. PICK w : w = [call[c].work EXCEPT !.next = 1, !.vectors = <<>>, !.batches = {}]
  OBVIOUS
<1>6. /\ w \in Works /\ w.ladder = call[c].work.ladder /\ w.next = 1 /\ w.attempt = call[c].work.attempt
      /\ w.batches = {} /\ w.vectors = <<>> /\ w.tokens = call[c].work.tokens
  BY <1>3, <1>w, EmptySeq DEF Works
<1>k. PICK k : k = [call[c] EXCEPT !.work = w]
  OBVIOUS
<1>7. k \in CallRecords /\ k.at = "execute" /\ k.kind = "documents" /\ k.work = w
  BY <1>1, <1>2, <1>6, <1>k, CallWorks
<1>8. call' = [call EXCEPT ![c] = k]
  BY <1>w, <1>k DEF StartAttempt, FreshVectors
<1>9. Attempted(w)
  BY <1>1, <1>3, <1>6, EmptySeq DEF Attempted
<1>10. w.ladder[w.attempt + 1] = n
  BY <1>6, <1>n
<1>11. RuntimeInv'
  <2>1. /\ k.kind = "documents" => c \in DocumentCallers
        /\ k.work.ladder # <<>> => k.kind = "documents" /\ k.at \notin {"waiting", "loading"}
        /\ Attempted(k.work)
        /\ k.work.next # 0 /\ emb.cuda => \A x \in k.work.batches : Bounded(k.work, x)
        /\ k.at = "answered" => k.work.next = Len(k.work.tokens) + 1
    BY <1>2, <1>6, <1>7, <1>9
  <2>2. n = k.work.ladder[k.work.attempt + 1] /\ k.at # "loading"
    BY <1>7, <1>10
  <2>q. QED
    BY <1>1, <1>2, <1>4, <1>5, <1>7, <1>8, <2>1, <2>2, WorkStep
<1>12. emb'.state = emb.state /\ emb'.kind = emb.kind /\ emb'.loads = emb.loads /\ emb'.batch = n
  BY <1>2, <1>5 DEF Embedders
<1>13. OneDocumentCaller => n = emb.batch
  BY <1>1, <1>2, <1>n DEF Learnt
<1>q. QED
  BY <1>11, <1>12, <1>13

LEMMA BatchIsBounded ==
    ASSUME NEW w \in Works, w.ladder # <<>>, w.attempt < Len(w.ladder), w.next \in 1..Len(w.tokens)
    PROVE  LET last == Partition(w.tokens, w.ladder[w.attempt + 1], w.next) IN
           last \in w.next..Len(w.tokens) /\ Bounded(w, <<w.next, last>>)
<1>. PICK limit : limit = w.ladder[w.attempt + 1]
  OBVIOUS
<1>. PICK last : last = Partition(w.tokens, limit, w.next)
  OBVIOUS
<1>1. /\ w.tokens \in Seq(Nat) /\ w.ladder \in Seq(Positive) /\ w.attempt \in Nat /\ w.next \in Nat
  BY DEF Works
<1>2. limit \in Positive
  BY LimitFields
<1>3. last \in w.next..Len(w.tokens) /\ (last = w.next \/ Fits(w.tokens, limit, w.next, last))
  BY <1>1, PartitionFields
<1>4. last = w.next => SizeOf(w.next, last) <= limit
  BY <1>1, <1>2 DEF SizeOf, Positive
<1>5. Bounded(w, <<w.next, last>>)
  BY <1>3, <1>4 DEF Bounded, Fits
<1>q. QED
  BY <1>3, <1>5

LEMMA MoreVectors ==
    ASSUME NEW vectors \in Seq(Nat), \A i \in 1..Len(vectors) : vectors[i] = i,
           NEW n \in Nat, n = Len(vectors) + 1, NEW m \in Nat, NEW s,
           s = [i \in 1..m |-> n + i - 1], NEW more, more = vectors \o s
    PROVE  more \in Seq(Nat) /\ Len(more) = Len(vectors) + m /\ \A i \in 1..Len(more) : more[i] = i
<1>1. Len(vectors) \in Nat
  BY LenProperties
<1>2. s \in Seq(Nat) /\ Len(s) = m /\ \A i \in 1..m : s[i] = n + i - 1
  BY <1>1, IsASeq
<1>3. /\ vectors \o s \in Seq(Nat) /\ Len(vectors \o s) = Len(vectors) + m
      /\ \A i \in 1..(Len(vectors) + m) : (vectors \o s)[i] = IF i <= Len(vectors) THEN vectors[i] ELSE s[i - Len(vectors)]
  BY <1>2, ConcatProperties
<1>4. \A i \in 1..(Len(vectors) + m) : (vectors \o s)[i] = i
  <2>. SUFFICES ASSUME NEW i \in 1..(Len(vectors) + m) PROVE (vectors \o s)[i] = i
    OBVIOUS
  <2>1. CASE i <= Len(vectors)
    BY <1>1, <1>3, <2>1
  <2>2. CASE ~(i <= Len(vectors))
    <3>1. i - Len(vectors) \in 1..m
      BY <1>1, <2>2
    <3>q. QED
      BY <1>1, <1>2, <1>3, <2>2, <3>1
  <2>q. QED
    BY <2>1, <2>2
<1>q. QED
  BY <1>3, <1>4

LEMMA EncodeBatchStep ==
    ASSUME RuntimeInv, NEW c \in Callers, EncodeBatch(c)
    PROVE  RuntimeInv'
<1>a. PICK old : old = call[c].work
  OBVIOUS
<1>1. /\ call[c].at = "execute" /\ call[c].at # "rest" /\ old.next \in 1..Len(old.tokens)
      /\ RootUnchanged /\ emb' = emb
  BY <1>a DEF EncodeBatch
<1>2. /\ emb.state # "none" /\ emb \in Embedders /\ call[c] \in CallRecords /\ Calling(c, call[c]) /\ Learnt(call[c])
  BY <1>1, CallerFacts
<1>3. /\ old \in Works /\ old.tokens \in Seq(Nat) /\ Len(old.tokens) \in Nat /\ old.next \in Nat /\ old.vectors \in Seq(Nat)
      /\ old.batches \in SUBSET (Nat \X Nat)
  BY <1>a, <1>1, <1>2, CallFields
<1>4. /\ old.next # 0 /\ old.ladder # <<>> /\ old.attempt < Len(old.ladder)
      /\ Len(old.vectors) = old.next - 1 /\ \A i \in 1..Len(old.vectors) : old.vectors[i] = i
      /\ (emb.cuda => \A b \in old.batches : Bounded(old, b)) /\ Attempted(old)
  BY <1>a, <1>1, <1>2, <1>3 DEF Calling, Attempted
<1>t. PICK last : last = LastText(old)
  OBVIOUS
<1>5. last \in old.next..Len(old.tokens) /\ (emb.cuda => Bounded(old, <<old.next, last>>))
  <2>1. CASE emb.cuda
    BY <1>1, <1>3, <1>4, <2>1, <1>t, BatchIsBounded DEF LastText
  <2>2. CASE ~emb.cuda
    BY <1>t, <1>1, <1>3, <2>2 DEF LastText
  <2>q. QED
    BY <2>1, <2>2
<1>m. PICK m : m = SizeOf(old.next, last)
  OBVIOUS
<1>6. m \in Nat /\ old.next - 1 + m = last /\ last \in Nat /\ last + 1 \in Nat /\ last + 1 # 0
  BY <1>m, <1>3, <1>5 DEF SizeOf
<1>o. PICK more : more = old.vectors \o [i \in 1..m |-> old.next + i - 1]
  OBVIOUS
<1>7. more \in Seq(Nat) /\ Len(more) = last /\ \A i \in 1..Len(more) : more[i] = i
  <2>1. old.next = Len(old.vectors) + 1
    BY <1>3, <1>4
  <2>v. PICK vectors : vectors = old.vectors
    OBVIOUS
  <2>n. PICK n : n = old.next
    OBVIOUS
  <2>s. PICK s : s = [i \in 1..m |-> n + i - 1]
    OBVIOUS
  <2>a. vectors \in Seq(Nat) /\ n \in Nat /\ n = Len(vectors) + 1 /\ m \in Nat
    BY <2>v, <2>n, <1>3, <1>6, <2>1
  <2>b. \A i \in 1..Len(vectors) : vectors[i] = i
    BY <2>v, <1>4
  <2>c. more = vectors \o s
    BY <2>v, <2>n, <2>s, <1>o
  <2>d. more \in Seq(Nat) /\ Len(more) = Len(vectors) + m /\ \A i \in 1..Len(more) : more[i] = i
    BY <2>a, <2>b, <2>c, <2>s, MoreVectors
  <2>2. more \in Seq(Nat) /\ Len(more) = Len(old.vectors) + m /\ \A i \in 1..Len(more) : more[i] = i
    BY <2>v, <2>d
  <2>q. QED
    BY <1>4, <1>6, <2>2
<1>w. PICK w : w = [old EXCEPT !.next = last + 1, !.batches = old.batches \cup {<<old.next, last>>}, !.vectors = more]
  OBVIOUS
<1>8. /\ w \in Works /\ w.ladder = old.ladder /\ w.next = last + 1 /\ w.attempt = old.attempt /\ w.tokens = old.tokens
      /\ w.batches = old.batches \cup {<<old.next, last>>} /\ w.vectors = more
  <2>1. old.batches \cup {<<old.next, last>>} \in SUBSET (Nat \X Nat)
    BY <1>3, <1>6
  <2>q. QED
    BY <1>w, <1>3, <1>6, <1>7, <2>1 DEF Works
<1>k. PICK k : k = [call[c] EXCEPT !.work = w]
  OBVIOUS
<1>9. k \in CallRecords /\ k.at = "execute" /\ k.kind = call[c].kind /\ k.work = w
  BY <1>k, <1>1, <1>2, <1>8, CallWorks
<1>10. call' = [call EXCEPT ![c] = k]
  BY <1>a, <1>t, <1>m, <1>o, <1>w, <1>k DEF EncodeBatch
<1>11. Attempted(w)
  <2>1. last + 1 <= Len(old.tokens) + 1 /\ last = last + 1 - 1
    BY <1>3, <1>5, <1>6
  <2>2. w.next <= Len(w.tokens) + 1 /\ Len(w.vectors) = w.next - 1 /\ \A i \in 1..Len(w.vectors) : w.vectors[i] = i
    BY <1>7, <1>8, <2>1
  <2>3. w.ladder # <<>> /\ w.attempt < Len(w.ladder) /\ Falling(w.ladder)
    BY <1>4, <1>8 DEF Attempted
  <2>q. QED
    BY <2>2, <2>3 DEF Attempted
<1>12. emb.cuda => \A b \in w.batches : Bounded(w, b)
  BY <1>4, <1>5, <1>8 DEF Bounded
<1>13. Calling(c, k) /\ Learnt(k)
  <2>1. k.kind = "documents" => c \in DocumentCallers
    BY <1>1, <1>2, <1>9 DEF Calling
  <2>2. k.kind = "documents"
    BY <1>a, <1>1, <1>2, <1>4, <1>9 DEF Calling
  <2>3. Calling(c, k)
    BY <1>2, <1>9, <1>11, <1>12, <2>1, <2>2 DEF Calling
  <2>4. Learnt(k)
    BY <1>a, <1>1, <1>2, <1>4, <1>8, <1>9 DEF Learnt
  <2>q. QED
    BY <2>3, <2>4
<1>q. QED
  BY <1>1, <1>2, <1>9, <1>10, <1>13, CallStep

\* The next smaller batch of a ladder.
LEMMA SmallerBatch ==
    ASSUME NEW w \in Works, Attempted(w), w.ladder # <<>>, w.attempt + 1 < Len(w.ladder)
    PROVE  w.ladder[w.attempt + 2] \in Positive /\ w.ladder[w.attempt + 2] < w.ladder[w.attempt + 1]
<1>1. w.ladder \in Seq(Positive) /\ w.attempt \in Nat
  BY DEF Works
<1>2. w.attempt + 1 \in DOMAIN w.ladder /\ w.attempt + 2 \in DOMAIN w.ladder
  BY <1>1, LenProperties
<1>3. w.attempt + 2 \in 1..Len(w.ladder)
  BY <1>1, <1>2, LenProperties
<1>q. QED
  BY <1>1, <1>2, <1>3, ElementOfSeq DEF Attempted, Falling

LEMMA OutOfMemoryStep ==
    ASSUME RuntimeInv, NEW c \in Callers, BatchOutOfMemory(c)
    PROVE  /\ RuntimeInv' /\ emb'.state = emb.state /\ emb'.kind = emb.kind /\ emb'.loads = emb.loads
           /\ OneDocumentCaller => emb'.batch <= emb.batch
<1>. PICK old : old = call[c].work
  OBVIOUS
<1>1. /\ call[c].at = "execute" /\ call[c].at # "rest" /\ old.next \in 1..Len(old.tokens) /\ RootUnchanged
  BY DEF BatchOutOfMemory
<1>2. /\ emb.state # "none" /\ emb \in Embedders /\ call[c] \in CallRecords /\ Calling(c, call[c]) /\ Learnt(call[c])
      /\ emb.batch \in Positive
  BY <1>1, CallerFacts, SameModel
<1>3. /\ old \in Works /\ old.tokens \in Seq(Nat) /\ Len(old.tokens) \in Nat /\ old.next \in Nat /\ old.attempt \in Nat
  BY <1>1, <1>2, CallFields
<1>4. /\ old.next # 0 /\ old.ladder # <<>> /\ Attempted(old) /\ call[c].kind = "documents" /\ c \in DocumentCallers
      /\ OneDocumentCaller => emb.batch = old.ladder[old.attempt + 1]
  BY <1>1, <1>2, <1>3 DEF Calling, Attempted, Learnt
<1>5. CASE old.attempt + 1 < Len(old.ladder)
  <2>n. PICK n : n = old.ladder[old.attempt + 2]
    OBVIOUS
  <2>1. n \in Positive /\ (OneDocumentCaller => n < emb.batch)
    BY <2>n, <1>3, <1>4, <1>5, SmallerBatch
  <2>w. PICK w : w = [old EXCEPT !.attempt = old.attempt + 1, !.next = 0]
    OBVIOUS
  <2>2. w \in Works /\ w.ladder = old.ladder /\ w.next = 0 /\ w.attempt = old.attempt + 1
    <3>1. old.attempt + 1 \in Nat
      BY <1>3
    <3>q. QED
      BY <2>w, <1>3, <3>1 DEF Works
  <2>k. PICK k : k = [call[c] EXCEPT !.work = w]
    OBVIOUS
  <2>3. k \in CallRecords /\ k.at = "execute" /\ k.kind = "documents" /\ k.work = w
    BY <2>k, <1>1, <1>2, <1>4, <2>2, CallWorks
  <2>4. call' = [call EXCEPT ![c] = k] /\ emb' = [emb EXCEPT !.batch = n]
    BY <1>5, <2>n, <2>w, <2>k DEF BatchOutOfMemory
  <2>5. emb' = [emb EXCEPT !.model = emb.model, !.batch = n] /\ emb.model \in BOOLEAN
    BY <1>2, <2>1, <2>4, SameModel
  <2>6. Attempted(w)
    BY <1>4, <1>5, <2>2 DEF Attempted
  <2>7. w.ladder[w.attempt + 1] = n
    <3>1. old.attempt + 1 + 1 = old.attempt + 2
      BY <1>3
    <3>q. QED
      BY <2>2, <2>n, <3>1
  <2>8. RuntimeInv'
    <3>1. n \in Positive /\ (n = emb.batch \/ c \in DocumentCallers) /\ k.at # "loading"
      BY <1>4, <2>1, <2>3
    <3>2. /\ k.kind = "documents" => c \in DocumentCallers
          /\ k.work.ladder # <<>> => k.kind = "documents" /\ k.at \notin {"waiting", "loading"}
          /\ Attempted(k.work)
          /\ k.work.next # 0 /\ emb.cuda => \A x \in k.work.batches : Bounded(k.work, x)
          /\ k.at = "answered" => k.work.next = Len(k.work.tokens) + 1
      BY <1>4, <2>2, <2>3, <2>6
    <3>3. k.at = "execute" /\ k.work.ladder # <<>> => n = k.work.ladder[k.work.attempt + 1]
      BY <2>3, <2>7
    <3>. PICK model : model = emb.model
      OBVIOUS
    <3>4. emb' = [emb EXCEPT !.model = model, !.batch = n] /\ model \in BOOLEAN
      BY <2>5
    <3>q. QED
      BY <1>1, <2>3, <2>4, <3>1, <3>2, <3>3, <3>4, WorkStep
  <2>9. emb'.batch = n /\ emb'.state = emb.state /\ emb'.kind = emb.kind /\ emb'.loads = emb.loads
    BY <1>2, <2>4 DEF Embedders
  <2>q. QED
    BY <1>2, <2>1, <2>8, <2>9 DEF Positive
<1>6. CASE ~(old.attempt + 1 < Len(old.ladder))
  <2>. PICK k : k = [call[c] EXCEPT !.at = "failing"]
    OBVIOUS
  <2>1. call' = [call EXCEPT ![c] = k] /\ emb' = emb
    BY <1>6 DEF BatchOutOfMemory
  <2>2. k \in CallRecords /\ k.at = "failing" /\ k.kind = call[c].kind /\ k.work = call[c].work
    BY <1>1, <1>2, CallMoved DEF CallSteps
  <2>3. Calling(c, k) /\ Learnt(k)
    BY <1>1, <1>2, <2>2 DEF Calling, Learnt
  <2>4. RuntimeInv'
    BY <1>1, <1>2, <2>1, <2>2, <2>3, CallStep
  <2>q. QED
    BY <1>2, <2>1, <2>4 DEF Positive
<1>q. QED
  BY <1>5, <1>6

\* A step of no call.
LEMMA QuietStep ==
    ASSUME RuntimeInv, emb.state # "none", call' = call, SameEmbedder(emb'), emb'.batch = emb.batch,
           legacy' = legacy, Kept, Loading',
           \A d \in Callers : call[d].at = "loading" => emb'.lock = d /\ emb'.state = "LOADING"
    PROVE  RuntimeInv'
<1>1. emb' \in Embedders /\ emb'.state # "none" /\ emb'.cuda = emb.cuda
  BY SomeEmbedder DEF SameEmbedder
<1>2. call' \in [Callers -> CallRecords] /\ FrozenInstanceStays
  BY DEF RuntimeInv
<1>3. FrozenInstanceStays'
  BY <1>2, FrozenKept
<1>4. ASSUME NEW d \in Callers PROVE Calling(d, call[d])' /\ Learnt(call[d])'
  <2>. PICK k : k = call[d]
    OBVIOUS
  <2>1. Calling(d, k) /\ Learnt(k) /\ call'[d] = k
    BY DEF RuntimeInv
  <2>2. Calling(d, k)'
    BY <1>1, <2>1 DEF Calling
  <2>3. Learnt(k)'
    BY <2>1 DEF Learnt
  <2>q. QED
    BY <2>1, <2>2, <2>3 DEF Calling, Learnt
<1>q. QED
  BY <1>1, <1>2, <1>3, <1>4 DEF RuntimeInv

LEMMA DocumentsDoneStep ==
    ASSUME RuntimeInv, NEW c \in Callers, DocumentsDone(c)
    PROVE  RuntimeInv'
<1>1. /\ call[c].at = "execute" /\ call[c].at # "rest" /\ RootUnchanged /\ emb' = emb
      /\ call[c].work.next = Len(call[c].work.tokens) + 1
  BY DEF DocumentsDone
<1>2. /\ emb.state # "none" /\ call[c] \in CallRecords /\ Calling(c, call[c])
  BY <1>1, CallerFacts
<1>k. PICK k : k = [call[c] EXCEPT !.at = "answered"]
  OBVIOUS
<1>3. k \in CallRecords /\ k.at = "answered" /\ k.kind = call[c].kind /\ k.work = call[c].work
  BY <1>k, <1>1, <1>2, CallMoved DEF CallSteps
<1>4. call' = [call EXCEPT ![c] = k]
  BY <1>k DEF DocumentsDone
<1>5. Calling(c, k) /\ Learnt(k)
  BY <1>1, <1>2, <1>3 DEF Calling, Learnt
<1>q. QED
  BY <1>1, <1>2, <1>3, <1>4, <1>5, CallStep

LEMMA QueryDoneStep ==
    ASSUME RuntimeInv, NEW c \in Callers, QueryDone(c)
    PROVE  RuntimeInv'
<1>1. /\ call[c].at = "execute" /\ call[c].at # "rest" /\ RootUnchanged /\ emb' = [emb EXCEPT !.model = TRUE]
  BY DEF QueryDone
<1>2. emb \in Embedders
  BY <1>1, CallerFacts
<1>n. PICK n : n = emb.batch
  OBVIOUS
<1>3. emb' = [emb EXCEPT !.model = TRUE, !.batch = n] /\ n \in Positive
  BY <1>n, <1>1, <1>2, SameModel
<1>k. PICK k : k = NoCall
  OBVIOUS
<1>4. call' = [call EXCEPT ![c] = k] /\ k \in CallRecords /\ k.at = "rest"
  BY <1>k, NoCallFields DEF QueryDone
<1>q. QED
  BY <1>1, <1>n, <1>3, <1>4, WorkStep

LEMMA ExecutionFailsStep ==
    ASSUME RuntimeInv, NEW c \in Callers, ExecutionFails(c)
    PROVE  RuntimeInv'
<1>1. /\ call[c].at = "execute" /\ call[c].at # "rest" /\ RootUnchanged /\ emb' = emb
  BY DEF ExecutionFails
<1>2. /\ emb.state # "none" /\ call[c] \in CallRecords /\ Calling(c, call[c])
  BY <1>1, CallerFacts
<1>k. PICK k : k = [call[c] EXCEPT !.at = "failing"]
  OBVIOUS
<1>3. k \in CallRecords /\ k.at = "failing" /\ k.kind = call[c].kind /\ k.work = call[c].work
  BY <1>k, <1>1, <1>2, CallMoved DEF CallSteps
<1>4. call' = [call EXCEPT ![c] = k]
  BY <1>k DEF ExecutionFails
<1>5. Calling(c, k) /\ Learnt(k)
  BY <1>1, <1>2, <1>3 DEF Calling, Learnt
<1>q. QED
  BY <1>1, <1>2, <1>3, <1>4, <1>5, CallStep

LEMMA AnswerIsUsedStep ==
    ASSUME RuntimeInv, NEW c \in Callers, AnswerIsUsed(c)
    PROVE  RuntimeInv'
<1>1. call[c].at # "rest" /\ RootUnchanged /\ emb' = emb /\ call' = [call EXCEPT ![c] = NoCall]
  BY DEF AnswerIsUsed
<1>q. QED
  BY <1>1, CallerFacts, EndCall

\* A failed or closed embedder keeps what it served and what went wrong first.
LEMMA DroppedFields ==
    ASSUME emb \in Embedders, NEW state \in {"FAILED", "CLOSED"}, NEW what \in {"none", "INITIALIZATION", "EXECUTION"},
           NEW e, e = [[emb EXCEPT !.backend = FALSE, !.model = FALSE] EXCEPT !.state = state, !.kind = what]
    PROVE  /\ e \in Embedders /\ e.state = state /\ e.kind = what /\ e.loads = emb.loads /\ e.batch = emb.batch
           /\ e.cuda = emb.cuda /\ e.rep = emb.rep /\ e.instance = emb.instance /\ e.lock = emb.lock
  BY DEF Embedders

LEMMA AfterFailureFields ==
    ASSUME emb \in Embedders, ~Refuses, NEW e, e = AfterFailure
    PROVE  /\ e \in Embedders /\ e.state = "FAILED" /\ e.loads = emb.loads /\ e.batch = emb.batch
           /\ e.cuda = emb.cuda /\ e.rep = emb.rep /\ e.instance = emb.instance /\ e.lock = emb.lock
<1>1. e = [[emb EXCEPT !.backend = FALSE, !.model = FALSE] EXCEPT !.state = "FAILED", !.kind = "EXECUTION"]
  BY DEF AfterFailure, Dropped
<1>q. QED
  BY <1>1, DroppedFields

LEMMA ClosedFields ==
    ASSUME emb \in Embedders, NEW e, e = [Dropped EXCEPT !.state = "CLOSED"]
    PROVE  /\ e \in Embedders /\ e.state = "CLOSED" /\ e.kind = emb.kind /\ e.loads = emb.loads /\ e.batch = emb.batch
           /\ e.cuda = emb.cuda /\ e.rep = emb.rep /\ e.instance = emb.instance /\ e.lock = emb.lock
  BY DEF Embedders, Dropped

LEMMA MarkFailedStep ==
    ASSUME RuntimeInv, NEW c \in Callers, MarkFailed(c)
    PROVE  RuntimeInv'
<1>1. /\ call[c].at = "failing" /\ call[c].at # "rest" /\ emb.lock = "free" /\ RootUnchanged /\ emb' = AfterFailure
      /\ call' = [call EXCEPT ![c] = NoCall]
  BY DEF MarkFailed
<1>2. emb.state # "none" /\ emb \in Embedders
  BY <1>1, CallerFacts
<1>3. CASE Refuses
  BY <1>1, <1>2, <1>3, EndCall DEF AfterFailure
<1>4. CASE ~Refuses
  <2>e. PICK e : e = AfterFailure
    OBVIOUS
  <2>1. /\ e \in Embedders /\ e.state = "FAILED" /\ e.loads = emb.loads /\ e.batch = emb.batch
        /\ e.cuda = emb.cuda /\ e.rep = emb.rep /\ e.instance = emb.instance
    BY <1>2, <1>4, <2>e, AfterFailureFields
  <2>2. emb' = e
    BY <1>1, <2>e
  <2>3. emb.loads <= 1
    BY <1>2 DEF RuntimeInv, Loading
  <2>4. SameEmbedder(emb') /\ Loading'
    BY <2>1, <2>2, <2>3 DEF SameEmbedder, Loading
  <2>k. PICK k : k = NoCall
    OBVIOUS
  <2>5. call' = [call EXCEPT ![c] = k] /\ k \in CallRecords /\ Calling(c, k)' /\ Learnt(k)'
    BY <1>1, <2>k, NoCallFields DEF Calling, Learnt
  <2>6. \A d \in Callers : call[d].at # "loading"
    BY <1>1, RuntimeAssumption DEF RuntimeInv, Calling
  <2>q. QED
    BY <1>1, <1>2, <2>1, <2>2, <2>4, <2>5, <2>6, SameRoot, RuntimeStep
<1>q. QED
  BY <1>3, <1>4

LEMMA CloseStep ==
    ASSUME RuntimeInv, CloseEmbedder
    PROVE  RuntimeInv'
<1>1. /\ emb.state # "none" /\ emb.lock = "free" /\ RootUnchanged /\ call' = call /\ emb' = [Dropped EXCEPT !.state = "CLOSED"]
  BY DEF CloseEmbedder
<1>2. emb \in Embedders /\ emb.loads <= 1
  BY <1>1, EmbedderFields DEF RuntimeInv, Loading
<1>e. PICK e : e = [Dropped EXCEPT !.state = "CLOSED"]
  OBVIOUS
<1>3. /\ e \in Embedders /\ e.state = "CLOSED" /\ e.loads = emb.loads /\ e.batch = emb.batch
      /\ e.cuda = emb.cuda /\ e.rep = emb.rep /\ e.instance = emb.instance
  BY <1>e, <1>2, ClosedFields
<1>4. emb' = e
  BY <1>1, <1>e
<1>5. SameEmbedder(emb') /\ Loading'
  BY <1>2, <1>3, <1>4 DEF SameEmbedder, Loading
<1>6. \A d \in Callers : call[d].at # "loading"
  BY <1>1, RuntimeAssumption DEF RuntimeInv, Calling
<1>q. QED
  BY <1>1, <1>3, <1>4, <1>5, <1>6, SameRoot, QuietStep

LEMMA RestartStep == ASSUME RuntimeInv, Restart PROVE RuntimeInv'
<1>1. emb' = NoEmbedder /\ call' = [c \in Callers |-> NoCall]
  BY DEF Restart
<1>2. call' \in [Callers -> CallRecords] /\ \A c \in Callers : call'[c] = NoCall
  BY <1>1, NoCallFields
<1>3. Loading' /\ FrozenInstanceStays'
  BY <1>1, NoCallFields DEF Loading, FrozenInstanceStays, NoEmbedder
<1>4. \A c \in Callers : Calling(c, call[c])' /\ Learnt(call[c])'
  BY <1>2, NoCallFields DEF Calling, Learnt
<1>q. QED
  BY <1>1, <1>2, <1>3, <1>4 DEF RuntimeInv

LEMMA MakeStep ==
    ASSUME ProvisionInv, RuntimeInv, NEW device \in {"cpu", "cuda", "auto"}, NEW fp16 \in BOOLEAN, NEW cuda \in BOOLEAN,
           make_embedder(device, fp16, cuda)
    PROVE  RuntimeInv'
<1>p. PICK profile : profile = resolve_profile(device, fp16, cuda)
  OBVIOUS
<1>r. PICK rep : rep = RepresentationOf(profile)
  OBVIOUS
<1>i. PICK instance : instance = InstanceOf(rep)
  OBVIOUS
<1>b. PICK batch : batch = Ladder[1]
  OBVIOUS
<1>1. /\ emb.state = "none" /\ Inspect(rep) = "ready" /\ RootUnchanged /\ call' = call
      /\ emb' = [state |-> "UNLOADED", kind |-> "none", cuda |-> profile = "cuda_fp16_v1",
                 rep |-> rep, instance |-> instance, backend |-> FALSE, model |-> FALSE,
                 loads |-> 0, batch |-> batch, lock |-> "free"]
  BY <1>p, <1>r, <1>i, <1>b DEF make_embedder
<1>2. rep \in Representations
  BY <1>r DEF RepresentationOf, Representations
<1>3. batch \in Positive
  BY <1>b, RuntimeAssumption, ElementOfSeq DEF Positive
<1>4. bundle.ptr \in Pointers
  BY ManifestFields DEF ProvisionInv, ProvisionTypes
<1>5. instance \in Int
  BY <1>2, <1>4, <1>i DEF InstanceOf, ByPointer, Pointers
<1>6. InstanceReadiness(rep, instance) # "absent"
  <2>1. CASE ByPointer(rep)
    BY <1>1, <1>i, <2>1 DEF InstanceOf, Inspect
  <2>2. CASE ~ByPointer(rep)
    <3>1. legacy = "ready" /\ instance = -1
      BY <1>1, <1>i, <2>2 DEF InstanceOf, Inspect
    <3>q. QED
      BY <3>1 DEF InstanceReadiness
  <2>q. QED
    BY <2>1, <2>2
<1>7. emb' \in Embedders
  BY <1>1, <1>2, <1>3, <1>5 DEF Embedders
<1>8. Loading'
  BY <1>1, <1>7 DEF Loading
<1>9. FrozenInstanceStays'
  <2>1. InstanceReadiness(rep, instance)' = InstanceReadiness(rep, instance)
    BY <1>1 DEF RootUnchanged, InstanceReadiness
  <2>2. emb'.rep = rep /\ emb'.instance = instance
    BY <1>1
  <2>3. InstanceReadiness(rep, instance)' # "absent"
    BY <1>6, <2>1
  <2>q. QED
    BY <2>2, <2>3 DEF FrozenInstanceStays
<1>10. \A c \in Callers : call[c].at = "rest"
  BY <1>1 DEF RuntimeInv, Calling
<1>11. \A c \in Callers : Calling(c, call[c])' /\ Learnt(call[c])'
  BY <1>1, <1>10 DEF Calling, Learnt
<1>q. QED
  BY <1>1, <1>7, <1>8, <1>9, <1>11 DEF RuntimeInv

\* Provisioning never removes an instance nor touches the model root itself.
LEMMA InstancesKept == ASSUME ProvisionInv, ProvisionNext PROVE Kept /\ legacy' = legacy
<1>1. ASSUME NEW i \in instances, DamageInstance(i) PROVE Kept /\ legacy' = legacy
  BY <1>1, DamageStep DEF DamageInstance
<1>2. ASSUME NEW w \in Writers, NEW rep \in Representations, InstallInstance(w, rep) PROVE Kept /\ legacy' = legacy
  BY <1>2, InstanceAdded DEF InstallInstance
<1>3. ASSUME NEW w \in Writers,
             \/ \E requested \in (SUBSET Representations) \ {{}}, force, source \in BOOLEAN :
                  BeginTransaction(w, requested, force, source)
             \/ ReplaceBundle(w) \/ SyncBundle(w) \/ ValidateSelection(w) \/ TransactionFails(w)
             \/ RestoreBundle(w) \/ SyncRestored(w) \/ RestoreFails(w)
      PROVE  Kept /\ legacy' = legacy
  <2>1. instances' = instances /\ legacy' = legacy
    BY <1>3 DEF BeginTransaction, ReplaceBundle, SyncBundle, ValidateSelection, TransactionFails, RestoreBundle,
                SyncRestored, RestoreFails
  <2>q. QED
    BY <2>1, SameInstances
<1>4. CASE PowerLoss
  BY <1>4, SameInstances DEF PowerLoss
<1>q. QED
  BY <1>1, <1>2, <1>3, <1>4 DEF ProvisionNext

\* The embedder is left alone, and no instance is taken from it.
LEMMA EmbedderLeft ==
    ASSUME RuntimeInv, UNCHANGED runtimeVars, Kept, legacy' = legacy
    PROVE  RuntimeInv'
<1>1. emb' = emb /\ call' = call
  BY DEF runtimeVars
<1>2. CASE emb.state = "none"
  <2>1. FrozenInstanceStays' /\ Loading'
    BY <1>1, <1>2 DEF FrozenInstanceStays, Loading
  <2>2. \A c \in Callers : call[c].at = "rest"
    BY <1>2 DEF RuntimeInv, Calling
  <2>3. \A c \in Callers : Calling(c, call[c])' /\ Learnt(call[c])'
    BY <1>1, <2>2 DEF Calling, Learnt
  <2>q. QED
    BY <1>1, <2>1, <2>3 DEF RuntimeInv
<1>3. CASE emb.state # "none"
  <2>1. SameEmbedder(emb') /\ Loading'
    BY <1>1, <1>3, EmbedderFields DEF RuntimeInv, SameEmbedder, Loading
  <2>2. \A d \in Callers : call[d].at = "loading" => emb'.lock = d /\ emb'.state = "LOADING"
    BY <1>1 DEF RuntimeInv, Calling
  <2>q. QED
    BY <1>1, <1>3, <2>1, <2>2, QuietStep
<1>q. QED
  BY <1>2, <1>3

LEMMA QueryTokens == <<1>> \in Seq(Nat)
  OBVIOUS

LEMMA EmbedStep ==
    ASSUME ProvisionInv, RuntimeInv, EmbedNext
    PROVE  RuntimeInv'
<1>1. ASSUME NEW device \in {"cpu", "cuda", "auto"}, NEW fp16 \in BOOLEAN, NEW cuda \in BOOLEAN,
             make_embedder(device, fp16, cuda)
      PROVE  RuntimeInv'
  BY <1>1, MakeStep
<1>2. CASE Restart \/ CloseEmbedder
  BY <1>2, RestartStep, CloseStep
<1>3. ASSUME NEW c \in Callers, EnsureReady(c, "query", << 1 >>) PROVE RuntimeInv'
  BY <1>3, QueryTokens, EnsureReadyStep
<1>4. ASSUME NEW c \in Callers, c \in DocumentCallers, NEW tokens \in DocumentSets, EnsureReady(c, "documents", tokens)
      PROVE  RuntimeInv'
  BY <1>4, RuntimeAssumption, EnsureReadyStep
<1>5. ASSUME NEW c \in Callers, TakeInitLock(c) \/ \E ok \in BOOLEAN : FinishLoad(c, ok) PROVE RuntimeInv'
  BY <1>5, TakeLockStep, FinishLoadStep
<1>6. ASSUME NEW c \in Callers,
             \/ StartDocuments(c) \/ StartAttempt(c) \/ EncodeBatch(c) \/ BatchOutOfMemory(c) \/ DocumentsDone(c)
             \/ QueryDone(c) \/ ExecutionFails(c) \/ AnswerIsUsed(c) \/ MarkFailed(c)
      PROVE  RuntimeInv'
  BY <1>6, StartDocumentsStep, StartAttemptStep, EncodeBatchStep, OutOfMemoryStep, DocumentsDoneStep, QueryDoneStep,
     ExecutionFailsStep, AnswerIsUsedStep, MarkFailedStep
<1>q. QED
  BY <1>1, <1>2, <1>3, <1>4, <1>5, <1>6 DEF EmbedNext

\* Every step of the embedder leaves the model root as it is.
LEMMA RootIsLeft == ASSUME EmbedNext PROVE RootUnchanged
<1>1. ASSUME NEW c \in Callers, NEW what, NEW tokens, EnsureReady(c, what, tokens) PROVE RootUnchanged
  BY <1>1 DEF EnsureReady
<1>2. ASSUME NEW c \in Callers,
             \/ TakeInitLock(c) \/ \E ok \in BOOLEAN : FinishLoad(c, ok)
             \/ StartDocuments(c) \/ StartAttempt(c) \/ EncodeBatch(c) \/ BatchOutOfMemory(c) \/ DocumentsDone(c)
             \/ QueryDone(c) \/ ExecutionFails(c) \/ AnswerIsUsed(c) \/ MarkFailed(c)
      PROVE  RootUnchanged
  BY <1>2 DEF TakeInitLock, FinishLoad, StartDocuments, StartAttempt, EncodeBatch, BatchOutOfMemory, DocumentsDone,
     QueryDone, ExecutionFails, AnswerIsUsed, MarkFailed
<1>3. CASE Restart \/ CloseEmbedder \/ \E device \in {"cpu", "cuda", "auto"}, fp16, cuda \in BOOLEAN : make_embedder(device, fp16, cuda)
  BY <1>3 DEF Restart, CloseEmbedder, make_embedder
<1>q. QED
  BY <1>1, <1>2, <1>3 DEF EmbedNext

LEMMA EmbeddingStep ==
    ASSUME EmbeddingInv, [EmbeddingNext]_embeddingVars
    PROVE  EmbeddingInv'
<1>1. ProvisionInv /\ RuntimeInv
  BY DEF EmbeddingInv
<1>2. CASE ProvisionNext /\ UNCHANGED runtimeVars
  BY <1>1, <1>2, ProvisionStep, InstancesKept, EmbedderLeft DEF EmbeddingInv
<1>3. CASE EmbedNext
  <2>1. UNCHANGED provisionVars
    BY <1>3, RootIsLeft DEF RootUnchanged, provisionVars
  <2>q. QED
    BY <1>1, <1>3, <2>1, ProvisionStutters, EmbedStep DEF EmbeddingInv
<1>4. CASE UNCHANGED embeddingVars
  <2>1. UNCHANGED provisionVars /\ UNCHANGED runtimeVars /\ RootUnchanged
    BY <1>4 DEF embeddingVars, provisionVars, runtimeVars, RootUnchanged
  <2>q. QED
    BY <1>1, <2>1, SameRoot, ProvisionStutters, EmbedderLeft DEF EmbeddingInv
<1>q. QED
  BY <1>2, <1>3, <1>4 DEF EmbeddingNext

LEMMA EmbedderStarts ==
    ASSUME emb = NoEmbedder, call = [c \in Callers |-> NoCall]
    PROVE  RuntimeInv
<1>1. call \in [Callers -> CallRecords] /\ \A c \in Callers : call[c] = NoCall
  BY NoCallFields
<1>2. Loading /\ FrozenInstanceStays
  BY NoCallFields DEF Loading, FrozenInstanceStays
<1>3. \A c \in Callers : Calling(c, call[c]) /\ Learnt(call[c])
  BY <1>1, NoCallFields DEF Calling, Learnt
<1>q. QED
  BY <1>1, <1>2, <1>3 DEF RuntimeInv

\* The embedder and the model root it was frozen on: what every call under way
\* knows, whatever is provisioned and whoever else calls (_ensure_ready,
\* embed_documents, _run_transaction).
THEOREM EmbeddingInvariant == EmbeddingSpec => []EmbeddingInv
<1>1. RuntimeInit => EmbeddingInv
  BY ProvisionStarts, EmbedderStarts DEF RuntimeInit, EmbeddingInv, ProvisionInit, Readiness
<1>2. EmbeddingInv /\ [EmbeddingNext]_embeddingVars => EmbeddingInv'
  BY EmbeddingStep
<1>q. QED
  BY <1>1, <1>2, PTL DEF EmbeddingSpec

LEMMA EmbeddingFacts == ASSUME EmbeddingInv PROVE EmbeddingIsSound
<1>1. ProvisionInv /\ RuntimeInv
  BY DEF EmbeddingInv
<1>2. SelectionIsInstalled /\ FrozenInstanceStays
  BY <1>1, SelectionFacts DEF RuntimeInv
<1>3. LoadedOnce
  BY <1>1 DEF RuntimeInv, Loading, LoadedOnce
<1>4. VectorsAreWhole
  <2>. SUFFICES ASSUME NEW c \in Callers, call[c].at = "answered"
                PROVE  call[c].work.vectors = [i \in 1..Len(call[c].work.tokens) |-> i]
    BY DEF VectorsAreWhole
  <2>1. call[c] \in CallRecords /\ Calling(c, call[c]) /\ call[c].at # "rest"
    BY <1>1, CallerFacts
  <2>w. PICK w : w = call[c].work
    OBVIOUS
  <2>2. w.vectors \in Seq(Nat) /\ w.next \in Nat /\ Len(w.tokens) \in Nat
    BY <2>1, <2>w, CallFields
  <2>3. w.next = Len(w.tokens) + 1 /\ w.next # 0 /\ Len(w.vectors) = Len(w.tokens)
        /\ \A i \in 1..Len(w.vectors) : w.vectors[i] = i
    BY <2>1, <2>2, <2>w DEF Calling, Attempted
  <2>4. w.vectors = [i \in 1..Len(w.vectors) |-> w.vectors[i]]
    BY <2>2, LenProperties
  <2>5. w.vectors = [i \in 1..Len(w.tokens) |-> i]
    BY <2>3, <2>4
  <2>q. QED
    BY <2>5, <2>w
<1>5. BatchesAreBounded
  <2>. SUFFICES ASSUME NEW c \in Callers, call[c].at = "execute", emb.cuda, call[c].work.next # 0,
                       NEW b \in call[c].work.batches
                PROVE  Bounded(call[c].work, b)
    BY DEF BatchesAreBounded, Bounded
  <2>1. Calling(c, call[c]) /\ call[c].at # "rest"
    BY <1>1, CallerFacts
  <2>q. QED
    BY <2>1 DEF Calling
<1>q. QED
  BY <1>2, <1>3, <1>4, <1>5 DEF EmbeddingIsSound

\* The embedder serves the installation frozen at its start, loads it once and
\* returns every vector of a call, however often it ran out of memory.
THEOREM EmbeddingHolds == EmbeddingSpec => []EmbeddingIsSound
  BY EmbeddingInvariant, EmbeddingFacts, PTL

\* Only the model changes: the rest of the embedder is as it was.
LEMMA ModelStep ==
    ASSUME emb \in Embedders, emb' = [emb EXCEPT !.model = TRUE]
    PROVE  emb'.state = emb.state /\ emb'.kind = emb.kind /\ emb'.loads = emb.loads /\ emb'.batch = emb.batch
  BY DEF Embedders

\* A call's step: the end of the embedder stays, and the batch does not grow.
LEMMA CallKeepsEnd ==
    ASSUME RuntimeInv, NEW c \in Callers, emb.state # "none",
           \/ \E tokens : EnsureReady(c, "query", tokens) \/ EnsureReady(c, "documents", tokens)
           \/ TakeInitLock(c) \/ \E ok \in BOOLEAN : FinishLoad(c, ok)
           \/ StartDocuments(c) \/ StartAttempt(c) \/ EncodeBatch(c) \/ BatchOutOfMemory(c) \/ DocumentsDone(c)
           \/ QueryDone(c) \/ ExecutionFails(c) \/ AnswerIsUsed(c) \/ MarkFailed(c)
    PROVE  EndIsFinal /\ (OneDocumentCaller => BatchOnlyShrinks)
<1>1. emb \in Embedders /\ emb.batch \in Nat
  BY EmbedderFields DEF RuntimeInv, Positive
<1>2. CASE emb' = emb
  BY <1>1, <1>2 DEF EndIsFinal, BatchOnlyShrinks
<1>3. CASE \E tokens : EnsureReady(c, "query", tokens) \/ EnsureReady(c, "documents", tokens)
  BY <1>2, <1>3 DEF EnsureReady
<1>4. CASE EncodeBatch(c) \/ DocumentsDone(c) \/ ExecutionFails(c) \/ AnswerIsUsed(c)
  BY <1>2, <1>4 DEF EncodeBatch, DocumentsDone, ExecutionFails, AnswerIsUsed
<1>5. CASE StartAttempt(c)
  BY <1>1, <1>5, StartAttemptStep DEF EndIsFinal, BatchOnlyShrinks
<1>6. CASE StartDocuments(c) \/ QueryDone(c)
  <2>1. emb' = [emb EXCEPT !.model = TRUE]
    BY <1>6 DEF StartDocuments, QueryDone
  <2>q. QED
    BY <1>1, <2>1, ModelStep DEF EndIsFinal, BatchOnlyShrinks
<1>7. CASE BatchOutOfMemory(c)
  BY <1>7, OutOfMemoryStep DEF EndIsFinal, BatchOnlyShrinks
<1>8. CASE TakeInitLock(c)
  <2>1. CASE emb' # emb
    <3>1. ~Refuses /\ emb' = [emb EXCEPT !.state = "LOADING", !.loads = emb.loads + 1, !.lock = c]
      BY <1>8, <2>1 DEF TakeInitLock, BeginLoad
    <3>2. emb'.batch = emb.batch
      BY <1>1, <3>1 DEF Embedders
    <3>q. QED
      BY <1>1, <3>1, <3>2 DEF EndIsFinal, BatchOnlyShrinks, Refuses
  <2>q. QED
    BY <1>2, <2>1
<1>9. ASSUME NEW ok \in BOOLEAN, FinishLoad(c, ok) PROVE EndIsFinal /\ BatchOnlyShrinks
  <2>1. emb.state = "LOADING"
    BY <1>9, CallerFacts DEF FinishLoad, Calling
  <2>2. \/ emb' = [emb EXCEPT !.state = "READY", !.backend = TRUE, !.model = TRUE, !.lock = "free"]
        \/ emb' = [emb EXCEPT !.state = "FAILED", !.kind = "INITIALIZATION", !.backend = FALSE, !.lock = "free"]
    BY <1>9 DEF FinishLoad
  <2>3. emb'.batch = emb.batch
    BY <1>1, <2>2 DEF Embedders
  <2>q. QED
    BY <1>1, <2>1, <2>3 DEF EndIsFinal, BatchOnlyShrinks
<1>10. CASE MarkFailed(c)
  <2>1. emb' = AfterFailure
    BY <1>10 DEF MarkFailed
  <2>2. CASE Refuses
    BY <1>2, <2>1, <2>2 DEF AfterFailure
  <2>3. CASE ~Refuses
    <3>1. emb'.batch = emb.batch
      BY <1>1, <2>1, <2>3, AfterFailureFields
    <3>q. QED
      BY <1>1, <2>3, <3>1 DEF EndIsFinal, BatchOnlyShrinks, Refuses
  <2>q. QED
    BY <2>2, <2>3
<1>q. QED
  BY <1>3, <1>4, <1>5, <1>6, <1>7, <1>8, <1>9, <1>10

LEMMA EndIsKept ==
    ASSUME EmbeddingInv, [EmbeddingNext]_embeddingVars
    PROVE  EndIsFinal /\ (OneDocumentCaller => BatchOnlyShrinks)
<1>1. RuntimeInv
  BY DEF EmbeddingInv
<1>2. CASE emb' = emb
  <2>1. emb.state # "none" => emb.batch \in Nat
    BY <1>1, EmbedderFields DEF RuntimeInv, Positive
  <2>q. QED
    BY <1>2, <2>1 DEF EndIsFinal, BatchOnlyShrinks
<1>3. CASE emb.state = "none"
  BY <1>3 DEF EndIsFinal, BatchOnlyShrinks
<1>4. CASE EmbedNext /\ emb.state # "none"
  <2>1. CASE Restart
    <3>1. emb'.state = "none"
      BY <2>1, NoCallFields DEF Restart
    <3>q. QED
      BY <3>1 DEF EndIsFinal, BatchOnlyShrinks
  <2>2. CASE CloseEmbedder
    <3>1. emb \in Embedders /\ emb.batch \in Nat
      BY <1>1, <1>4, EmbedderFields DEF RuntimeInv, Positive
    <3>2. emb' = [Dropped EXCEPT !.state = "CLOSED"]
      BY <2>2 DEF CloseEmbedder
    <3>3. emb'.state = "CLOSED" /\ emb'.kind = emb.kind /\ emb'.loads = emb.loads /\ emb'.batch = emb.batch
      BY <3>1, <3>2, ClosedFields
    <3>q. QED
      BY <3>1, <3>3 DEF EndIsFinal, BatchOnlyShrinks
  <2>3. CASE \E device \in {"cpu", "cuda", "auto"}, fp16, cuda \in BOOLEAN : make_embedder(device, fp16, cuda)
    BY <1>4, <2>3 DEF make_embedder
  <2>4. ASSUME NEW c \in Callers,
               \/ \E tokens : EnsureReady(c, "query", tokens) \/ EnsureReady(c, "documents", tokens)
               \/ TakeInitLock(c) \/ \E ok \in BOOLEAN : FinishLoad(c, ok)
               \/ StartDocuments(c) \/ StartAttempt(c) \/ EncodeBatch(c) \/ BatchOutOfMemory(c) \/ DocumentsDone(c)
               \/ QueryDone(c) \/ ExecutionFails(c) \/ AnswerIsUsed(c) \/ MarkFailed(c)
        PROVE  EndIsFinal /\ (OneDocumentCaller => BatchOnlyShrinks)
    BY <1>1, <1>4, <2>4, CallKeepsEnd
  <2>q. QED
    BY <1>4, <2>1, <2>2, <2>3, <2>4 DEF EmbedNext
<1>q. QED
  BY <1>2, <1>3, <1>4 DEF EmbeddingNext, embeddingVars, runtimeVars

(***************************************************************************)
(* Performance runs.                                                       *)
(***************************************************************************)

StageEnds == {"valid", "failed", "excluded", "not_applicable"}
StageRows == [context : StageEnds, generation : StageEnds, citation : StageEnds]
Slots == [query : ToSet(QueryIds), variant : {"hybrid", "hybrid_rerank", "only"}, warm : BOOLEAN, index : Nat]
Observations == [slot : Slots, ok : BOOLEAN, ranked : BOOLEAN]
LevelCAttempts == [slot : Slots, ok : BOOLEAN, stages : StageRows, usage : Nat, failedAt : Nat, measuredBy : SUBSET Nat]

PerfTypes ==
    /\ kind \in {"14B", "14C", "LevelC"} /\ proxy \in [response : Nat, error : Nat]
    /\ attempts \in Seq(Observations \cup LevelCAttempts)

\* What has been recorded is the beginning of the frozen schedule.
OnSchedule == Len(attempts) <= Len(Schedule) /\ \A i \in DOMAIN attempts : attempts[i].slot = Schedule[i]

\* An attempt as AttemptOwnsItsEvidence and EveryEndIsClassified want it.
Owned(i, a) ==
    /\ a.ok /\ a.stages \in StageRows
    /\ a.usage \in {0, i} /\ a.failedAt \in {0, i} /\ a.measuredBy \subseteq {i}
    /\ a.stages.generation = "failed" => a.failedAt = i

\* A run is completed at the end of the schedule and not before; the runtime
\* is closed and the artifacts are written after that.
CompletedAtEnd ==
    status = "completed" =>
      /\ phase \in {"close", "write", "ended"} /\ Len(attempts) = Len(Schedule)
      /\ kind = "14C" => ~MeasuredFailed /\ assert_paired_quality_coverage

ReportIsLast == "report" \in dir => {"manifest", "aggregate", "preflight", "cases"} \subseteq dir

PerfInv ==
    /\ PerfTypes /\ OnSchedule /\ CompletedAtEnd /\ ReportIsLast
    /\ kind = "LevelC" => \A i \in DOMAIN attempts : Owned(i, attempts[i])

(* --- The frozen schedules --------------------------------------------------------------- *)

LEMMA QueryCount ==
    /\ Len(QueryIds) \in Nat \ {0} /\ Measured + 1 \in Nat \ {0} /\ Measured \in Nat
    /\ \A i \in 1..Len(QueryIds) : QueryIds[i] \in ToSet(QueryIds)
    /\ \A q \in ToSet(QueryIds) : \E i \in 1..Len(QueryIds) : QueryIds[i] = q
<1>. DEFINE W == ToSet(QueryIds)
<1>1. QueryIds \in Seq(W) /\ QueryIds # <<>> /\ Measured \in Nat \ {0}
  BY CampaignAssumption
<1>2. DOMAIN QueryIds = 1..Len(QueryIds)
  <2>. HIDE DEF W
  <2>q. QED
    BY <1>1, LenProperties
<1>3. W = {QueryIds[i] : i \in 1..Len(QueryIds)}
  BY <1>2 DEF ToSet
<1>. HIDE DEF W
<1>4. Len(QueryIds) \in Nat /\ Len(QueryIds) # 0
  BY <1>1, LenProperties, EmptySeq
<1>5. \A i \in 1..Len(QueryIds) : QueryIds[i] \in W
  BY <1>3
<1>6. \A q \in W : \E i \in 1..Len(QueryIds) : QueryIds[i] = q
  BY <1>3
<1>q. QED
  BY <1>1, <1>4, <1>5, <1>6 DEF W

LEMMA DivIs ==
    ASSUME NEW n \in Nat \ {0}, NEW j \in Nat
    PROVE  j \div n \in Nat /\ j % n \in 0..(n - 1) /\ j = n * (j \div n) + (j % n)
  OBVIOUS

LEMMA DivZero ==
    ASSUME NEW n \in Nat \ {0}, NEW j \in Nat
    PROVE  (j \div n = 0) <=> (j < n)
<1>. DEFINE q == j \div n
            r == j % n
<1>1. q \in Nat /\ r \in 0..(n - 1) /\ j = n * q + r
  BY DivIs
<1>. HIDE DEF q, r
<1>2. q # 0 => n * q >= n
  BY <1>1
<1>q. QED
  BY <1>1, <1>2 DEF q

LEMMA DivTimes ==
    ASSUME NEW n \in Nat \ {0}, NEW a \in Nat
    PROVE  (n * a) \div n = a /\ (n * a) % n = 0
<1>. DEFINE j == n * a
            q == j \div n
            r == j % n
<1>1. j \in Nat
  OBVIOUS
<1>2. q \in Nat /\ r \in 0..(n - 1) /\ j = n * q + r
  <2>. HIDE DEF j
  <2>q. QED
    BY <1>1, DivIs
<1>. HIDE DEF q, r
<1>3. n * a = n * q + r
  BY <1>2
<1>4. n * (a - q) = r
  BY <1>2, <1>3
<1>5. a - q <= 0
  <2>. SUFFICES ASSUME a - q >= 1 PROVE FALSE
    BY <1>2
  <2>1. n * (a - q) >= n
    BY <1>2
  <2>q. QED
    BY <1>2, <1>4, <2>1
<1>6. a - q >= 0
  <2>. SUFFICES ASSUME a - q <= -1 PROVE FALSE
    BY <1>2
  <2>1. n * (a - q) <= -n
    BY <1>2
  <2>q. QED
    BY <1>2, <1>4, <2>1
<1>7. a = q
  BY <1>2, <1>5, <1>6
<1>8. n * (a - q) = 0
  BY <1>2, <1>7
<1>q. QED
  BY <1>4, <1>7, <1>8 DEF q, r

LEMMA DivBelow ==
    ASSUME NEW n \in Nat \ {0}, NEW a \in Nat, NEW j \in Nat, j < n * a
    PROVE  j \div n < a
<1>. DEFINE q == j \div n
            r == j % n
<1>1. q \in Nat /\ r \in 0..(n - 1) /\ j = n * q + r
  BY DivIs
<1>. HIDE DEF q, r
<1>2. q - a >= 0 => n * (q - a) >= 0
  BY <1>1
<1>3. n * (q - a) = n * q - n * a
  BY <1>1
<1>q. QED
  BY <1>1, <1>2, <1>3 DEF q

LEMMA SlotFields ==
    ASSUME NEW q \in ToSet(QueryIds), NEW v \in {"hybrid", "hybrid_rerank", "only"}, NEW r \in Nat
    PROVE  /\ Slot(q, v, r) \in Slots /\ Slot(q, v, r).query = q /\ Slot(q, v, r).variant = v
           /\ Slot(q, v, r).warm <=> r = 0
<1>1. (IF r = 0 THEN 0 ELSE r - 1) \in Nat
  OBVIOUS
<1>q. QED
  BY <1>1 DEF Slot, Slots

\* Level C: a warm-up of every query, then the repetitions.
LEMMA RoundRobinFields ==
    /\ Len(RoundRobin) = Len(QueryIds) * (Measured + 1) /\ Len(RoundRobin) \in Nat /\ RoundRobin \in Seq(Slots)
    /\ \A j \in 1..Len(RoundRobin) :
         RoundRobin[j] \in Slots /\ (RoundRobin[j].warm <=> j <= Len(QueryIds))
<1>. DEFINE n == Len(QueryIds)
            all == n * (Measured + 1)
            at(j) == QueryIds[((j - 1) % n) + 1]
            round(j) == (j - 1) \div n
<1>1. n \in Nat \ {0} /\ Measured + 1 \in Nat \ {0} /\ \A i \in 1..n : QueryIds[i] \in ToSet(QueryIds)
  BY QueryCount
<1>2. RoundRobin = [j \in 1..all |-> Slot(at(j), "only", round(j))]
  BY DEF RoundRobin
<1>3. ASSUME NEW j \in 1..all
      PROVE  at(j) \in ToSet(QueryIds) /\ round(j) \in Nat /\ (round(j) = 0 <=> j <= n)
  <2>. DEFINE i == j - 1
              m == i % n
  <2>1. i \in Nat
    BY <1>1, <1>3
  <2>. HIDE DEF n, i
  <2>2. m \in 0..(n - 1) /\ i \div n \in Nat /\ (i \div n = 0 <=> i < n)
    BY <1>1, <2>1, DivIs, DivZero
  <2>3. QueryIds[m + 1] \in ToSet(QueryIds)
    <3>. HIDE DEF m
    <3>q. QED
      BY <1>1, <2>2
  <2>4. (i < n) <=> (j <= n)
    BY <1>1, <2>1 DEF i
  <2>q. QED
    BY <2>2, <2>3, <2>4 DEF i, n
<1>4. all \in Nat
  <2>. HIDE DEF n
  <2>q. QED
    BY <1>1
<1>. HIDE DEF at, round, all, n
<1>5. RoundRobin \in [1..all -> Slots] /\ \A j \in 1..all : RoundRobin[j].warm <=> j <= n
  BY <1>2, <1>3, SlotFields
<1>6. RoundRobin \in Seq(Slots) /\ Len(RoundRobin) = all
  BY <1>4, <1>5, IsASeq, LenProperties
<1>q. QED
  BY <1>4, <1>5, <1>6 DEF all, n

\* 14B and 14C: case by case, every slot that of a query and a variant.
LEMMA PairedFields ==
    ASSUME NEW k \in {"14B", "14C"}
    PROVE  /\ PairedSchedule(k) \in Seq(Slots) /\ Len(PairedSchedule(k)) \in Nat
           /\ \A j \in 1..Len(PairedSchedule(k)) : PairedSchedule(k)[j] \in Slots
           /\ k = "14C" => \A q \in ToSet(QueryIds) : \E j \in 1..Len(PairedSchedule(k)) :
                             PairedSchedule(k)[j].query = q /\ PairedSchedule(k)[j].variant = "hybrid"
<1>. DEFINE nq == Len(QueryIds)
            V == Variants(k)
            n == Len(V)
            runs == Measured + 1
            cases == nq * n
            all == cases * runs
            case(j) == (j - 1) \div runs
            query(c) == QueryIds[(c \div n) + 1]
            variant(c) == V[(c % n) + 1]
            r(j) == (j - 1) % runs
            slot(j) == Slot(query(case(j)), variant(case(j)), r(j))
<1>1. nq \in Nat \ {0} /\ runs \in Nat \ {0} /\ \A i \in 1..nq : QueryIds[i] \in ToSet(QueryIds)
  BY QueryCount
<1>2. n \in {1, 2} /\ \A i \in 1..n : V[i] \in {"hybrid", "hybrid_rerank", "only"}
  BY DEF Variants
<1>3. k = "14C" => n = 2 /\ V[1] = "hybrid"
  BY DEF Variants
<1>4. PairedSchedule(k) = [j \in 1..all |-> slot(j)]
  BY DEF PairedSchedule
<1>5. cases \in Nat /\ all \in Nat
  <2>. HIDE DEF nq, n, runs
  <2>1. cases \in Nat
    BY <1>1, <1>2
  <2>q. QED
    BY <1>1, <2>1
<1>6. ASSUME NEW c \in Nat, c < cases
      PROVE  query(c) \in ToSet(QueryIds) /\ variant(c) \in {"hybrid", "hybrid_rerank", "only"}
  <2>. HIDE DEF nq, n, V
  <2>1. n \in Nat \ {0} /\ c < n * nq
    BY <1>1, <1>2, <1>6
  <2>2. c \div n \in Nat /\ c \div n < nq /\ c % n \in 0..(n - 1)
    BY <1>1, <2>1, DivIs, DivBelow
  <2>3. (c \div n) + 1 \in 1..nq /\ (c % n) + 1 \in 1..n
    BY <1>1, <2>1, <2>2
  <2>q. QED
    BY <1>1, <1>2, <2>3
<1>7. ASSUME NEW j \in 1..all
      PROVE  slot(j) \in Slots /\ slot(j).query = query(case(j)) /\ slot(j).variant = variant(case(j))
  <2>. DEFINE i == j - 1
  <2>1. i \in Nat /\ i < runs * cases
    <3>. HIDE DEF cases, runs
    <3>1. all = runs * cases
      BY <1>1, <1>5
    <3>2. j \in Nat /\ j - 1 \in Nat /\ j <= all
      BY <1>5
    <3>3. j - 1 < all
      <4>. HIDE DEF all
      <4>q. QED
        BY <1>5, <3>2
    <3>. HIDE DEF all
    <3>4. i \in Nat /\ i < all
      BY <3>2, <3>3
    <3>q. QED
      BY <3>1, <3>4
  <2>. HIDE DEF i, cases, runs
  <2>2. i \div runs \in Nat /\ i \div runs < cases /\ i % runs \in Nat
    <3>1. runs \in Nat \ {0} /\ cases \in Nat
      BY <1>1, <1>5
    <3>2. i \div runs < cases
      BY <2>1, <3>1, DivBelow
    <3>3. i \div runs \in Nat /\ i % runs \in 0..(runs - 1)
      BY <2>1, <3>1, DivIs
    <3>q. QED
      BY <3>1, <3>2, <3>3
  <2>. HIDE DEF query, variant
  <2>3. query(i \div runs) \in ToSet(QueryIds) /\ variant(i \div runs) \in {"hybrid", "hybrid_rerank", "only"}
    BY <1>6, <2>2
  <2>q. QED
    BY <2>2, <2>3, SlotFields DEF i
<1>8. PairedSchedule(k) \in [1..all -> Slots] /\ \A j \in 1..all : PairedSchedule(k)[j] = slot(j)
  <2>. HIDE DEF slot, all
  <2>q. QED
    BY <1>4, <1>7
<1>9. PairedSchedule(k) \in Seq(Slots) /\ Len(PairedSchedule(k)) = all
  <2>. HIDE DEF slot, all
  <2>q. QED
    BY <1>5, <1>8, LenProperties
<1>10. ASSUME k = "14C", NEW q \in ToSet(QueryIds)
       PROVE  \E j \in 1..all : PairedSchedule(k)[j].query = q /\ PairedSchedule(k)[j].variant = "hybrid"
  <2>1. PICK i \in 1..nq : QueryIds[i] = q
    BY QueryCount
  <2>. DEFINE a == i - 1
              c == 2 * a
              before == runs * c
              j == before + 1
  <2>2. a \in Nat /\ a < nq /\ c \in Nat /\ c < 2 * nq
    BY <1>1, <2>1
  <2>3. cases = 2 * nq
    <3>. HIDE DEF nq, n
    <3>q. QED
      BY <1>1, <1>3, <1>10
  <2>4. c \div 2 = a /\ c % 2 = 0
    <3>. HIDE DEF a
    <3>q. QED
      BY <2>2, DivTimes
  <2>. HIDE DEF a
  <2>5. before \in Nat /\ before \div runs = c
    <3>. HIDE DEF c, runs
    <3>q. QED
      BY <1>1, <2>2, DivTimes
  <2>6. j \in 1..all
    <3>. HIDE DEF c, runs, cases, nq
    <3>1. c < cases
      BY <2>2, <2>3
    <3>2. runs * (c + 1) <= runs * cases
      BY <1>1, <1>5, <2>2, <3>1
    <3>3. runs * (c + 1) = runs * c + runs
      BY <1>1, <2>2
    <3>q. QED
      BY <1>1, <1>5, <2>2, <2>5, <3>2, <3>3
  <2>7. case(j) = c
    <3>. HIDE DEF before, c, runs
    <3>1. j - 1 = before
      BY <2>5
    <3>q. QED
      BY <2>5, <3>1
  <2>8. query(c) = q /\ variant(c) = "hybrid"
    <3>. HIDE DEF c, V, n
    <3>q. QED
      BY <1>3, <1>10, <2>1, <2>4 DEF a
  <2>. HIDE DEF slot, case, query, variant, all, j
  <2>q. QED
    BY <1>7, <1>8, <2>6, <2>7, <2>8
<1>. HIDE DEF all
<1>q. QED
  BY <1>5, <1>8, <1>9, <1>10

\* Whatever the campaign, its schedule is a sequence of slots.
LEMMA ScheduleIsSeq ==
    ASSUME kind \in {"14B", "14C", "LevelC"}
    PROVE  Schedule \in Seq(Slots) /\ Schedule = [j \in 1..Len(Schedule) |-> Schedule[j]]
<1>1. Schedule \in Seq(Slots)
  BY RoundRobinFields, PairedFields DEF Schedule
<1>q. QED
  BY <1>1

LEMMA ScheduleFields ==
    ASSUME kind \in {"14B", "14C", "LevelC"}
    PROVE  Len(Schedule) \in Nat /\ \A j \in 1..Len(Schedule) : Schedule[j] \in Slots
  BY RoundRobinFields, PairedFields DEF Schedule

(* --- One attempt of Level C --------------------------------------------------------------- *)

LEMMA MarksOf ==
    ASSUME NEW n \in Nat \ {0}, NEW outcome \in Outcomes
    PROVE  /\ \A m \in Marks : Marked(n, outcome)[m] = IF m \in Reached(outcome) THEN n ELSE 0
           /\ {Marked(n, outcome)[m] : m \in {x \in Marks : Marked(n, outcome)[x] # 0}} \subseteq {n}
  BY DEF Marked

LEMMA ProxyOf ==
    ASSUME PerfTypes, NEW n \in Nat \ {0}, NEW outcome \in Outcomes
    PROVE  /\ Generated(n, outcome) \in [response : Nat, error : Nat]
           /\ Invoked(outcome) => Generated(n, outcome).response \in {0, n}
           /\ outcome = "provider_error" => Generated(n, outcome).error = n
<1>1. Invoked(outcome) => "t3" \in Reached(outcome)
  BY DEF Invoked, Reached, Outcomes, Marks
<1>2. outcome = "provider_error" => "t3" \in Reached(outcome) /\ "t4" \notin Reached(outcome)
  BY DEF Reached
<1>3. CASE "t3" \in Reached(outcome)
  <2>1. /\ Generated(n, outcome).response = IF "t4" \in Reached(outcome) THEN n ELSE 0
        /\ Generated(n, outcome).error = IF "t4" \in Reached(outcome) THEN 0 ELSE n
        /\ Generated(n, outcome) \in [response : Nat, error : Nat]
    BY <1>3 DEF Generated
  <2>q. QED
    BY <1>2, <2>1
<1>4. CASE "t3" \notin Reached(outcome)
  BY <1>1, <1>2, <1>4 DEF Generated, PerfTypes
<1>q. QED
  BY <1>3, <1>4

LEMMA StagesFields ==
    /\ \A c, g, e \in StageEnds : Stages(c, g, e) \in StageRows /\ Stages(c, g, e).generation = g
    /\ Unhandled \notin StageRows
    /\ \A t, from, to : Timed(t, from, to) \in {"valid", "excluded"}
<1>1. \A t, from, to : Timed(t, from, to) \in {"valid", "excluded"}
  BY DEF Timed
<1>2. Unhandled.context = "unhandled"
  BY DEF Unhandled, Stages
<1>3. "unhandled" \notin StageEnds
  BY DEF StageEnds
<1>q. QED
  BY <1>1, <1>2, <1>3 DEF Stages, StageRows

\* Every end of a query has a row of the stage matrix, and the generation
\* fails only where the provider does.
LEMMA StagesOf ==
    ASSUME NEW n \in Nat \ {0}, NEW outcome \in Outcomes, NEW t,
           \A m \in Marks : t[m] = IF m \in Reached(outcome) THEN n ELSE 0
    PROVE  LET s == StageMatrix(classify_level_c_terminal(outcome), Invoked(outcome), t)
           IN  s \in StageRows /\ (s.generation = "failed" => outcome = "provider_error")
<1>. DEFINE end == classify_level_c_terminal(outcome)
            s == StageMatrix(end, Invoked(outcome), t)
            Fine == s \in StageRows /\ (s.generation = "failed" => outcome = "provider_error")
<1>1. {"t1", "t2", "t3", "t4"} \subseteq Marks
  BY DEF Marks
<1>2. /\ t["t1"] # 0 <=> "t1" \in Reached(outcome)
      /\ t["t2"] # 0 <=> "t2" \in Reached(outcome)
      /\ t["t3"] # 0 <=> "t3" \in Reached(outcome)
      /\ t["t4"] # 0 <=> "t4" \in Reached(outcome)
  BY <1>1
<1>3. CASE outcome \in {"retrieval_error", "assembly_error", "late_error"}
  <2>1. end = "orchestration_failed"
    BY <1>3 DEF classify_level_c_terminal
  <2>2. s = OrchestrationStages(t)
    BY <2>1 DEF StageMatrix
  <2>3. "t3" \in Reached(outcome) => "t4" \in Reached(outcome)
    BY <1>3 DEF Reached
  <2>4. OrchestrationStages(t).generation \in {"not_applicable", "excluded"}
    BY <1>2, <2>3 DEF OrchestrationStages
  <2>5. OrchestrationStages(t) \in StageRows
    BY DEF OrchestrationStages, StageRows, StageEnds
  <2>q. QED
    BY <2>2, <2>4, <2>5
<1>4. CASE outcome \in {"request_error", "provider_error", "schema_invalid"}
  <2>1. end = "generation_failed" /\ s = FailedStages(Invoked(outcome), t)
    BY <1>4 DEF classify_level_c_terminal, StageMatrix
  <2>2. CASE outcome = "request_error"
    <3>1. t["t4"] = 0 /\ t["t2"] = 0 /\ ~Invoked(outcome)
      BY <1>2, <2>2 DEF Reached, Invoked
    <3>2. s = NotApplicable
      BY <2>1, <3>1 DEF FailedStages
    <3>q. QED
      BY <3>2, StagesFields DEF NotApplicable, StageEnds
  <2>3. CASE outcome = "provider_error"
    <3>1. t["t4"] = 0 /\ t["t2"] # 0 /\ Invoked(outcome)
      BY <1>2, <2>3 DEF Reached, Invoked
    <3>2. s = Stages(Timed(t, "t1", "t2"), "failed", "not_applicable")
      BY <2>1, <3>1 DEF FailedStages
    <3>q. QED
      BY <2>3, <3>2, StagesFields DEF StageEnds
  <2>4. CASE outcome = "schema_invalid"
    <3>1. t["t4"] # 0
      BY <1>2, <2>4 DEF Reached, Marks
    <3>2. s = Stages(Timed(t, "t1", "t2"), Timed(t, "t3", "t4"), "failed")
      BY <2>1, <3>1 DEF FailedStages
    <3>q. QED
      BY <3>2, StagesFields DEF StageEnds
  <2>q. QED
    BY <1>4, <2>2, <2>3, <2>4
<1>5. CASE outcome = "empty_context"
  <2>1. end = "insufficient_evidence" /\ s = AnsweredStages(end, Invoked(outcome), t)
    BY <1>5 DEF classify_level_c_terminal, StageMatrix
  <2>2. t["t2"] = 0 /\ ~Invoked(outcome)
    BY <1>2, <1>5 DEF Reached, Invoked
  <2>3. s = NotApplicable
    BY <2>1, <2>2 DEF AnsweredStages
  <2>q. QED
    BY <2>3, StagesFields DEF NotApplicable, StageEnds
<1>6. CASE outcome \in {"model_abstain", "citation_invalid", "answered"}
  <2>1. end = outcome /\ s = AnsweredStages(end, Invoked(outcome), t)
    BY <1>6 DEF classify_level_c_terminal, StageMatrix
  <2>2. PICK e \in StageEnds : s = Stages(Timed(t, "t1", "t2"), Timed(t, "t3", "t4"), e)
    <3>1. Timed(t, "t4", "t5") \in StageEnds /\ "failed" \in StageEnds /\ "not_applicable" \in StageEnds
      BY StagesFields DEF StageEnds
    <3>q. QED
      BY <1>6, <2>1, <3>1 DEF AnsweredStages
  <2>q. QED
    BY <2>2, StagesFields DEF StageEnds
<1>7. Fine
  BY <1>3, <1>4, <1>5, <1>6 DEF Outcomes
<1>q. QED
  BY <1>7

LEMMA AttemptIsOwned ==
    ASSUME PerfTypes, NEW n \in Nat \ {0}, NEW outcome \in Outcomes, NextSlot \in Slots
    PROVE  LET a == Attempt(n, outcome, Marked(n, outcome), Generated(n, outcome))
           IN  a \in LevelCAttempts /\ Owned(n, a) /\ a.slot = NextSlot
<1>. DEFINE t == Marked(n, outcome)
            p == Generated(n, outcome)
            s == StageMatrix(classify_level_c_terminal(outcome), Invoked(outcome), t)
            a == Attempt(n, outcome, t, p)
            by == {t[m] : m \in {x \in Marks : t[x] # 0}}
<1>1. \A m \in Marks : t[m] = IF m \in Reached(outcome) THEN n ELSE 0
  BY MarksOf
<1>2. by \subseteq {n}
  BY MarksOf
<1>3. /\ p \in [response : Nat, error : Nat] /\ (Invoked(outcome) => p.response \in {0, n})
      /\ outcome = "provider_error" => p.error = n
  BY ProxyOf
<1>. HIDE DEF t, p, by
<1>4. s \in StageRows /\ (s.generation = "failed" => outcome = "provider_error")
  BY <1>1, StagesOf
<1>5. s # Unhandled
  BY <1>4, StagesFields
<1>6. a = [slot |-> NextSlot, ok |-> s # Unhandled, stages |-> s,
           usage |-> IF Invoked(outcome) THEN p.response ELSE 0,
           failedAt |-> IF s.generation = "failed" THEN p.error ELSE 0, measuredBy |-> by]
  BY DEF Attempt, by
<1>. HIDE DEF s, a
<1>7. /\ a.slot = NextSlot /\ a.ok = TRUE /\ a.stages = s /\ a.measuredBy = by
      /\ a.usage = (IF Invoked(outcome) THEN p.response ELSE 0)
      /\ a.failedAt = (IF s.generation = "failed" THEN p.error ELSE 0)
  BY <1>5, <1>6
<1>8. a.usage \in {0, n} /\ a.failedAt \in {0, n} /\ (s.generation = "failed" => a.failedAt = n)
  BY <1>3, <1>4, <1>7
<1>9. Owned(n, a)
  BY <1>2, <1>4, <1>7, <1>8 DEF Owned
<1>10. a \in LevelCAttempts
  <2>1. by \in SUBSET Nat
    BY <1>2
  <2>2. (IF Invoked(outcome) THEN p.response ELSE 0) \in Nat /\ (IF s.generation = "failed" THEN p.error ELSE 0) \in Nat
    BY <1>7, <1>8
  <2>3. (s # Unhandled) \in BOOLEAN
    OBVIOUS
  <2>q. QED
    BY <1>4, <1>6, <2>1, <2>2, <2>3 DEF LevelCAttempts
<1>q. QED
  BY <1>7, <1>9, <1>10 DEF a, p, t

(* --- The invariant, step by step ------------------------------------------------------------ *)

LEMMA PerfStarts == ASSUME PerfInit PROVE PerfInv
<1>1. kind \in {"14B", "14C", "LevelC"} /\ attempts = <<>> /\ status = "none" /\ dir = {}
  BY DEF PerfInit
<1>2. PerfTypes
  <2>. DEFINE S == Observations \cup LevelCAttempts
  <2>1. <<>> \in Seq(S)
    <3>. HIDE DEF S
    <3>q. QED
      BY EmptySeq
  <2>q. QED
    BY <1>1, <2>1 DEF PerfTypes, PerfInit
<1>3. Len(attempts) = 0 /\ DOMAIN attempts = {}
  BY <1>1
<1>4. OnSchedule
  BY <1>1, <1>3, ScheduleFields DEF OnSchedule
<1>q. QED
  BY <1>1, <1>2, <1>3, <1>4 DEF PerfInv, CompletedAtEnd, ReportIsLast

LEMMA AttemptsFields ==
    ASSUME PerfInv
    PROVE  /\ kind \in {"14B", "14C", "LevelC"} /\ Len(attempts) \in Nat /\ DOMAIN attempts = 1..Len(attempts)
           /\ Len(Schedule) \in Nat /\ Len(attempts) <= Len(Schedule)
           /\ Len(attempts) < Len(Schedule) => NextSlot \in Slots
<1>. DEFINE S == Observations \cup LevelCAttempts
<1>1. attempts \in Seq(S) /\ kind \in {"14B", "14C", "LevelC"} /\ OnSchedule
  BY DEF PerfInv, PerfTypes
<1>. HIDE DEF S
<1>2. Len(attempts) \in Nat /\ DOMAIN attempts = 1..Len(attempts)
  BY <1>1, LenProperties
<1>3. Len(Schedule) \in Nat /\ \A j \in 1..Len(Schedule) : Schedule[j] \in Slots
  BY <1>1, ScheduleFields
<1>q. QED
  BY <1>1, <1>2, <1>3 DEF OnSchedule, NextSlot

\* Another attempt of the schedule.
LEMMA AttemptsGrow ==
    ASSUME PerfInv, NEW a \in Observations \cup LevelCAttempts, a.slot = NextSlot,
           phase = "execute", Len(attempts) < Len(Schedule), attempts' = Append(attempts, a),
           kind = "LevelC" => Owned(Len(attempts) + 1, a),
           proxy' \in [response : Nat, error : Nat], UNCHANGED <<kind, phase, status, dir>>
    PROVE  PerfInv'
<1>. DEFINE S == Observations \cup LevelCAttempts
            n == Len(attempts)
<1>1. /\ n \in Nat /\ DOMAIN attempts = 1..n /\ Len(Schedule) \in Nat
  BY AttemptsFields
<1>2. Schedule' = Schedule
  BY DEF Schedule
<1>3. /\ Append(attempts, a) \in Seq(S) /\ Len(Append(attempts, a)) = n + 1
      /\ \A i \in 1..n : Append(attempts, a)[i] = attempts[i]
      /\ Append(attempts, a)[n + 1] = a
  <2>1. attempts \in Seq(S) /\ a \in S
    BY DEF PerfInv, PerfTypes
  <2>. HIDE DEF S
  <2>q. QED
    BY <2>1, AppendProperties
<1>. HIDE DEF S
<1>4. DOMAIN attempts' = 1..(n + 1) /\ Len(attempts') = n + 1
  BY <1>3, LenProperties
<1>5. PerfTypes'
  BY <1>3 DEF PerfInv, PerfTypes, S
<1>6. ASSUME NEW i \in 1..(n + 1)
      PROVE  \/ i \in 1..n /\ attempts'[i] = attempts[i]
             \/ i = n + 1 /\ attempts'[i] = a
  BY <1>1, <1>3
<1>7. OnSchedule'
  <2>1. \A i \in 1..n : attempts[i].slot = Schedule[i]
    BY <1>1 DEF PerfInv, OnSchedule
  <2>2. a.slot = Schedule[n + 1]
    BY DEF NextSlot
  <2>3. \A i \in 1..(n + 1) : attempts'[i].slot = Schedule[i]
    BY <1>6, <2>1, <2>2
  <2>q. QED
    BY <1>1, <1>2, <1>4, <2>3 DEF OnSchedule
<1>8. CompletedAtEnd' /\ ReportIsLast'
  BY DEF PerfInv, CompletedAtEnd, ReportIsLast
<1>9. ASSUME kind' = "LevelC", NEW i \in 1..(n + 1) PROVE Owned(i, attempts'[i])
  <2>1. \A j \in 1..n : Owned(j, attempts[j])
    BY <1>1, <1>9 DEF PerfInv
  <2>q. QED
    BY <1>6, <1>9, <2>1
<1>q. QED
  BY <1>4, <1>5, <1>7, <1>8, <1>9 DEF PerfInv

\* Any other step records nothing: what it leaves the status and the files in
\* is to be shown.
LEMMA AttemptsStay ==
    ASSUME PerfInv, UNCHANGED <<kind, attempts, proxy>>, CompletedAtEnd', ReportIsLast'
    PROVE  PerfInv'
<1>1. PerfTypes' /\ OnSchedule' /\ (kind' = "LevelC" => \A i \in DOMAIN attempts' : Owned(i, attempts'[i]))
  BY DEF PerfInv, PerfTypes, OnSchedule, Schedule
<1>q. QED
  BY <1>1 DEF PerfInv

LEMMA RunChecksStep == ASSUME PerfInv, NEW passed, RunChecks(passed) PROVE PerfInv'
<1>1. status # "completed" /\ ReportIsLast
  BY DEF PerfInv, CompletedAtEnd, RunChecks
<1>2. CompletedAtEnd' /\ ReportIsLast'
  BY <1>1 DEF RunChecks, PreflightPasses, PreflightFails, CompletedAtEnd, ReportIsLast
<1>q. QED
  BY <1>2, AttemptsStay DEF RunChecks

LEMMA AllocateStep == ASSUME PerfInv, AllocateRunDir PROVE PerfInv'
<1>1. status # "completed"
  BY DEF PerfInv, CompletedAtEnd, AllocateRunDir
<1>2. CompletedAtEnd' /\ ReportIsLast'
  BY <1>1 DEF AllocateRunDir, CompletedAtEnd, ReportIsLast
<1>q. QED
  BY <1>2, AttemptsStay DEF AllocateRunDir

LEMMA ObserveStep == ASSUME PerfInv, NEW result \in {"ranked", "empty", "failed"}, Observe(result) PROVE PerfInv'
<1>. DEFINE a == [slot |-> NextSlot, ok |-> result # "failed", ranked |-> result = "ranked"]
<1>1. NextSlot \in Slots
  BY AttemptsFields DEF Observe
<1>2. a \in Observations /\ a.slot = NextSlot
  BY <1>1 DEF Observations
<1>. HIDE DEF a
<1>3. proxy' \in [response : Nat, error : Nat]
  BY DEF PerfInv, PerfTypes, Observe
<1>4. attempts' = Append(attempts, a)
  BY DEF Observe, a
<1>q. QED
  BY <1>2, <1>3, <1>4, AttemptsGrow DEF Observe

LEMMA ExecuteStep == ASSUME PerfInv, NEW outcome \in Outcomes, ExecuteAttempt(outcome) PROVE PerfInv'
<1>. DEFINE n == Len(attempts) + 1
            a == Attempt(n, outcome, Marked(n, outcome), Generated(n, outcome))
<1>1. n \in Nat \ {0} /\ Len(attempts) < Len(Schedule) /\ NextSlot \in Slots /\ PerfTypes
  BY AttemptsFields DEF ExecuteAttempt, PerfInv
<1>2. attempts' = Append(attempts, a) /\ proxy' = Generated(n, outcome)
  BY DEF ExecuteAttempt
<1>3. a \in LevelCAttempts /\ Owned(n, a) /\ a.slot = NextSlot
  <2>. HIDE DEF n
  <2>q. QED
    BY <1>1, AttemptIsOwned
<1>4. proxy' \in [response : Nat, error : Nat]
  <2>. HIDE DEF n
  <2>q. QED
    BY <1>1, <1>2, ProxyOf
<1>. HIDE DEF a
<1>q. QED
  BY <1>1, <1>2, <1>3, <1>4, AttemptsGrow DEF ExecuteAttempt

LEMMA StopsStep == ASSUME PerfInv, CampaignStops PROVE PerfInv'
<1>1. CompletedAtEnd' /\ ReportIsLast'
  BY DEF PerfInv, CampaignStops, CompletedAtEnd, ReportIsLast
<1>q. QED
  BY <1>1, AttemptsStay DEF CampaignStops

LEMMA DoneStep == ASSUME PerfInv, ScheduleDone PROVE PerfInv'
<1>1. Schedule' = Schedule /\ MeasuredFailed' = MeasuredFailed
      /\ assert_paired_quality_coverage' = assert_paired_quality_coverage
  BY DEF ScheduleDone, Schedule, MeasuredFailed, assert_paired_quality_coverage, LastOf
<1>2. status' = "completed" /\ kind = "14C" => ~MeasuredFailed /\ assert_paired_quality_coverage
  BY DEF ScheduleDone, ExecutionStatus
<1>3. CompletedAtEnd' /\ ReportIsLast'
  BY <1>1, <1>2 DEF PerfInv, ScheduleDone, CompletedAtEnd, ReportIsLast
<1>q. QED
  BY <1>3, AttemptsStay DEF ScheduleDone

LEMMA CloseRuntimeStep == ASSUME PerfInv, NEW ok \in BOOLEAN, CloseRuntime(ok) PROVE PerfInv'
<1>1. Schedule' = Schedule /\ MeasuredFailed' = MeasuredFailed
      /\ assert_paired_quality_coverage' = assert_paired_quality_coverage
  BY DEF CloseRuntime, Schedule, MeasuredFailed, assert_paired_quality_coverage, LastOf
<1>2. CompletedAtEnd' /\ ReportIsLast'
  BY <1>1 DEF PerfInv, CloseRuntime, CompletedAtEnd, ReportIsLast
<1>q. QED
  BY <1>2, AttemptsStay DEF CloseRuntime

LEMMA WriteStep == ASSUME PerfInv, WriteArtifact PROVE PerfInv'
<1>1. Schedule' = Schedule /\ MeasuredFailed' = MeasuredFailed
      /\ assert_paired_quality_coverage' = assert_paired_quality_coverage
  BY DEF WriteArtifact, Schedule, MeasuredFailed, assert_paired_quality_coverage, LastOf
<1>2. CompletedAtEnd'
  BY <1>1 DEF PerfInv, WriteArtifact, CompletedAtEnd
<1>3. ReportIsLast'
  <2>1. CASE UNCHANGED dir
    BY <2>1 DEF PerfInv, ReportIsLast
  <2>2. CASE \E i \in Unwritten : (\A j \in Unwritten : i <= j) /\ dir' = dir \cup {ArtifactOrder[i]}
    <3>1. PICK i \in Unwritten : (\A j \in Unwritten : i <= j) /\ dir' = dir \cup {ArtifactOrder[i]}
      BY <2>2
    <3>2. CASE "report" \in dir
      BY <3>1, <3>2 DEF PerfInv, ReportIsLast
    <3>3. CASE "report" \notin dir /\ "report" \in dir'
      <4>1. DOMAIN ArtifactOrder = 1..5 /\ ArtifactOrder[1] = "manifest" /\ ArtifactOrder[2] = "aggregate"
            /\ ArtifactOrder[3] = "preflight" /\ ArtifactOrder[4] = "cases"
        BY DEF ArtifactOrder
      <4>2. i \in 1..5 /\ ArtifactOrder[i] = "report"
        BY <3>1, <3>3, <4>1 DEF Unwritten
      <4>3. i = 5
        BY <4>1, <4>2
      <4>4. \A j \in 1..4 : ArtifactOrder[j] \in dir
        BY <3>1, <4>1, <4>3 DEF Unwritten
      <4>5. {"manifest", "aggregate", "preflight", "cases"} \subseteq dir
        BY <4>1, <4>4
      <4>q. QED
        BY <3>1, <4>5 DEF ReportIsLast
    <3>q. QED
      BY <3>2, <3>3 DEF ReportIsLast
  <2>q. QED
    BY <2>1, <2>2 DEF WriteArtifact
<1>q. QED
  BY <1>2, <1>3, AttemptsStay DEF WriteArtifact

LEMMA QuietPerfStep ==
    ASSUME PerfInv, UNCHANGED <<kind, status, attempts, proxy, dir>>, phase' \in {phase, "ended"}
    PROVE  PerfInv'
<1>1. Schedule' = Schedule /\ MeasuredFailed' = MeasuredFailed
      /\ assert_paired_quality_coverage' = assert_paired_quality_coverage
  BY DEF Schedule, MeasuredFailed, assert_paired_quality_coverage, LastOf
<1>2. CompletedAtEnd' /\ ReportIsLast'
  BY <1>1 DEF PerfInv, CompletedAtEnd, ReportIsLast
<1>q. QED
  BY <1>2, AttemptsStay

LEMMA PerfStep == ASSUME PerfInv, [PerfNext]_perfVars PROVE PerfInv'
<1>1. CASE UNCHANGED perfVars
  BY <1>1, QuietPerfStep DEF perfVars
<1>2. CASE CampaignDies
  BY <1>2, QuietPerfStep DEF CampaignDies
<1>3. CASE AllocateRunDir \/ CampaignStops \/ ScheduleDone \/ WriteArtifact
  BY <1>3, AllocateStep, StopsStep, DoneStep, WriteStep
<1>4. CASE \E passed \in 0..Len(checks) : RunChecks(passed)
  BY <1>4, RunChecksStep
<1>5. CASE \E ok \in BOOLEAN : CloseRuntime(ok)
  BY <1>5, CloseRuntimeStep
<1>6. CASE \E result \in {"ranked", "empty", "failed"} : Observe(result)
  BY <1>6, ObserveStep
<1>7. CASE \E outcome \in Outcomes : ExecuteAttempt(outcome)
  BY <1>7, ExecuteStep
<1>q. QED
  BY <1>1, <1>2, <1>3, <1>4, <1>5, <1>6, <1>7 DEF PerfNext

(* --- What a reader of the evidence relies on ------------------------------------------------- *)

\* Of Level C, the warm-ups are the first attempts, one of each query.
LEMMA WarmFirst ==
    ASSUME PerfInv, kind = "LevelC"
    PROVE  \A i \in DOMAIN attempts : attempts[i].slot.warm <=> i <= Len(QueryIds)
<1>1. Schedule = RoundRobin
  BY DEF Schedule
<1>2. DOMAIN attempts = 1..Len(attempts) /\ Len(attempts) \in Nat /\ Len(attempts) <= Len(RoundRobin)
  BY <1>1, AttemptsFields
<1>3. \A i \in 1..Len(attempts) : i \in 1..Len(RoundRobin)
  BY <1>2, RoundRobinFields
<1>4. \A i \in DOMAIN attempts : attempts[i].slot = RoundRobin[i]
  BY <1>1 DEF PerfInv, OnSchedule
<1>q. QED
  BY <1>2, <1>3, <1>4, RoundRobinFields

LEMMA TwoCounts ==
    ASSUME NEW A, IsFiniteSet(A), NEW B, IsFiniteSet(B), A \cap B = {}
    PROVE  /\ IsFiniteSet(A \cup B) /\ Cardinality(A) \in Nat /\ Cardinality(B) \in Nat
           /\ Cardinality(A \cup B) = Cardinality(A) + Cardinality(B)
<1>1. Cardinality(A \cap B) = 0
  BY FS_EmptySet
<1>2. Cardinality(A) \in Nat /\ Cardinality(B) \in Nat
  BY FS_CardinalityType
<1>3. IsFiniteSet(A \cup B) /\ Cardinality(A \cup B) = Cardinality(A) + Cardinality(B) - Cardinality(A \cap B)
  BY FS_Union
<1>q. QED
  BY <1>1, <1>2, <1>3

\* The counts of disjoint sets of measured attempts that cover them add up.
LEMMA FourCounts ==
    ASSUME NEW S, IsFiniteSet(S), NEW A, NEW B, NEW C, NEW D, S = A \cup B \cup C \cup D,
           A \cap B = {}, A \cap C = {}, A \cap D = {}, B \cap C = {}, B \cap D = {}, C \cap D = {}
    PROVE  Cardinality(A) + Cardinality(B) + Cardinality(C) + Cardinality(D) = Cardinality(S)
<1>. DEFINE E == A \cup B
            F == C \cup D
<1>1. IsFiniteSet(A) /\ IsFiniteSet(B) /\ IsFiniteSet(C) /\ IsFiniteSet(D)
  BY FS_Subset
<1>2. E \cap F = {} /\ E \cup F = S
  OBVIOUS
<1>3. /\ IsFiniteSet(E) /\ Cardinality(A) \in Nat /\ Cardinality(B) \in Nat
      /\ Cardinality(E) = Cardinality(A) + Cardinality(B)
  BY <1>1, TwoCounts
<1>4. /\ IsFiniteSet(F) /\ Cardinality(C) \in Nat /\ Cardinality(D) \in Nat
      /\ Cardinality(F) = Cardinality(C) + Cardinality(D)
  BY <1>1, TwoCounts
<1>. HIDE DEF E, F
<1>5. Cardinality(S) = Cardinality(E) + Cardinality(F)
  BY <1>2, <1>3, <1>4, TwoCounts
<1>q. QED
  BY <1>3, <1>4, <1>5

LEMMA StatsCover == ASSUME PerfInv PROVE StatsCoverSchedule
<1>. SUFFICES ASSUME kind = "LevelC", status = "completed", NEW stage \in {"context", "generation", "citation"}
              PROVE  LET stats == derive_level_c_stage_stats(stage)
                     IN  /\ stats.attempted_count + stats.not_applicable_count = Len(QueryIds) * Measured
                         /\ stats.warmup_count + Len(QueryIds) * Measured = Len(attempts)
  BY DEF StatsCoverSchedule
<1>. DEFINE n == Len(QueryIds)
            all == Len(attempts)
            measured == {i \in DOMAIN attempts : ~attempts[i].slot.warm}
            count(end) == Cardinality(Counted(stage, end))
<1>1. all \in Nat /\ n \in Nat /\ n # 0 /\ Measured \in Nat /\ DOMAIN attempts = 1..all
  BY AttemptsFields, QueryCount
<1>2. all = n * (Measured + 1)
  BY RoundRobinFields DEF PerfInv, CompletedAtEnd, Schedule
<1>3. all = n + n * Measured /\ n * Measured \in Nat
  <2>. HIDE DEF n, all
  <2>q. QED
    BY <1>1, <1>2
<1>4. \A i \in 1..all : attempts[i].slot.warm <=> i <= n
  BY <1>1, WarmFirst
<1>. HIDE DEF n, all
<1>5. WarmUps = 1..n
  BY <1>1, <1>3, <1>4 DEF WarmUps
<1>6. measured = (n + 1)..all
  BY <1>1, <1>3, <1>4
<1>7. Cardinality(WarmUps) = n
  BY <1>1, <1>5, FS_Interval
<1>8. IsFiniteSet(measured) /\ Cardinality(measured) = n * Measured
  <2>. DEFINE m == n + 1
  <2>1. m \in Int /\ all \in Int
    BY <1>1
  <2>2. IsFiniteSet(m..all) /\ Cardinality(m..all) = IF m > all THEN 0 ELSE all - m + 1
    <3>. HIDE DEF m
    <3>q. QED
      BY <2>1, FS_Interval
  <2>3. (IF m > all THEN 0 ELSE all - m + 1) = n * Measured
    BY <1>1, <1>3
  <2>q. QED
    BY <1>6, <2>2, <2>3
<1>9. \A i \in DOMAIN attempts : attempts[i].stages[stage] \in StageEnds
  <2>1. \A i \in DOMAIN attempts : attempts[i].stages \in StageRows
    BY DEF PerfInv, Owned
  <2>q. QED
    BY <2>1 DEF StageRows
<1>10. count("valid") + count("failed") + count("excluded") + count("not_applicable") = Cardinality(measured)
  <2>1. \A c, d : c # d => Counted(stage, c) \cap Counted(stage, d) = {}
    BY DEF Counted
  <2>2. measured = Counted(stage, "valid") \cup Counted(stage, "failed") \cup Counted(stage, "excluded")
                     \cup Counted(stage, "not_applicable")
    BY <1>9 DEF Counted, StageEnds
  <2>. HIDE DEF measured
  <2>q. QED
    BY <1>8, <2>1, <2>2, FourCounts
<1>. HIDE DEF measured, count
<1>11. /\ derive_level_c_stage_stats(stage).attempted_count = count("valid") + count("failed") + count("excluded")
       /\ derive_level_c_stage_stats(stage).not_applicable_count = count("not_applicable")
       /\ derive_level_c_stage_stats(stage).warmup_count = Cardinality(WarmUps)
  BY DEF derive_level_c_stage_stats, count
<1>q. QED
  BY <1>1, <1>3, <1>7, <1>8, <1>10, <1>11 DEF n, all

LEMMA CleanIfCompleted == ASSUME PerfInv PROVE CompletedIsClean
<1>. SUFFICES ASSUME status = "completed", kind = "14C"
              PROVE  /\ ~MeasuredFailed
                     /\ \A q \in ToSet(QueryIds) : \E i \in DOMAIN attempts :
                          attempts[i].ranked /\ attempts[i].slot.query = q
  BY DEF CompletedIsClean
<1>1. ~MeasuredFailed /\ assert_paired_quality_coverage /\ Len(attempts) = Len(Schedule)
  BY DEF PerfInv, CompletedAtEnd
<1>2. Schedule = PairedSchedule("14C")
  BY DEF Schedule
<1>3. DOMAIN attempts = 1..Len(attempts) /\ Len(attempts) \in Nat
  BY AttemptsFields
<1>4. \A i \in 1..Len(attempts) : attempts[i].slot = PairedSchedule("14C")[i]
  BY <1>2, <1>3 DEF PerfInv, OnSchedule
<1>5. ASSUME NEW q \in ToSet(QueryIds)
      PROVE  \E i \in DOMAIN attempts : attempts[i].ranked /\ attempts[i].slot.query = q
  <2>. DEFINE S == {i \in DOMAIN attempts : attempts[i].slot.query = q /\ attempts[i].slot.variant = "hybrid"}
  <2>1. PICK j \in 1..Len(attempts) : PairedSchedule("14C")[j].query = q /\ PairedSchedule("14C")[j].variant = "hybrid"
    BY <1>1, <1>2, PairedFields
  <2>2. j \in S /\ S \in SUBSET (1..Len(attempts))
    BY <1>3, <1>4, <2>1
  <2>3. Max(S) \in S
    <3>. HIDE DEF S
    <3>q. QED
      BY <1>3, <2>2, LargestIndex
  <2>4. LastOf(q, "hybrid") = Max(S)
    BY DEF LastOf
  <2>5. "hybrid" \in ToSet(Variants("14C"))
    BY DEF Variants, ToSet
  <2>6. attempts[LastOf(q, "hybrid")].ranked
    BY <1>1, <2>5 DEF assert_paired_quality_coverage
  <2>q. QED
    BY <2>3, <2>4, <2>6
<1>q. QED
  BY <1>1, <1>5

LEMMA PerformanceFacts == ASSUME PerfInv PROVE EvidenceIsClean
<1>1. ReportedIsWhole
  <2>1. "report" \in dir => {"manifest", "aggregate", "preflight", "cases"} \subseteq dir
    BY DEF PerfInv, ReportIsLast
  <2>2. status = "completed" => [i \in DOMAIN attempts |-> attempts[i].slot] = Schedule
    <3>. SUFFICES ASSUME status = "completed" PROVE [i \in DOMAIN attempts |-> attempts[i].slot] = Schedule
      OBVIOUS
    <3>1. Len(attempts) = Len(Schedule) /\ \A i \in DOMAIN attempts : attempts[i].slot = Schedule[i]
      BY DEF PerfInv, CompletedAtEnd, OnSchedule
    <3>2. DOMAIN attempts = 1..Len(Schedule)
      BY <3>1, AttemptsFields
    <3>3. Schedule = [j \in 1..Len(Schedule) |-> Schedule[j]]
      BY ScheduleIsSeq DEF PerfInv, PerfTypes
    <3>q. QED
      BY <3>1, <3>2, <3>3
  <2>q. QED
    BY <2>1, <2>2 DEF ReportedIsWhole
<1>2. AttemptOwnsItsEvidence /\ EveryEndIsClassified
  BY DEF PerfInv, Owned, AttemptOwnsItsEvidence, EveryEndIsClassified
<1>q. QED
  BY <1>1, <1>2, StatsCover, CleanIfCompleted DEF EvidenceIsClean

PerfSpec == PerfInit /\ [][PerfNext]_perfVars

THEOREM PerformanceInvariant == PerfSpec => []PerfInv
  BY PerfStarts, PerfStep, PTL DEF PerfSpec

\* Whatever fails and wherever the process is killed, for any queries and any
\* number of repetitions, a performance run publishes evidence that is whole,
\* clean, classified and measured in the attempt that reports it
\* (_run_frozen_schedule, build_level_c_attempt, write_run_artifacts).
THEOREM PerformanceHolds == PerfSpec => []EvidenceIsClean
  BY PerformanceInvariant, PerformanceFacts, PTL

(* --- The workshop as it is run --------------------------------------------------------- *)

WorkshopInv == AuthorInv /\ EmbeddingInv /\ PerfInv

LEMMA WorkshopStarts == Init => WorkshopInv
<1>. SUFFICES ASSUME Init PROVE WorkshopInv
  OBVIOUS
<1>1. AuthorInv
  BY AuthorStarts DEF Init
<1>2. BundleAndEmbedderInit
  BY DEF Init
<1>3. faults \in Nat
  BY <1>2, ProvisionAssumption DEF BundleAndEmbedderInit
<1>4. ProvisionInv
  BY <1>2, <1>3, ProvisionStarts DEF BundleAndEmbedderInit, Readiness
<1>5. RuntimeInv
  BY <1>2, EmbedderStarts DEF BundleAndEmbedderInit
<1>6. PerfInv
  BY PerfStarts DEF Init
<1>q. QED
  BY <1>1, <1>4, <1>5, <1>6 DEF WorkshopInv, EmbeddingInv

\* Every step of the workshop is one of each of its parts, or leaves it alone.
LEMMA PartsSteps ==
    ASSUME [Next]_vars
    PROVE  [AuthorNext]_authorVars /\ [EmbeddingNext]_embeddingVars /\ [PerfNext]_perfVars
<1>1. CASE part = "authoring" /\ AuthorNext /\ UNCHANGED <<embeddingVars, perfVars>>
  BY <1>1
<1>2. CASE BundleOrEmbedderNext /\ UNCHANGED <<authorVars, perfVars>>
  BY <1>2 DEF BundleOrEmbedderNext, EmbeddingNext
<1>3. CASE part = "performance" /\ PerfNext /\ UNCHANGED <<authorVars, embeddingVars>>
  BY <1>3
<1>4. CASE UNCHANGED vars
  BY <1>4 DEF vars
<1>q. QED
  BY <1>1, <1>2, <1>3, <1>4 DEF Next

\* A provisioning step or none, whatever the embedder does.
LEMMA RootSteps == ASSUME [EmbeddingNext]_embeddingVars PROVE [ProvisionNext]_provisionVars
<1>1. CASE EmbedNext
  BY <1>1, RootIsLeft DEF RootUnchanged, provisionVars
<1>2. CASE UNCHANGED embeddingVars
  BY <1>2 DEF embeddingVars, provisionVars
<1>q. QED
  BY <1>1, <1>2 DEF EmbeddingNext

\* The parts of the workshop keep their invariants side by side, from the
\* installation each run starts with (gold_authoring, _run_transaction).
THEOREM WorkshopInvariant == Spec => []WorkshopInv
<1>1. WorkshopInv /\ [Next]_vars => WorkshopInv'
  <2>. SUFFICES ASSUME WorkshopInv, [Next]_vars PROVE WorkshopInv'
    OBVIOUS
  <2>1. [AuthorNext]_authorVars /\ [EmbeddingNext]_embeddingVars /\ [PerfNext]_perfVars
    BY PartsSteps
  <2>2. AuthorInv'
    BY <2>1, AuthorStep, AuthorStutters DEF WorkshopInv
  <2>3. EmbeddingInv'
    BY <2>1, EmbeddingStep DEF WorkshopInv
  <2>4. PerfInv'
    BY <2>1, PerfStep DEF WorkshopInv
  <2>q. QED
    BY <2>2, <2>3, <2>4 DEF WorkshopInv
<1>q. QED
  BY WorkshopStarts, <1>1, PTL DEF Spec

\* Nothing others rely on is undone, in any step of the workshop: reviews and
\* datasets (gold_authoring), what was not asked for and what was before a
\* failure (_run_transaction), the end of an embedder and, where one ingest
\* is admitted at a time, the batch it has learnt.
THEOREM WorkshopUndoesNothing ==
    ASSUME OneDocumentCaller
    PROVE  Spec => NothingIsUndone
<1>1. WorkshopInv /\ [Next]_vars =>
        [/\ JobLeavesReviews /\ DatasetSurvives /\ UnrequestedIsKept
         /\ FailureRestores /\ EndIsFinal /\ BatchOnlyShrinks]_vars
  <2>. SUFFICES ASSUME WorkshopInv, [Next]_vars
                PROVE  /\ JobLeavesReviews /\ DatasetSurvives /\ UnrequestedIsKept
                       /\ FailureRestores /\ EndIsFinal /\ BatchOnlyShrinks
    OBVIOUS
  <2>1. AuthorInv /\ EmbeddingInv /\ ProvisionInv
    BY DEF WorkshopInv, EmbeddingInv
  <2>2. [AuthorNext]_authorVars /\ [EmbeddingNext]_embeddingVars
    BY PartsSteps
  <2>3. [ProvisionNext]_provisionVars
    BY <2>2, RootSteps
  <2>q. QED
    BY <2>1, <2>2, <2>3, ReviewsAreLeft, DatasetStays, OthersKept, FailuresRestored, EndIsKept
<1>q. QED
  BY WorkshopInvariant, <1>1, PTL DEF NothingIsUndone, Spec

\* What the workshop's run checks of authoring, of the embedder and of the
\* performance runs.
THEOREM WorkshopHolds == Spec => [](AuthoringIsSound /\ EmbeddingIsSound /\ EvidenceIsClean)
  BY WorkshopInvariant, AuthorFacts, EmbeddingFacts, PerformanceFacts, PTL DEF WorkshopInv
=============================================================================
