---------------------------- MODULE GoldAuthoring ----------------------------
(***************************************************************************)
(* Offline gold authoring (gold_authoring): one run file that the jobs     *)
(* propose, pool and prelabel read at their start and write whole at their *)
(* end, minutes later, and that the review server reads and writes for     *)
(* every decision of the reviewer, under a lock of its own process only;   *)
(* and finalize, which publishes the approved cases by a directory swap.   *)
(***************************************************************************)
EXTENDS Integers, Sequences, FiniteSets, FiniteSetsExt

CONSTANTS
  Drafts, Passages,       \* the cases proposals may become; the chunks retrieved
  Jobs, Finalizers,       \* processes
  MaxJobs, MaxEdits       \* bounds on the jobs and the decisions of a behaviour

ASSUME AuthoringAssumption == MaxJobs \in Nat /\ MaxEdits \in Nat

VARIABLES
  run,      \* the run file: is it there, and its cases
  job,      \* each job: what it loaded and what it works on
  session,  \* the decision the review server is about to write
  started, edits,
  gold,     \* the destination: absent, or a dataset
  backups,  \* destinations moved aside
  finalizer,\* each finalize process
  lost,     \* a process died between its two renames
  approvals \* (history) the rows of every case a reviewer approved

authorVars == <<run, job, session, started, edits, gold, backups, finalizer, lost, approvals>>

Resting == [op |-> "rest"]
(* A process that left a directory of its own aside. *)
Ended   == [op |-> "ended"]
Absent  == [there |-> FALSE]
Dir(cases) == [there |-> TRUE, cases |-> cases]

(* --- A case and its validators -------------------------------------------- *)

(* labels: the candidates both blind passes judged; edits of the query and of *)
(* the category or tags are "P" (as proposed) or "E".                         *)
NoGrades == [x \in {} |-> 0]
SilverCase == [pool |-> {}, labels |-> {}, status |-> "pending", query |-> "P", tags |-> "P",
               grades |-> NoGrades, basis |-> "none"]

Terminal == {"accepted", "edited", "rejected"}
proposal_content_changed(c) == c.query # "P" \/ c.tags # "P"
review_complete(c) == c.pool # {} /\ DOMAIN c.grades = c.pool
quality_eligible_for_gold(c) == review_complete(c) /\ \E x \in DOMAIN c.grades : c.grades[x] >= 1

ValidPrelabel(c) == c.labels # {} => c.labels = c.pool
ValidReview(c) ==
  /\ DOMAIN c.grades \subseteq c.pool
  /\ c.grades # NoGrades => c.basis = c.query
  /\ c.status \in {"accepted", "edited"} =>
       quality_eligible_for_gold(c) /\ c.basis = c.query /\ (c.status = "edited") = proposal_content_changed(c)
ValidCases(cases) == \A d \in DOMAIN cases : ValidPrelabel(cases[d]) /\ ValidReview(cases[d])

(* --- The jobs ------------------------------------------------------------- *)

Idle(p) == job[p].op = "rest" /\ started < MaxJobs

(* propose: an output that is there needs --force; the sampled seeds are then *)
(* put to the model one by one, and those that pass every gate become cases.  *)
StartPropose(p, force) ==
  /\ Idle(p) /\ (run.there => force)
  /\ job' = [job EXCEPT ![p] = [op |-> "propose"]] /\ started' = started + 1
  /\ UNCHANGED <<run, session, edits, gold, backups, finalizer, lost, approvals>>
FinishPropose(p, made) ==
  /\ job[p].op = "propose" /\ run' = Dir([d \in made |-> SilverCase])
  /\ job' = [job EXCEPT ![p] = Resting]
  /\ UNCHANGED <<session, started, edits, gold, backups, finalizer, lost, approvals>>

PoolTargets(cases) == {d \in DOMAIN cases : cases[d].status = "pending"}
StartPool(p, force) ==
  /\ Idle(p) /\ run.there
  /\ LET targets == PoolTargets(run.cases) IN
       /\ targets # {} /\ ((\E d \in targets : run.cases[d].pool # {}) => force)
       /\ job' = [job EXCEPT ![p] = [op |-> "pool", copy |-> run.cases, targets |-> targets]]
  /\ started' = started + 1
  /\ UNCHANGED <<run, session, edits, gold, backups, finalizer, lost, approvals>>

PrelabelTargets(cases) == {d \in DOMAIN cases : cases[d].pool # {}}
StartPrelabel(p, force) ==
  /\ Idle(p) /\ run.there
  /\ LET targets == PrelabelTargets(run.cases) IN
       /\ targets # {} /\ ((\E d \in targets : run.cases[d].labels # {}) => force)
       /\ job' = [job EXCEPT ![p] = [op |-> "prelabel", copy |-> run.cases, targets |-> targets]]
  /\ started' = started + 1
  /\ UNCHANGED <<run, session, edits, gold, backups, finalizer, lost, approvals>>

(* All six arms of a target, or none: the case keeps the pool it had.         *)
Pooled(cases, pools) == [d \in DOMAIN cases |-> IF d \in DOMAIN pools THEN [cases[d] EXCEPT !.pool = pools[d]] ELSE cases[d]]
(* Both passes of a target, or none: the case keeps the judgments it had.     *)
Prelabelled(cases, done) == [d \in DOMAIN cases |-> IF d \in done THEN [cases[d] EXCEPT !.labels = cases[d].pool] ELSE cases[d]]

(* The whole run is validated and written, or the file is left (exit 2).      *)
Persisted(cases) == IF ValidCases(cases) THEN Dir(cases) ELSE run

FinishPool(p) ==
  /\ job[p].op = "pool"
  /\ \E done \in SUBSET job[p].targets : \E pools \in [done -> SUBSET Passages \ {{}}] :
       run' = Persisted(Pooled(job[p].copy, pools))
  /\ job' = [job EXCEPT ![p] = Resting]
  /\ UNCHANGED <<session, started, edits, gold, backups, finalizer, lost, approvals>>
FinishPrelabel(p) ==
  /\ job[p].op = "prelabel"
  /\ \E done \in SUBSET job[p].targets : run' = Persisted(Prelabelled(job[p].copy, done))
  /\ job' = [job EXCEPT ![p] = Resting]
  /\ UNCHANGED <<session, started, edits, gold, backups, finalizer, lost, approvals>>
JobDies(p) ==
  /\ job[p].op # "rest" /\ job' = [job EXCEPT ![p] = Resting]
  /\ UNCHANGED <<run, session, started, edits, gold, backups, finalizer, lost, approvals>>

(* The row finalize makes of a case: its positive grades. *)
GoldCase(d, c) == <<d, c.query, c.tags, {<<x, c.grades[x]>> : x \in {y \in DOMAIN c.grades : c.grades[y] >= 1}}>>
(* Mutant: every finished case is exported. *)
FinishedCases(cases) == {GoldCase(d, cases[d]) : d \in {e \in DOMAIN cases : quality_eligible_for_gold(cases[e])}}
(* The approved cases (which are validated once more).                        *)
GoldCases(cases) == {GoldCase(d, cases[d]) : d \in {e \in DOMAIN cases : cases[e].status \in {"accepted", "edited"}}}

(* --- The reviewer's decisions ---------------------------------------------- *)

set_human_grade(c, x, grade) ==
  [c EXCEPT !.grades = [y \in DOMAIN c.grades \cup {x} |-> IF y = x THEN grade ELSE c.grades[y]], !.basis = c.query]
clear_human_grade(c, x) ==
  LET left == DOMAIN c.grades \ {x} IN
  [c EXCEPT !.grades = [y \in left |-> c.grades[y]], !.basis = IF left = {} THEN "none" ELSE @]

set_reviewed_query(c, q) ==
  IF c.query = q THEN c
  ELSE [c EXCEPT !.query = q, !.grades = NoGrades, !.basis = "none", !.status = "pending"]

demote_if_classification_invalid(c) ==
  IF \/ c.status = "accepted" /\ proposal_content_changed(c)
     \/ c.status = "edited" /\ ~proposal_content_changed(c)
  THEN [c EXCEPT !.status = "pending"] ELSE c
set_reviewed_tags(c, t) == demote_if_classification_invalid([c EXCEPT !.tags = t])

Approvable(c) == c.status = "pending" /\ quality_eligible_for_gold(c) /\ c.basis = c.query

(* What a case may become by one request that is not refused. *)
Decisions(c) ==
  {set_human_grade(c, x, g) : x \in {y \in c.pool : c.status = "pending" /\ (c.grades # NoGrades => c.basis = c.query)}, g \in 0..1}
  \cup {clear_human_grade(c, x) : x \in {y \in c.pool : c.status = "pending"}}
  \cup {set_reviewed_query(c, q) : q \in {"P", "E"}}
  \cup {set_reviewed_tags(c, t) : t \in {"P", "E"}}
  \cup {[c EXCEPT !.status = s] :
          s \in {u \in {"accepted", "edited"} : Approvable(c) /\ (u = "edited") = proposal_content_changed(c)}
                \cup {u \in {"rejected"} : c.status = "pending"} \cup {u \in {"pending"} : c.status \in Terminal}}

(* mutate_with_result: load, decide, validate, build the answer; then write.  *)
Decide(d) ==
  /\ session.op = "rest" /\ run.there /\ d \in DOMAIN run.cases /\ edits < MaxEdits
  /\ \E c \in Decisions(run.cases[d]) \ {run.cases[d]} :
       LET updated == [run.cases EXCEPT ![d] = c] IN
       ValidCases(updated) /\ session' = [op |-> "write", cases |-> updated]
  /\ edits' = edits + 1
  /\ UNCHANGED <<run, job, started, gold, backups, finalizer, lost, approvals>>
SaveDecision ==
  /\ session.op = "write" /\ run' = Dir(session.cases) /\ session' = Resting
  /\ approvals' = approvals \cup {GoldCase(d, session.cases[d]) :
       d \in {e \in DOMAIN session.cases : session.cases[e].status \in {"accepted", "edited"}}}
  /\ UNCHANGED <<job, started, edits, gold, backups, finalizer, lost>>

(* --- finalize and the directory swap --------------------------------------- *)

StartFinalize(f, force) ==
  /\ finalizer[f].op = "rest" /\ run.there /\ GoldCases(run.cases) # {} /\ (gold.there => force)
  /\ finalizer' = [finalizer EXCEPT ![f] = [op |-> "staged", new |-> GoldCases(run.cases)]]
  /\ UNCHANGED <<run, job, session, started, edits, gold, backups, lost, approvals>>

(* The staged directory has been validated; the old one is moved aside.       *)
MoveAside(f) ==
  /\ finalizer[f].op = "staged" /\ gold.there
  /\ gold' = Absent /\ backups' = [backups EXCEPT ![f] = gold]
  /\ finalizer' = [finalizer EXCEPT ![f].op = "aside"]
  /\ UNCHANGED <<run, job, session, started, edits, lost, approvals>>
(* A rename onto a directory that is there fails. *)
Promote(f) ==
  /\ finalizer[f].op \in {"staged", "aside"} /\ ~gold.there
  /\ gold' = Dir(finalizer[f].new)
  /\ finalizer' = [finalizer EXCEPT ![f].op = "promoted"]
  /\ UNCHANGED <<run, job, session, started, edits, backups, lost, approvals>>
Cleared(b, f) == [b EXCEPT ![f] = Absent]
RemoveBackup(f) ==
  /\ finalizer[f].op = "promoted"
  /\ backups' = Cleared(backups, f) /\ finalizer' = [finalizer EXCEPT ![f] = Resting]
  /\ UNCHANGED <<run, job, session, started, edits, gold, lost, approvals>>

(* The second rename failed: the old directory is moved back, unless another  *)
(* finalize has put its own there, which leaves it aside.                     *)
Restored(f) ==
  IF gold.there THEN UNCHANGED <<gold, backups>>
  ELSE gold' = backups[f] /\ backups' = Cleared(backups, f)
PromoteFails(f) ==
  /\ finalizer[f].op = "aside" /\ Restored(f)
  /\ finalizer' = [finalizer EXCEPT ![f] = IF gold.there THEN Ended ELSE Resting]
  /\ UNCHANGED <<run, job, session, started, edits, lost, approvals>>
(* A failure before the first rename: the staged directory is removed.        *)
StageFails(f) ==
  /\ finalizer[f].op = "staged" /\ finalizer' = [finalizer EXCEPT ![f] = Resting]
  /\ UNCHANGED <<run, job, session, started, edits, gold, backups, lost, approvals>>
FinalizerDies(f) ==
  /\ finalizer[f].op \in {"aside", "promoted"} /\ ~lost
  /\ finalizer' = [finalizer EXCEPT ![f] = Ended] /\ lost' = TRUE
  /\ UNCHANGED <<run, job, session, started, edits, gold, backups, approvals>>

AuthorInit ==
  /\ run = Absent /\ job = [p \in Jobs |-> Resting] /\ session = Resting
  /\ started = 0 /\ edits = 0 /\ gold = Absent /\ backups = [f \in Finalizers |-> Absent]
  /\ finalizer = [f \in Finalizers |-> Resting] /\ lost = FALSE /\ approvals = {}

AuthorNext ==
  \/ \E p \in Jobs : \/ \E force \in BOOLEAN : StartPropose(p, force) \/ StartPool(p, force) \/ StartPrelabel(p, force)
                     \/ \E made \in SUBSET Drafts : FinishPropose(p, made)
                     \/ FinishPool(p) \/ FinishPrelabel(p) \/ JobDies(p)
  \/ \E d \in Drafts : Decide(d)
  \/ SaveDecision
  \/ \E f \in Finalizers : \/ \E force \in BOOLEAN : StartFinalize(f, force)
                           \/ MoveAside(f) \/ Promote(f) \/ RemoveBackup(f) \/ PromoteFails(f)
                           \/ StageFails(f) \/ FinalizerDies(f)

AuthorSpec == AuthorInit /\ [][AuthorNext]_authorVars

(* --- Properties ----------------------------------------------------------- *)

(* Whichever of the jobs, the reviewer and the finalizers overlap, the run    *)
(* file loads: labels are of the pool, grades of the pool and of the query    *)
(* they were given for, and an approved case is complete.  A forced pool of a *)
(* graded or prelabelled case is what would break it.                         *)
RunFileLoads == run.there => ValidCases(run.cases)

(* A job that nobody wrote beside leaves every review as it was, and every    *)
(* decided case its pool: prelabels are advisory, a new pool is for pending   *)
(* cases only.                                                                *)
JobLeavesReviews ==
  \A p \in Jobs :
    job[p].op \in {"pool", "prelabel"} /\ job'[p].op = "rest" /\ run.there /\ run.cases = job[p].copy =>
      \A d \in DOMAIN run.cases :
        LET old == run.cases[d]  new == run'.cases[d] IN
        /\ new.status = old.status /\ new.grades = old.grades /\ new.basis = old.basis
        /\ old.status \in Terminal => new.pool = old.pool

(* Every published case is as a reviewer approved it, grade for grade, and    *)
(* has a positive one, whatever jobs overwrote in the file meanwhile.         *)
GoldIsApproved == gold.there => gold.cases \subseteq approvals /\ \A row \in gold.cases : row[4] # {}

(* Once published, a dataset is somewhere on disk at every moment, in place   *)
(* or moved aside, whatever fails or dies and whoever publishes at once.      *)
DatasetSurvives ==
  gold.there \/ (\E f \in Finalizers : backups[f].there) =>
    gold'.there \/ \E f \in Finalizers : backups'[f].there

(* After a failure the previous destination is in place again: only a process *)
(* between its two renames, or one that died there, leaves it absent          *)
(* ("the previous destination (if any) is left intact").                      *)
GapIsBrief ==
  (\E f \in Finalizers : backups[f].there) /\ ~gold.there
    => lost \/ \E f \in Finalizers : finalizer[f].op = "aside"

(* The run file always loads, and what is published of it is what a reviewer *)
(* approved, in place or on its way back.                                    *)
AuthoringIsSound == RunFileLoads /\ GoldIsApproved /\ GapIsBrief
=============================================================================
