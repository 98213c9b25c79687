------------------------------ MODULE GoldSetup ------------------------------
(***************************************************************************)
(* How a deck of review work comes about: Quick Play derives a project     *)
(* from the workspace's published snapshot, finds or generates a baseline  *)
(* for it (the bootstrap operation and its worker thread) and makes a      *)
(* campaign of it, while the workspace is mutated, projects are archived   *)
(* and campaigns closed.  Reads take no lease; the commits hold the        *)
(* workspace lease and then the project lease.                             *)
(***************************************************************************)
EXTENDS Integers, Sequences, FiniteSets, FiniteSetsExt

CONSTANTS
  Snapshots, Chunks, \* the published snapshots and the chunk set of each
  Players,           \* callers of prepare
  SetupKeys,         \* idempotency keys of bootstrap operations
  MaxRev, MaxCrash   \* bounds on workspace revisions and crashes

ASSUME SetupAssumption ==
  DOMAIN Chunks = Snapshots /\ IsFiniteSet(SetupKeys) /\ MaxRev \in Nat /\ MaxCrash \in Nat

VARIABLES
  ws,        \* the workspace record: revision and current snapshot
  project,   \* Quick Play's project of each snapshot: absent, active, archived
  baselines, \* canonical authoring runs: run, chunks
  decks,     \* campaigns: project, run, snapshot, revision, open, pending work
  ops,       \* key -> the bootstrap operation and its worker
  play,      \* each caller of prepare
  crashes

setupVars == <<ws, project, baselines, decks, ops, play, crashes>>

NoOp    == [status |-> "absent"]
AtRest  == [at |-> "rest"]
Nonterminal == {"pending", "running"}

(* --- What a caller can see ------------------------------------------------ *)

(* resolve_eligible_baseline: a run is eligible for the CURRENT snapshot. *)
EligibleBaseline(b) == b.chunks = Chunks[ws.snap]
Unused(s) == {b \in baselines : EligibleBaseline(b) /\ \A d \in decks : d.project = s => d.run # b.run}
Latest(S) == CHOOSE b \in S : \A c \in S : c.run <= b.run

(* The status of the newest operation made for project s. *)
LatestStatus(s) ==
  LET made == {k \in SetupKeys : ops[k].status # "absent" /\ ops[k].project = s} IN
  IF made = {} THEN "none"
  ELSE ops[CHOOSE k \in made : \A j \in made : ops[j].run <= ops[k].run].status
ActiveBootstrap == {k \in SetupKeys : ops[k].status \in Nonterminal}

(* _campaign_matches_identity, for the identity of snapshot s. *)
Matching(s) == {d \in decks : d.project = s /\ d.snap = s}

(* get_state, as far as prepare and its caller depend on it. *)
StateOf(s) ==
  IF project[s] = "absent" THEN "needs_generation"
  ELSE IF project[s] = "archived" THEN "blocked"
  ELSE IF \E d \in Matching(s) : d.open /\ d.pending THEN "playable"
  ELSE IF Unused(s) # {} THEN "baseline_available"
  ELSE IF LatestStatus(s) \in Nonterminal THEN "generating"
  ELSE IF LatestStatus(s) \in {"failed", "interrupted", "conflict"} THEN "generation_failed"
  ELSE IF ActiveBootstrap # {} THEN "generating"
  ELSE IF Matching(s) # {} THEN "complete" ELSE "needs_generation"

(* The workspace lease: the two commits that last hold it across writes. *)
WorkspaceHeld == \E k \in SetupKeys : ops[k].status = "running" /\ ops[k].at = "published"
ProjectHeld(s) == \E k \in SetupKeys : ops[k].status = "running" /\ ops[k].at = "published" /\ ops[k].project = s

(* --- prepare -------------------------------------------------------------- *)

(* The state decides whether there is anything to set up; then the identity  *)
(* is read again and its project made, if it is not there.                   *)
Prepare(p, action) ==
  /\ play[p].at = "rest"
  /\ \/ StateOf(ws.snap) \in {"needs_generation", "baseline_available", "generation_failed"}
     \/ StateOf(ws.snap) = "complete" /\ action = "replenish"
  /\ play' = [play EXCEPT ![p] = [at |-> "identity"]]
  /\ UNCHANGED <<ws, project, baselines, decks, ops, crashes>>

EnsureProject(p) ==
  /\ play[p].at = "identity"
  /\ project' = [project EXCEPT ![ws.snap] = IF @ = "absent" THEN "active" ELSE @]
  /\ play' = [play EXCEPT ![p] = [at |-> "project", identity |-> ws.snap]]
  /\ UNCHANGED <<ws, baselines, decks, ops, crashes>>

(* An unused baseline is taken before anything is generated.                 *)
TakeBaseline(p) ==
  LET s == play[p].identity IN
  /\ play[p].at = "project" /\ Unused(s) # {}
  /\ play' = [play EXCEPT ![p] = [at |-> "staging", identity |-> s, run |-> Latest(Unused(s)).run]]
  /\ UNCHANGED <<ws, project, baselines, decks, ops, crashes>>

(* Another operation is working: its state is the answer. *)
SeeGenerating(p) ==
  /\ play[p].at = "project" /\ Unused(play[p].identity) = {} /\ ActiveBootstrap # {}
  /\ play' = [play EXCEPT ![p] = AtRest]
  /\ UNCHANGED <<ws, project, baselines, decks, ops, crashes>>

NeedBaseline(p) ==
  /\ play[p].at = "project" /\ Unused(play[p].identity) = {} /\ ActiveBootstrap = {}
  /\ play' = [play EXCEPT ![p].at = "generate"]
  /\ UNCHANGED <<ws, project, baselines, decks, ops, crashes>>

(* --- create_campaign ------------------------------------------------------ *)

(* The early checks capture the workspace and stage the directory. *)
StageCampaign(p) ==
  LET k == play[p] IN
  /\ k.at = "staging" /\ project[k.identity] = "active"
  /\ \E b \in baselines : b.run = k.run /\ EligibleBaseline(b)
  /\ play' = [play EXCEPT ![p] = [at |-> "staged", identity |-> k.identity, run |-> k.run,
                                  rev |-> ws.rev, snap |-> ws.snap]]
  /\ UNCHANGED <<ws, project, baselines, decks, ops, crashes>>

(* Mutant: what was captured is published. *)
AsCaptured(k) == TRUE
StillCurrent(k) == project[k.identity] = "active" /\ ws.rev = k.rev /\ ws.snap = k.snap

(* Mutant: the campaign gets an id of its own. *)
AnyDestination(k) == FALSE
DestinationExists(k) == \E d \in decks : d.project = k.identity /\ d.run = k.run

(* Under the workspace and the project lease: check again, then rename.      *)
CommitCampaign(p) ==
  LET k == play[p] IN
  /\ k.at = "staged" /\ ~WorkspaceHeld /\ StillCurrent(k) /\ ~DestinationExists(k)
  /\ decks' = decks \cup {[project |-> k.identity, run |-> k.run, snap |-> k.snap, by |-> p,
                           open |-> TRUE, pending |-> TRUE]}
  /\ play' = [play EXCEPT ![p] = AtRest]
  /\ UNCHANGED <<ws, project, baselines, ops, crashes>>

(* Refused (drift, archived, already there: then that campaign is the answer) *)
(* or given up after the time for lease conflicts; the staging is removed.    *)
GiveUp(p) ==
  /\ play[p].at \in {"staging", "staged", "generate", "identity"}
  /\ play' = [play EXCEPT ![p] = AtRest]
  /\ UNCHANGED <<ws, project, baselines, decks, ops, crashes>>

(* --- start_baseline_bootstrap --------------------------------------------- *)

BootstrapBusy == ActiveBootstrap # {}

(* Under the workspace lease: reserve the operation, capture what it is for. *)
StartBootstrap(p, key) ==
  LET k == play[p] IN
  /\ k.at = "generate" /\ ~WorkspaceHeld /\ ops[key].status = "absent"
  /\ project[k.identity] = "active" /\ ~BootstrapBusy
  /\ ops' = [ops EXCEPT ![key] = [status |-> "pending", at |-> "start", project |-> k.identity, rev |-> ws.rev,
                                  snap |-> ws.snap, run |-> Cardinality({x \in SetupKeys : ops[x].status # "absent"}),
                                  sha |-> FALSE]]
  /\ play' = [play EXCEPT ![p] = AtRest]
  /\ UNCHANGED <<ws, project, baselines, decks, crashes>>

(* --- The worker ----------------------------------------------------------- *)

Ended(op, status) == [op EXCEPT !.status = status, !.at = "end", !.sha = FALSE]

(* Propose, pool and, if asked for, prelabel the captured chunk set (never    *)
(* CURRENT) in the operation's own staging directory, out of anyone's sight.  *)
RunStages(key) ==
  /\ ops[key].status = "pending"
  /\ ops' = [ops EXCEPT ![key].status = "running", ![key].at = "staged"]
  /\ UNCHANGED <<ws, project, baselines, decks, play, crashes>>

(* Any stage may fail: no usable proposal, no reviewable case, no artifact.   *)
WorkerFails(key) ==
  /\ ops[key].status \in Nonterminal /\ ops[key].at # "published"
  /\ ops' = [ops EXCEPT ![key] = Ended(@, "failed")]
  /\ UNCHANGED <<ws, project, baselines, decks, play, crashes>>

Hashed(op) == [op EXCEPT !.at = "hashed", !.sha = TRUE]
RecordHash(key) ==
  /\ ops[key].status = "running" /\ ops[key].at = "staged"
  /\ ops' = [ops EXCEPT ![key] = Hashed(@)]
  /\ UNCHANGED <<ws, project, baselines, decks, play, crashes>>

Undrifted(op) == project[op.project] = "active" /\ ws.rev = op.rev /\ ws.snap = op.snap

(* Both leases, until the operation is finished. *)
PublishBaseline(key) ==
  LET op == ops[key] IN
  /\ op.status = "running" /\ op.at = "hashed" /\ ~WorkspaceHeld /\ Undrifted(op)
  /\ baselines' = baselines \cup {[run |-> op.run, chunks |-> Chunks[op.snap]]}
  /\ ops' = [ops EXCEPT ![key].at = "published"]
  /\ UNCHANGED <<ws, project, decks, play, crashes>>

(* The published run passes the same admission a campaign will ask for. *)
FinishBootstrap(key) ==
  LET op == ops[key] IN
  /\ op.status = "running" /\ op.at = "published"
  /\ ops' = [ops EXCEPT ![key] = Ended(@,
       IF \E b \in baselines : b.run = op.run /\ EligibleBaseline(b) THEN "succeeded" ELSE "failed")]
  /\ UNCHANGED <<ws, project, baselines, decks, play, crashes>>

(* --- Around it ------------------------------------------------------------ *)

(* A mutation of the workspace publishes another snapshot, under its lease.   *)
MutateWorkspaceOf(s) ==
  /\ ~WorkspaceHeld /\ ws.rev < MaxRev /\ ws' = [rev |-> ws.rev + 1, snap |-> s]
  /\ UNCHANGED <<project, baselines, decks, ops, play, crashes>>

(* Reviewers finish a deck, or take a question up again. *)
PlayDeck(d) ==
  /\ d.open /\ decks' = (decks \ {d}) \cup {[d EXCEPT !.pending = ~@]}
  /\ UNCHANGED <<ws, project, baselines, ops, play, crashes>>
CloseDeck(d) ==
  /\ d.open /\ decks' = (decks \ {d}) \cup {[d EXCEPT !.open = FALSE]}
  /\ UNCHANGED <<ws, project, baselines, ops, play, crashes>>
ArchiveSetup(s) ==
  /\ project[s] = "active" /\ ~ProjectHeld(s) /\ project' = [project EXCEPT ![s] = "archived"]
  /\ UNCHANGED <<ws, baselines, decks, ops, play, crashes>>

(* reconcile_gold_bootstrap_operations, then interrupt_all_nonterminal.       *)
Reconciled(op) ==
  IF op.status \notin Nonterminal THEN op
  ELSE Ended(op,
         IF \A b \in baselines : b.run # op.run THEN "interrupted"
         ELSE IF ~op.sha THEN "conflict"
         ELSE IF /\ project[op.project] = "active" /\ ws.rev = op.rev /\ ws.snap = op.snap
                 /\ \E b \in baselines : b.run = op.run /\ EligibleBaseline(b)
              THEN "succeeded" ELSE "interrupted")

(* The process dies and starts again. *)
CrashSetup ==
  /\ crashes < MaxCrash /\ crashes' = crashes + 1
  /\ ops' = [k \in SetupKeys |-> Reconciled(ops[k])]
  /\ play' = [p \in Players |-> AtRest]
  /\ UNCHANGED <<ws, project, baselines, decks>>

SetupInit ==
  /\ ws \in [rev : {0}, snap : Snapshots] /\ project = [s \in Snapshots |-> "absent"]
  /\ baselines = {} /\ decks = {} /\ ops = [k \in SetupKeys |-> NoOp]
  /\ play = [p \in Players |-> AtRest] /\ crashes = 0

SetupNext ==
  \/ \E p \in Players : \/ \E a \in {"start", "replenish"} : Prepare(p, a)
                        \/ EnsureProject(p) \/ TakeBaseline(p) \/ SeeGenerating(p) \/ NeedBaseline(p)
                        \/ StageCampaign(p) \/ CommitCampaign(p) \/ GiveUp(p)
                        \/ \E k \in SetupKeys : StartBootstrap(p, k)
  \/ \E k \in SetupKeys : RunStages(k) \/ WorkerFails(k) \/ RecordHash(k) \/ PublishBaseline(k) \/ FinishBootstrap(k)
  \/ \E s \in Snapshots : MutateWorkspaceOf(s) \/ ArchiveSetup(s)
  \/ \E d \in decks : PlayDeck(d) \/ CloseDeck(d)
  \/ CrashSetup

SetupSpec == SetupInit /\ [][SetupNext]_setupVars

(* --- Properties ----------------------------------------------------------- *)

(* Operations, callers and decks are where the code can leave them; at most   *)
(* one bootstrap of the workspace is under way, so two callers never generate *)
(* at once ("baseline_bootstrap_active").                                     *)
SetupTypeOK ==
  /\ ws.rev \in 0..MaxRev /\ ws.snap \in Snapshots
  /\ \A k \in SetupKeys : ops[k].status \in Nonterminal \cup {"absent", "succeeded", "failed", "interrupted", "conflict"}
  /\ \A d \in decks : d.project \in Snapshots /\ \E b \in baselines : b.run = d.run
  /\ Cardinality(ActiveBootstrap) <= 1

(* Callers that race for one baseline, or retry after a lost answer, end in   *)
(* one campaign of it: the campaign id is derived from what it is made of.    *)
OneDeckPerBaseline ==
  \A c, d \in decks : c.project = d.project /\ c.run = d.run => c.by = d.by

(* A crash at any moment of a bootstrap is recovered without a conflict: the  *)
(* expected hash is durable before the baseline is (reconcile).               *)
RecoveryNeverConflicts == \A k \in SetupKeys : ops[k].status # "conflict"

(* A succeeded bootstrap has its baseline, of the chunk set it captured.      *)
SucceededHasBaseline ==
  \A k \in SetupKeys : ops[k].status = "succeeded" =>
    \E b \in baselines : b.run = ops[k].run /\ b.chunks = Chunks[ops[k].snap]

(* A campaign appears only while its project is active and the workspace is   *)
(* still at the snapshot the campaign is bound to, and its baseline is of that*)
(* snapshot's chunks, whatever happened while it was staged.                  *)
DeckIsOfCurrent ==
  \A d \in decks' \ decks :
    (\A c \in decks : c.project # d.project \/ c.run # d.run) =>
      /\ project[d.project] = "active" /\ d.snap = ws.snap
      /\ \E b \in baselines : b.run = d.run /\ b.chunks = Chunks[d.snap]

(* A baseline is published, and a bootstrap succeeds, after a crash too, only *)
(* while the workspace is at the revision it was captured from and the project*)
(* is active.                                                                 *)
SucceedsUndrifted ==
  \A k \in SetupKeys :
    \/ ops[k].status # "succeeded" /\ ops'[k].status = "succeeded"
    \/ ops[k].status = "running" /\ ops[k].at = "hashed" /\ ops'[k].at = "published"
    => project[ops[k].project] = "active" /\ ws.rev = ops[k].rev /\ ws.snap = ops[k].snap

(* What docs/beta_game_01_quick_play.md says of the identity: a campaign of a *)
(* Quick Play project is bound to the snapshot the project was derived from.  *)
DeckIsOfItsIdentity == \A d \in decks : d.snap = d.project

(* Setting up a campaign ends in one deck per baseline, with the baseline   *)
(* it claims, whoever races for it and whenever the process dies.           *)
SetupIsSound ==
  SetupTypeOK /\ OneDeckPerBaseline /\ RecoveryNeverConflicts /\ SucceededHasBaseline
=============================================================================
