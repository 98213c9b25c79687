--------------------------- MODULE GoldLabProofs ----------------------------
(***************************************************************************)
(* Proofs about the Gold Lab, for any number of snapshots, callers, keys,  *)
(* campaigns, cases and reviewers. First how decks come about (GoldSetup), *)
(* then how campaigns are reviewed and exported (GoldLedger).              *)
(*                                                                         *)
(* The second half rests on LedgerInv: the books agree (every reservation  *)
(* has an id of its own and every record under it its key), calls hold     *)
(* what they reserved, and whatever was exported is a prefix's projection  *)
(* whose grades the ledger holds. Ledgers only grow at their end, and one  *)
(* lemma per action shows what that leaves of each part.                   *)
(***************************************************************************)
EXTENDS MCGoldLab, FiniteSetTheorems, WellFoundedInduction, TLAPS

OpRecords ==
    [status: Nonterminal \cup {"succeeded", "failed", "interrupted", "conflict"},
     at: {"start", "staged", "hashed", "published", "end"}, project: Snapshots, rev: Nat,
     snap: Snapshots, run: Nat, sha: BOOLEAN]
DeckRecords ==
    [project: Snapshots, run: Nat, snap: Snapshots, by: Players, open: BOOLEAN, pending: BOOLEAN]
Asked == [at: {"project", "generate"}, identity: Snapshots]
Staged == [at: {"staged"}, identity: Snapshots, run: Nat, rev: Nat, snap: Snapshots]

\* The operations that were ever reserved.
Started == {k \in SetupKeys : ops[k].status # "absent"}

\* The baseline that an operation publishes, or a deck is made of.
HasBaseline(run, snap) == \E b \in baselines : b.run = run /\ b.chunks = Chunks[snap]

\* The shape of the state.
SetupShape ==
    /\ ws \in [rev: 0..MaxRev, snap: Snapshots]
    /\ project \in [Snapshots -> {"absent", "active", "archived"}]
    /\ \A b \in baselines : b.run \in Nat
    /\ decks \subseteq DeckRecords
    /\ ops = [k \in SetupKeys |-> ops[k]]
    /\ \A k \in Started : ops[k] \in OpRecords
    /\ play = [p \in Players |-> play[p]]

\* What a caller has by each step of prepare and create_campaign.
CallerOf(k) ==
    /\ k.at \in {"project", "generate"} => k \in Asked
    /\ k.at = "staging" => k.identity \in Snapshots
    /\ k.at = "staged" => k \in Staged /\ HasBaseline(k.run, k.snap)

\* How far an operation has come says what it has made durable.
OperationOf(op) ==
    /\ op.status = "pending" => op.at = "start"
    /\ op.status = "running" => op.at \in {"staged", "hashed", "published"}
    /\ op.status = "running" /\ op.at \in {"hashed", "published"} => op.sha
    /\ op.status = "running" /\ op.at = "published" => Undrifted(op)
    /\ op.status = "succeeded" \/ (op.status = "running" /\ op.at = "published")
          => HasBaseline(op.run, op.snap)
    /\ op.status # "conflict"

\* Operations have numbers of their own, one is under way at a time, and each
\* baseline was published by the operation whose number it has.
Numbered ==
    /\ \A k \in Started : ops[k].run < Cardinality(Started)
    /\ \A j, k \in Started : ops[j].run = ops[k].run => j = k
    /\ \A j, k \in ActiveBootstrap : j = k
    /\ \A b \in baselines : \E k \in Started :
          ops[k].run = b.run /\ (ops[k].status \in Nonterminal => ops[k].at = "published")

\* Every deck is made of a baseline, and by one caller.
DecksAreMade ==
    /\ \A d \in decks : \E b \in baselines : b.run = d.run
    /\ OneDeckPerBaseline

\* The inductive invariant.
SetupInv ==
    /\ SetupShape
    /\ \A p \in Players : CallerOf(play[p])
    /\ \A k \in Started : OperationOf(ops[k])
    /\ Numbered
    /\ DecksAreMade

USE SetupAssumption

-----------------------------------------------------------------------------
(* What the steps have in common                                           *)

\* A step of one caller.
LEMMA CallerMoves ==
    ASSUME SetupInv, NEW p \in Players, NEW y, CallerOf(y), play' = [play EXCEPT ![p] = y],
           UNCHANGED <<ws, project, baselines, decks, ops>>
    PROVE  SetupInv'
<1>1. play'[p] = y /\ \A q \in Players : q # p => play'[q] = play[q]
  BY DEF SetupInv, SetupShape
<1>2. play' = [q \in Players |-> play'[q]]
  BY DEF SetupInv, SetupShape
<1>3. \A q \in Players : CallerOf(play[q])'
  BY <1>1 DEF SetupInv, CallerOf, HasBaseline
<1>4. Started' = Started /\ ActiveBootstrap' = ActiveBootstrap
  BY DEF Started, ActiveBootstrap
<1>5. SetupShape'
  BY <1>2, <1>4 DEF SetupInv, SetupShape
<1>6. \A k \in Started : OperationOf(ops[k])'
  BY <1>4 DEF SetupInv, OperationOf, HasBaseline, Undrifted
<1>7. Numbered' /\ DecksAreMade'
  BY <1>4 DEF SetupInv, Numbered, DecksAreMade, OneDeckPerBaseline
<1>q. QED
  BY <1>3, <1>4, <1>5, <1>6, <1>7 DEF SetupInv

\* A step of the worker of one operation, other than the publication.
LEMMA WorkerMoves ==
    ASSUME SetupInv, NEW key \in Started, NEW y \in OpRecords, OperationOf(y),
           y.run = ops[key].run,
           y.status \in Nonterminal => ops[key].status \in Nonterminal /\ ops[key].at # "published",
           ops' = [ops EXCEPT ![key] = y],
           UNCHANGED <<ws, project, baselines, decks, play>>
    PROVE  SetupInv'
<1>1. /\ key \in SetupKeys /\ ops'[key] = y /\ y.status # "absent"
      /\ \A k \in SetupKeys : k # key => ops'[k] = ops[k]
      /\ ops' = [k \in SetupKeys |-> ops'[k]]
  BY DEF SetupInv, SetupShape, Started, OpRecords, Nonterminal
<1>2. Started' = Started
  BY <1>1 DEF Started
<1>3. ActiveBootstrap' \subseteq ActiveBootstrap
  BY <1>1 DEF ActiveBootstrap
<1>4. SetupShape'
  BY <1>1, <1>2 DEF SetupInv, SetupShape, Started
<1>5. \A p \in Players : CallerOf(play[p])'
  BY DEF SetupInv, CallerOf, HasBaseline
<1>6. OperationOf(y)'
  BY DEF OperationOf, HasBaseline, Undrifted
<1>7. \A k \in Started : OperationOf(ops[k])'
  <2>. SUFFICES ASSUME NEW k \in Started PROVE OperationOf(ops[k])'
    OBVIOUS
  <2>1. CASE k = key
    BY <1>1, <1>6, <2>1 DEF OperationOf, HasBaseline, Undrifted
  <2>2. CASE k # key
    <3>1. ops'[k] = ops[k] /\ OperationOf(ops[k])
      BY <1>1, <2>2 DEF SetupInv, Started
    <3>q. QED
      BY <3>1 DEF OperationOf, HasBaseline, Undrifted
  <2>q. QED
    BY <2>1, <2>2
<1>8. \A k \in Started : ops'[k].run = ops[k].run
  BY <1>1 DEF Started
<1>9. Numbered'
  <2>1. \A b \in baselines : \E k \in Started :
           ops'[k].run = b.run /\ (ops'[k].status \in Nonterminal => ops'[k].at = "published")
    <3>. SUFFICES ASSUME NEW b \in baselines
                  PROVE  \E k \in Started : /\ ops'[k].run = b.run
                                            /\ ops'[k].status \in Nonterminal => ops'[k].at = "published"
      OBVIOUS
    <3>1. PICK k \in Started : /\ ops[k].run = b.run
                               /\ ops[k].status \in Nonterminal => ops[k].at = "published"
      BY DEF SetupInv, Numbered
    <3>2. ops'[k].status \in Nonterminal => ops'[k].at = "published"
      BY <1>1, <3>1 DEF Started
    <3>q. QED
      BY <1>8, <3>1, <3>2
  <2>q. QED
    BY <1>2, <1>3, <1>8, <2>1 DEF SetupInv, Numbered
<1>10. DecksAreMade'
  BY DEF SetupInv, DecksAreMade, OneDeckPerBaseline
<1>q. QED
  BY <1>2, <1>4, <1>5, <1>7, <1>9, <1>10 DEF SetupInv

-----------------------------------------------------------------------------
(* prepare and create_campaign                                             *)

LEMMA PrepareStep ==
    ASSUME SetupInv, NEW p \in Players, NEW a, Prepare(p, a)
    PROVE  SetupInv'
<1>1. CallerOf([at |-> "identity"])
  BY DEF CallerOf
<1>q. QED
  BY <1>1, CallerMoves DEF Prepare

LEMMA EnsureProjectStep ==
    ASSUME SetupInv, NEW p \in Players, EnsureProject(p)
    PROVE  SetupInv'
<1>. DEFINE y == [at |-> "project", identity |-> ws.snap]
<1>1. ws.snap \in Snapshots /\ y \in Asked /\ y.at = "project"
  BY DEF SetupInv, SetupShape, Asked
<1>2. play' = [play EXCEPT ![p] = y] /\ UNCHANGED <<ws, baselines, decks, ops>>
  BY DEF EnsureProject
<1>. HIDE DEF y
<1>3. play'[p] = y /\ \A q \in Players : q # p => play'[q] = play[q]
  BY <1>2 DEF SetupInv, SetupShape
<1>4. \A q \in Players : CallerOf(play[q])'
  BY <1>1, <1>2, <1>3 DEF SetupInv, CallerOf, HasBaseline
<1>5. Started' = Started /\ ActiveBootstrap' = ActiveBootstrap
  BY <1>2 DEF Started, ActiveBootstrap
<1>6. /\ project' \in [Snapshots -> {"absent", "active", "archived"}]
      /\ \A s \in Snapshots : project[s] = "active" => project'[s] = "active"
  BY <1>1 DEF EnsureProject, SetupInv, SetupShape
<1>7. SetupShape'
  BY <1>2, <1>5, <1>6 DEF SetupInv, SetupShape
<1>8. \A k \in Started : OperationOf(ops[k])'
  <2>. SUFFICES ASSUME NEW k \in Started PROVE OperationOf(ops[k])'
    OBVIOUS
  <2>1. OperationOf(ops[k]) /\ ops[k].project \in Snapshots
    BY DEF SetupInv, SetupShape, OpRecords
  <2>q. QED
    BY <1>2, <1>6, <2>1 DEF OperationOf, HasBaseline, Undrifted
<1>9. Numbered' /\ DecksAreMade'
  BY <1>2, <1>5 DEF SetupInv, Numbered, DecksAreMade, OneDeckPerBaseline
<1>q. QED
  BY <1>4, <1>5, <1>7, <1>8, <1>9 DEF SetupInv

LEMMA TakeBaselineStep ==
    ASSUME SetupInv, NEW p \in Players, TakeBaseline(p)
    PROVE  SetupInv'
<1>. DEFINE y == [at |-> "staging", identity |-> play[p].identity,
                  run |-> Latest(Unused(play[p].identity)).run]
<1>1. play[p].identity \in Snapshots
  BY DEF TakeBaseline, SetupInv, CallerOf, Asked
<1>2. CallerOf(y)
  BY <1>1 DEF CallerOf
<1>3. play' = [play EXCEPT ![p] = y] /\ UNCHANGED <<ws, project, baselines, decks, ops>>
  BY DEF TakeBaseline
<1>q. QED
  BY <1>2, <1>3, CallerMoves

LEMMA RestStep ==
    ASSUME SetupInv, NEW p \in Players, SeeGenerating(p) \/ GiveUp(p)
    PROVE  SetupInv'
<1>1. CallerOf(AtRest)
  BY DEF CallerOf, AtRest
<1>q. QED
  BY <1>1, CallerMoves DEF SeeGenerating, GiveUp

LEMMA NeedBaselineStep ==
    ASSUME SetupInv, NEW p \in Players, NeedBaseline(p)
    PROVE  SetupInv'
<1>. DEFINE y == [play[p] EXCEPT !.at = "generate"]
<1>1. play[p] \in Asked
  BY DEF NeedBaseline, SetupInv, CallerOf
<1>2. y \in Asked /\ y.at = "generate"
  BY <1>1 DEF Asked
<1>3. play' = [play EXCEPT ![p] = y] /\ UNCHANGED <<ws, project, baselines, decks, ops>>
  BY DEF NeedBaseline
<1>. HIDE DEF y
<1>4. CallerOf(y)
  BY <1>2 DEF CallerOf
<1>q. QED
  BY <1>3, <1>4, CallerMoves

\* The checks before the staging find the baseline and the snapshot it is of.
LEMMA StageCampaignStep ==
    ASSUME SetupInv, NEW p \in Players, StageCampaign(p)
    PROVE  SetupInv'
<1>. DEFINE y == [at |-> "staged", identity |-> play[p].identity, run |-> play[p].run,
                  rev |-> ws.rev, snap |-> ws.snap]
<1>1. PICK b \in baselines : b.run = play[p].run /\ b.chunks = Chunks[ws.snap]
  BY DEF StageCampaign, EligibleBaseline
<1>2. ws.rev \in Nat /\ ws.snap \in Snapshots /\ b.run \in Nat
  BY DEF SetupInv, SetupShape
<1>3. play[p].identity \in Snapshots
  BY DEF StageCampaign, SetupInv, CallerOf
<1>4. y \in Staged /\ y.at = "staged" /\ y.run = b.run /\ y.snap = ws.snap
  BY <1>1, <1>2, <1>3 DEF Staged
<1>5. play' = [play EXCEPT ![p] = y] /\ UNCHANGED <<ws, project, baselines, decks, ops>>
  BY DEF StageCampaign
<1>. HIDE DEF y
<1>6. CallerOf(y)
  BY <1>1, <1>4 DEF CallerOf, HasBaseline
<1>q. QED
  BY <1>5, <1>6, CallerMoves

\* The decks change: each new one keeps the project, the run and the caller of
\* an old one, or is the first of its project and run.
LEMMA DecksChange ==
    ASSUME SetupInv, decks' \subseteq DeckRecords,
           play' = [p \in Players |-> play'[p]],
           \A p \in Players : play'[p] = play[p] \/ play'[p] = AtRest,
           \A d \in decks' : \E b \in baselines : b.run = d.run,
           OneDeckPerBaseline',
           UNCHANGED <<ws, project, baselines, ops>>
    PROVE  SetupInv'
<1>1. Started' = Started /\ ActiveBootstrap' = ActiveBootstrap
  BY DEF Started, ActiveBootstrap
<1>2. SetupShape'
  BY <1>1 DEF SetupInv, SetupShape
<1>3. \A p \in Players : CallerOf(play[p])'
  BY DEF SetupInv, CallerOf, HasBaseline, AtRest
<1>4. \A k \in Started : OperationOf(ops[k])'
  BY DEF SetupInv, OperationOf, HasBaseline, Undrifted
<1>5. Numbered' /\ DecksAreMade'
  BY <1>1 DEF SetupInv, Numbered, DecksAreMade
<1>q. QED
  BY <1>1, <1>2, <1>3, <1>4, <1>5 DEF SetupInv

LEMMA CommitCampaignStep ==
    ASSUME SetupInv, NEW p \in Players, CommitCampaign(p)
    PROVE  SetupInv'
<1>. DEFINE k == play[p]
            new == [project |-> k.identity, run |-> k.run, snap |-> k.snap, by |-> p,
                    open |-> TRUE, pending |-> TRUE]
<1>1. k \in Staged /\ HasBaseline(k.run, k.snap) /\ ~DestinationExists(k)
  BY DEF CommitCampaign, SetupInv, CallerOf
<1>2. /\ decks' = decks \cup {new} /\ play' = [play EXCEPT ![p] = AtRest]
      /\ UNCHANGED <<ws, project, baselines, ops>>
  BY DEF CommitCampaign
<1>3. new \in DeckRecords /\ new.project = k.identity /\ new.run = k.run
  BY <1>1 DEF DeckRecords, Staged
<1>. HIDE DEF new, k
<1>4. /\ play' = [q \in Players |-> play'[q]]
      /\ \A q \in Players : play'[q] = play[q] \/ play'[q] = AtRest
  BY <1>2 DEF SetupInv, SetupShape
<1>5. \A d \in decks' : \E b \in baselines : b.run = d.run
  BY <1>1, <1>2, <1>3 DEF SetupInv, DecksAreMade, HasBaseline
<1>6. \A d \in decks : ~(d.project = new.project /\ d.run = new.run)
  BY <1>1, <1>3 DEF DestinationExists
<1>7. OneDeckPerBaseline'
  BY <1>2, <1>6 DEF SetupInv, DecksAreMade, OneDeckPerBaseline
<1>8. decks' \subseteq DeckRecords
  BY <1>2, <1>3 DEF SetupInv, SetupShape
<1>q. QED
  BY <1>2, <1>4, <1>5, <1>7, <1>8, DecksChange

\* Reviewers change no more of a deck than whether it is open and has work left.
LEMMA ReviewStep ==
    ASSUME SetupInv, NEW d \in decks, PlayDeck(d) \/ CloseDeck(d)
    PROVE  SetupInv'
<1>1. d \in DeckRecords
  BY DEF SetupInv, SetupShape
<1>2. PICK y \in DeckRecords : /\ decks' = (decks \ {d}) \cup {y}
                               /\ y.project = d.project /\ y.run = d.run /\ y.by = d.by
  <2>1. CASE PlayDeck(d)
    <3>1. [d EXCEPT !.pending = ~@] \in DeckRecords
      BY <1>1 DEF DeckRecords
    <3>2. /\ [d EXCEPT !.pending = ~@].project = d.project
          /\ [d EXCEPT !.pending = ~@].run = d.run /\ [d EXCEPT !.pending = ~@].by = d.by
      BY <1>1 DEF DeckRecords
    <3>q. QED
      BY <2>1, <3>1, <3>2 DEF PlayDeck
  <2>2. CASE CloseDeck(d)
    <3>1. [d EXCEPT !.open = FALSE] \in DeckRecords
      BY <1>1 DEF DeckRecords
    <3>2. /\ [d EXCEPT !.open = FALSE].project = d.project
          /\ [d EXCEPT !.open = FALSE].run = d.run /\ [d EXCEPT !.open = FALSE].by = d.by
      BY <1>1 DEF DeckRecords
    <3>q. QED
      BY <2>2, <3>1, <3>2 DEF CloseDeck
  <2>q. QED
    BY <2>1, <2>2
<1>3. UNCHANGED <<ws, project, baselines, ops, play>>
  BY DEF PlayDeck, CloseDeck
<1>4. decks' \subseteq DeckRecords /\ play' = [q \in Players |-> play'[q]]
  BY <1>2, <1>3 DEF SetupInv, SetupShape
<1>5. \A x \in decks' : \E o \in decks : x.project = o.project /\ x.run = o.run /\ x.by = o.by
  BY <1>2
<1>6. \A x \in decks' : \E b \in baselines : b.run = x.run
  BY <1>5 DEF SetupInv, DecksAreMade
<1>7. OneDeckPerBaseline'
  BY <1>5 DEF SetupInv, DecksAreMade, OneDeckPerBaseline
<1>q. QED
  BY <1>3, <1>4, <1>6, <1>7, DecksChange

-----------------------------------------------------------------------------
(* The bootstrap operation                                                 *)

\* A reserved operation gets a number that no other has, because the number
\* counts the operations before it.
LEMMA StartBootstrapStep ==
    ASSUME SetupInv, NEW p \in Players, NEW key \in SetupKeys, StartBootstrap(p, key)
    PROVE  SetupInv'
<1>. DEFINE n == Cardinality(Started)
            y == [status |-> "pending", at |-> "start", project |-> play[p].identity, rev |-> ws.rev,
                  snap |-> ws.snap, run |-> n, sha |-> FALSE]
<1>1. IsFiniteSet(Started) /\ n \in Nat
  BY FS_Subset, FS_CardinalityType DEF Started
<1>2. play[p].identity \in Snapshots /\ ws.rev \in Nat /\ ws.snap \in Snapshots
  BY DEF StartBootstrap, SetupInv, SetupShape, CallerOf, Asked
<1>3. /\ y \in OpRecords /\ y.status = "pending" /\ y.at = "start" /\ y.run = n
  BY <1>1, <1>2 DEF OpRecords, Nonterminal
<1>4. /\ ops' = [ops EXCEPT ![key] = y] /\ play' = [play EXCEPT ![p] = AtRest]
      /\ ops[key].status = "absent" /\ ActiveBootstrap = {}
      /\ UNCHANGED <<ws, project, baselines, decks>>
  BY DEF StartBootstrap, Started, BootstrapBusy
<1>. HIDE DEF y
<1>5. /\ ops'[key] = y /\ \A k \in SetupKeys : k # key => ops'[k] = ops[k]
      /\ ops' = [k \in SetupKeys |-> ops'[k]]
  BY <1>4 DEF SetupInv, SetupShape
<1>6. Started' = Started \cup {key} /\ key \notin Started
  BY <1>3, <1>4, <1>5 DEF Started
<1>7. Cardinality(Started') = n + 1
  BY <1>1, <1>6, FS_AddElement
<1>. HIDE DEF n
<1>8. /\ play' = [q \in Players |-> play'[q]]
      /\ \A q \in Players : play'[q] = play[q] \/ play'[q] = AtRest
  BY <1>4 DEF SetupInv, SetupShape
<1>9. \A k \in Started : ops'[k] = ops[k] /\ k \in SetupKeys
  BY <1>5, <1>6 DEF Started
<1>10. SetupShape'
  BY <1>3, <1>4, <1>5, <1>6, <1>8, <1>9 DEF SetupInv, SetupShape
<1>11. \A q \in Players : CallerOf(play[q])'
  BY <1>4, <1>8 DEF SetupInv, CallerOf, HasBaseline, AtRest
<1>12. \A k \in Started' : OperationOf(ops[k])'
  <2>1. OperationOf(ops[key])'
    BY <1>3, <1>5 DEF OperationOf
  <2>2. ASSUME NEW k \in Started PROVE OperationOf(ops[k])'
    <3>1. OperationOf(ops[k]) /\ ops'[k] = ops[k]
      BY <1>9 DEF SetupInv
    <3>q. QED
      BY <1>4, <3>1 DEF OperationOf, HasBaseline, Undrifted
  <2>q. QED
    BY <1>6, <2>1, <2>2
<1>13. Numbered'
  <2>1. \A k \in Started : ops[k].run < n /\ ops[k].run \in Nat
    BY DEF SetupInv, SetupShape, Numbered, OpRecords, n
  <2>2. \A k \in Started' : ops'[k].run < Cardinality(Started')
    BY <1>1, <1>3, <1>5, <1>6, <1>7, <1>9, <2>1
  <2>3. \A j, k \in Started' : ops'[j].run = ops'[k].run => j = k
    BY <1>1, <1>3, <1>5, <1>6, <1>9, <2>1 DEF SetupInv, Numbered
  <2>4. ActiveBootstrap' \subseteq {key}
    BY <1>4, <1>5 DEF ActiveBootstrap
  <2>5. \A b \in baselines : \E k \in Started' :
           ops'[k].run = b.run /\ (ops'[k].status \in Nonterminal => ops'[k].at = "published")
    BY <1>6, <1>9 DEF SetupInv, Numbered
  <2>q. QED
    BY <1>4, <2>2, <2>3, <2>4, <2>5 DEF Numbered
<1>14. DecksAreMade'
  BY <1>4 DEF SetupInv, DecksAreMade, OneDeckPerBaseline
<1>q. QED
  BY <1>10, <1>11, <1>12, <1>13, <1>14 DEF SetupInv

\* What ends an operation leaves its number and its snapshot.
LEMMA EndedRecord ==
    ASSUME NEW op \in OpRecords, NEW status \in {"succeeded", "failed", "interrupted", "conflict"}
    PROVE  /\ Ended(op, status) \in OpRecords /\ Ended(op, status).status = status
           /\ Ended(op, status).run = op.run /\ Ended(op, status).snap = op.snap
BY DEF Ended, OpRecords

\* The stages, the hash and a failure are steps of the worker alone.
LEMMA RunStagesStep ==
    ASSUME SetupInv, NEW key \in SetupKeys, RunStages(key)
    PROVE  SetupInv'
<1>. DEFINE y == [ops[key] EXCEPT !.status = "running", !.at = "staged"]
<1>1. key \in Started /\ ops[key] \in OpRecords /\ ops[key].at = "start" /\ ops[key].status = "pending"
  BY DEF RunStages, Started, SetupInv, SetupShape, OperationOf
<1>2. y \in OpRecords /\ y.status = "running" /\ y.at = "staged" /\ y.run = ops[key].run
  BY <1>1 DEF OpRecords, Nonterminal
<1>3. ops' = [ops EXCEPT ![key] = y] /\ UNCHANGED <<ws, project, baselines, decks, play>>
  BY DEF RunStages
<1>. HIDE DEF y
<1>4. OperationOf(y)
  BY <1>2 DEF OperationOf
<1>q. QED
  BY <1>1, <1>2, <1>3, <1>4, WorkerMoves DEF Nonterminal

LEMMA RecordHashStep ==
    ASSUME SetupInv, NEW key \in SetupKeys, RecordHash(key)
    PROVE  SetupInv'
<1>. DEFINE y == Hashed(ops[key])
<1>1. key \in Started /\ ops[key] \in OpRecords /\ ops[key].at = "staged" /\ ops[key].status = "running"
  BY DEF RecordHash, Started, SetupInv, SetupShape
<1>2. /\ y \in OpRecords /\ y.status = "running" /\ y.at = "hashed" /\ y.run = ops[key].run
      /\ y.sha
  BY <1>1 DEF OpRecords, Nonterminal, Hashed
<1>3. ops' = [ops EXCEPT ![key] = y] /\ UNCHANGED <<ws, project, baselines, decks, play>>
  BY DEF RecordHash
<1>. HIDE DEF y
<1>4. OperationOf(y)
  BY <1>2 DEF OperationOf
<1>q. QED
  BY <1>1, <1>2, <1>3, <1>4, WorkerMoves DEF Nonterminal

LEMMA WorkerFailsStep ==
    ASSUME SetupInv, NEW key \in SetupKeys, WorkerFails(key)
    PROVE  SetupInv'
<1>. DEFINE y == Ended(ops[key], "failed")
<1>1. key \in Started /\ ops[key] \in OpRecords
  BY DEF WorkerFails, Started, SetupInv, SetupShape, Nonterminal
<1>2. y \in OpRecords /\ y.status = "failed" /\ y.run = ops[key].run
  BY <1>1, EndedRecord
<1>3. ops' = [ops EXCEPT ![key] = y] /\ UNCHANGED <<ws, project, baselines, decks, play>>
  BY DEF WorkerFails
<1>. HIDE DEF y
<1>4. OperationOf(y)
  BY <1>2 DEF OperationOf
<1>q. QED
  BY <1>1, <1>2, <1>3, <1>4, WorkerMoves DEF Nonterminal

\* The published baseline is of what the operation captured, so that it is
\* found when the operation succeeds.
LEMMA FinishBootstrapStep ==
    ASSUME SetupInv, NEW key \in SetupKeys, FinishBootstrap(key)
    PROVE  SetupInv'
<1>. DEFINE found == \E b \in baselines : b.run = ops[key].run /\ EligibleBaseline(b)
            y == Ended(ops[key], IF found THEN "succeeded" ELSE "failed")
<1>1. /\ key \in Started /\ ops[key] \in OpRecords
      /\ ops[key].status = "running" /\ ops[key].at = "published" /\ OperationOf(ops[key])
  BY DEF FinishBootstrap, Started, SetupInv, SetupShape
<1>2. HasBaseline(ops[key].run, ops[key].snap)
  BY <1>1 DEF OperationOf
<1>3. /\ y \in OpRecords /\ y.status \in {"succeeded", "failed"}
      /\ y.run = ops[key].run /\ y.snap = ops[key].snap
  BY <1>1, EndedRecord
<1>4. ops' = [ops EXCEPT ![key] = y] /\ UNCHANGED <<ws, project, baselines, decks, play>>
  BY DEF FinishBootstrap
<1>. HIDE DEF y, found
<1>5. OperationOf(y)
  BY <1>2, <1>3 DEF OperationOf
<1>q. QED
  BY <1>1, <1>3, <1>4, <1>5, WorkerMoves DEF Nonterminal

\* The baseline gets the number of its operation, which is the one under way.
LEMMA PublishBaselineStep ==
    ASSUME SetupInv, NEW key \in SetupKeys, PublishBaseline(key)
    PROVE  SetupInv'
<1>. DEFINE op == ops[key]
            new == [run |-> op.run, chunks |-> Chunks[op.snap]]
            y == [op EXCEPT !.at = "published"]
<1>1. /\ key \in Started /\ op \in OpRecords /\ op.status = "running" /\ op.at = "hashed"
      /\ OperationOf(op) /\ Undrifted(op)
  BY DEF PublishBaseline, Started, SetupInv, SetupShape
<1>2. /\ y \in OpRecords /\ y.status = "running" /\ y.at = "published" /\ y.run = op.run
      /\ y.snap = op.snap /\ y.sha = op.sha /\ y.rev = op.rev /\ y.project = op.project
  BY <1>1 DEF OpRecords, Nonterminal
<1>3. new.run = op.run /\ new.chunks = Chunks[op.snap]
  OBVIOUS
<1>4. /\ ops' = [ops EXCEPT ![key] = y] /\ baselines' = baselines \cup {new}
      /\ UNCHANGED <<ws, project, decks, play>>
  BY DEF PublishBaseline
<1>. HIDE DEF y, new
<1>5. /\ ops'[key] = y /\ \A k \in SetupKeys : k # key => ops'[k] = ops[k]
      /\ ops' = [k \in SetupKeys |-> ops'[k]]
  BY <1>4 DEF SetupInv, SetupShape
<1>6. Started' = Started /\ ActiveBootstrap' = ActiveBootstrap
  BY <1>1, <1>2, <1>5 DEF Started, ActiveBootstrap, Nonterminal
<1>7. \A run, snap : HasBaseline(run, snap) => HasBaseline(run, snap)'
  BY <1>4 DEF HasBaseline
<1>8. SetupShape'
  <2>1. \A b \in baselines' : b.run \in Nat
    BY <1>1, <1>3, <1>4 DEF SetupInv, SetupShape, OpRecords
  <2>2. \A k \in Started : ops'[k] \in OpRecords
    BY <1>2, <1>5 DEF SetupInv, SetupShape, Started
  <2>q. QED
    BY <1>4, <1>5, <1>6, <2>1, <2>2 DEF SetupInv, SetupShape
<1>9. \A p \in Players : CallerOf(play[p])'
  BY <1>4, <1>7 DEF SetupInv, CallerOf
<1>10. OperationOf(ops[key])'
  <2>1. \E b \in baselines' : b.run = y.run /\ b.chunks = Chunks[y.snap]
    BY <1>2, <1>3, <1>4
  <2>2. y.sha /\ project'[y.project] = "active" /\ ws'.rev = y.rev /\ ws'.snap = y.snap
    BY <1>1, <1>2, <1>4 DEF OperationOf, Undrifted
  <2>q. QED
    BY <1>2, <1>5, <2>1, <2>2 DEF OperationOf, HasBaseline, Undrifted
<1>11. ASSUME NEW k \in Started, k # key PROVE OperationOf(ops[k])'
  <2>1. OperationOf(ops[k]) /\ ops'[k] = ops[k]
    BY <1>5, <1>11 DEF SetupInv, Started
  <2>q. QED
    BY <1>4, <1>7, <2>1 DEF OperationOf, Undrifted
<1>12. Numbered'
  <2>1. \A k \in Started : ops'[k].run = ops[k].run
    BY <1>2, <1>5 DEF Started
  <2>2. ASSUME NEW b \in baselines'
        PROVE  \E k \in Started : /\ ops'[k].run = b.run
                                  /\ ops'[k].status \in Nonterminal => ops'[k].at = "published"
    <3>1. CASE b = new
      BY <1>1, <1>2, <1>3, <1>5, <3>1
    <3>2. CASE b \in baselines
      <4>1. PICK k \in Started : /\ ops[k].run = b.run
                                 /\ ops[k].status \in Nonterminal => ops[k].at = "published"
        BY <3>2 DEF SetupInv, Numbered
      <4>2. ops'[k].status \in Nonterminal => ops'[k].at = "published"
        BY <1>2, <1>5, <4>1 DEF Started
      <4>q. QED
        BY <2>1, <4>1, <4>2
    <3>q. QED
      BY <1>4, <3>1, <3>2
  <2>q. QED
    BY <1>6, <2>1, <2>2 DEF SetupInv, Numbered
<1>13. DecksAreMade'
  BY <1>4 DEF SetupInv, DecksAreMade, OneDeckPerBaseline
<1>q. QED
  BY <1>6, <1>8, <1>9, <1>10, <1>11, <1>12, <1>13 DEF SetupInv

-----------------------------------------------------------------------------
(* The workspace, the projects and crashes                                 *)

\* The workspace moves or a project is archived: not under a publication, which
\* holds the leases of both.
LEMMA AroundStep ==
    ASSUME SetupInv, NEW s \in Snapshots, MutateWorkspaceOf(s) \/ ArchiveSetup(s)
    PROVE  SetupInv'
<1>1. UNCHANGED <<baselines, decks, ops, play>>
  BY DEF MutateWorkspaceOf, ArchiveSetup
<1>2. Started' = Started /\ ActiveBootstrap' = ActiveBootstrap
  BY <1>1 DEF Started, ActiveBootstrap
<1>3. ws' \in [rev: 0..MaxRev, snap: Snapshots]
  <2>1. ws \in [rev: 0..MaxRev, snap: Snapshots]
    BY DEF SetupInv, SetupShape
  <2>2. CASE MutateWorkspaceOf(s)
    BY <2>1, <2>2 DEF MutateWorkspaceOf
  <2>3. CASE ArchiveSetup(s)
    BY <2>1, <2>3 DEF ArchiveSetup
  <2>q. QED
    BY <2>2, <2>3
<1>4. project' \in [Snapshots -> {"absent", "active", "archived"}]
  BY DEF SetupInv, SetupShape, MutateWorkspaceOf, ArchiveSetup
<1>5. SetupShape'
  BY <1>1, <1>2, <1>3, <1>4 DEF SetupInv, SetupShape
<1>6. \A p \in Players : CallerOf(play[p])'
  BY <1>1 DEF SetupInv, CallerOf, HasBaseline
<1>7. ASSUME NEW k \in Started PROVE OperationOf(ops[k])'
  <2>1. OperationOf(ops[k]) /\ ops[k] \in OpRecords /\ k \in SetupKeys
    BY DEF SetupInv, SetupShape, Started
  <2>2. CASE ops[k].status = "running" /\ ops[k].at = "published"
    <3>1. Undrifted(ops[k])
      BY <2>1, <2>2 DEF OperationOf
    <3>2. WorkspaceHeld /\ ProjectHeld(ops[k].project)
      BY <2>1, <2>2 DEF WorkspaceHeld, ProjectHeld
    <3>3. Undrifted(ops[k])'
      BY <1>1, <2>1, <3>1, <3>2 DEF Undrifted, MutateWorkspaceOf, ArchiveSetup, SetupInv, SetupShape, OpRecords
    <3>q. QED
      BY <1>1, <2>1, <3>3 DEF OperationOf, HasBaseline
  <2>3. CASE ~(ops[k].status = "running" /\ ops[k].at = "published")
    BY <1>1, <2>1, <2>3 DEF OperationOf, HasBaseline
  <2>q. QED
    BY <2>2, <2>3
<1>8. Numbered' /\ DecksAreMade'
  BY <1>1, <1>2 DEF SetupInv, Numbered, DecksAreMade, OneDeckPerBaseline
<1>q. QED
  BY <1>2, <1>5, <1>6, <1>7, <1>8 DEF SetupInv

\* What reconciliation makes of an operation: a baseline under its number is its
\* own, published after the hash was recorded, so that nothing conflicts.
LEMMA ReconciledRecord ==
    ASSUME SetupInv, NEW k \in Started
    PROVE  /\ Reconciled(ops[k]) \in OpRecords /\ Reconciled(ops[k]).run = ops[k].run
           /\ Reconciled(ops[k]).status \notin Nonterminal
           /\ OperationOf(Reconciled(ops[k]))
<1>. DEFINE op == ops[k]
            back == /\ project[op.project] = "active" /\ ws.rev = op.rev /\ ws.snap = op.snap
                    /\ \E b \in baselines : b.run = op.run /\ EligibleBaseline(b)
            outcome == IF \A b \in baselines : b.run # op.run THEN "interrupted"
                       ELSE IF ~op.sha THEN "conflict" ELSE IF back THEN "succeeded" ELSE "interrupted"
<1>1. op \in OpRecords /\ OperationOf(op)
  BY DEF SetupInv, SetupShape
<1>2. CASE op.status \notin Nonterminal
  BY <1>1, <1>2 DEF Reconciled
<1>3. CASE op.status \in Nonterminal
  <2>1. Reconciled(op) = Ended(op, outcome)
    BY <1>3 DEF Reconciled
  <2>2. ASSUME NEW b \in baselines, b.run = op.run PROVE op.sha
    <3>1. PICK j \in Started : /\ ops[j].run = b.run
                               /\ ops[j].status \in Nonterminal => ops[j].at = "published"
      BY DEF SetupInv, Numbered
    <3>2. j = k
      BY <2>2, <3>1 DEF SetupInv, Numbered
    <3>q. QED
      BY <1>1, <1>3, <3>1, <3>2 DEF OperationOf, Nonterminal
  <2>3. outcome \in {"succeeded", "interrupted"}
    BY <2>2
  <2>4. outcome = "succeeded" => HasBaseline(op.run, op.snap)
    BY DEF HasBaseline, EligibleBaseline
  <2>. HIDE DEF outcome
  <2>5. /\ Ended(op, outcome) \in OpRecords /\ Ended(op, outcome).status = outcome
        /\ Ended(op, outcome).run = op.run /\ Ended(op, outcome).snap = op.snap
    BY <1>1, <2>3, EndedRecord
  <2>6. OperationOf(Ended(op, outcome))
    BY <2>3, <2>4, <2>5 DEF OperationOf
  <2>q. QED
    BY <2>1, <2>3, <2>5, <2>6 DEF Nonterminal
<1>q. QED
  BY <1>2, <1>3

LEMMA CrashStep ==
    ASSUME SetupInv, CrashSetup
    PROVE  SetupInv'
<1>1. /\ ops' = [k \in SetupKeys |-> Reconciled(ops[k])] /\ play' = [p \in Players |-> AtRest]
      /\ UNCHANGED <<ws, project, baselines, decks>>
  BY DEF CrashSetup
<1>2. ASSUME NEW k \in SetupKeys, k \notin Started PROVE ops'[k].status = "absent"
  BY <1>1, <1>2 DEF Reconciled, Started, Nonterminal
<1>3. ASSUME NEW k \in Started
      PROVE  /\ ops'[k] \in OpRecords /\ ops'[k].run = ops[k].run
             /\ ops'[k].status \notin Nonterminal /\ OperationOf(ops'[k])
  BY <1>1, <1>3, ReconciledRecord DEF Started
<1>4. Started' = Started /\ ActiveBootstrap' = {}
  BY <1>2, <1>3 DEF Started, ActiveBootstrap, OpRecords, Nonterminal
<1>5. SetupShape'
  BY <1>1, <1>3, <1>4 DEF SetupInv, SetupShape
<1>6. \A p \in Players : CallerOf(play[p])'
  BY <1>1 DEF CallerOf, AtRest
<1>7. \A k \in Started : OperationOf(ops[k])'
  BY <1>1, <1>3 DEF OperationOf, HasBaseline, Undrifted
<1>8. Numbered'
  <2>1. \A k \in Started : ops'[k].run = ops[k].run /\ ops'[k].status \notin Nonterminal
    BY <1>3
  <2>2. \A b \in baselines : \E k \in Started :
           ops'[k].run = b.run /\ (ops'[k].status \in Nonterminal => ops'[k].at = "published")
    BY <2>1 DEF SetupInv, Numbered
  <2>3. /\ \A k \in Started : ops'[k].run < Cardinality(Started)
        /\ \A j, k \in Started : ops'[j].run = ops'[k].run => j = k
    BY <2>1 DEF SetupInv, Numbered
  <2>4. baselines' = baselines
    BY <1>1
  <2>q. QED
    BY <1>4, <2>2, <2>3, <2>4 DEF Numbered
<1>9. DecksAreMade'
  BY <1>1 DEF SetupInv, DecksAreMade, OneDeckPerBaseline
<1>q. QED
  BY <1>4, <1>5, <1>6, <1>7, <1>8, <1>9 DEF SetupInv

-----------------------------------------------------------------------------
(* The theorems                                                            *)

\* The invariant of Quick Play and of the bootstrap operation (quick_play.py,
\* bootstrap.py, campaign creation) holds in every state, for any number of
\* callers, operations, snapshots, mutations and crashes.
THEOREM SetupInvariant == SetupSpec => []SetupInv
<1>1. SetupInit => SetupInv
  <2>. SUFFICES ASSUME SetupInit PROVE SetupInv
    OBVIOUS
  <2>1. Started = {} /\ ActiveBootstrap = {}
    BY DEF SetupInit, Started, ActiveBootstrap, NoOp, Nonterminal
  <2>2. SetupShape
    BY <2>1 DEF SetupInit, SetupShape
  <2>3. \A p \in Players : CallerOf(play[p])
    BY DEF SetupInit, CallerOf, AtRest
  <2>4. Numbered /\ DecksAreMade
    BY <2>1 DEF SetupInit, Numbered, DecksAreMade, OneDeckPerBaseline
  <2>q. QED
    BY <2>1, <2>2, <2>3, <2>4 DEF SetupInv
<1>2. SetupInv /\ [SetupNext]_setupVars => SetupInv'
  <2>. SUFFICES ASSUME SetupInv, [SetupNext]_setupVars PROVE SetupInv'
    OBVIOUS
  <2>1. ASSUME NEW p \in Players,
               \/ \E a \in {"start", "replenish"} : Prepare(p, a)
               \/ EnsureProject(p) \/ TakeBaseline(p) \/ SeeGenerating(p) \/ NeedBaseline(p)
               \/ StageCampaign(p) \/ CommitCampaign(p) \/ GiveUp(p)
               \/ \E k \in SetupKeys : StartBootstrap(p, k)
        PROVE  SetupInv'
    BY <2>1, PrepareStep, EnsureProjectStep, TakeBaselineStep, RestStep, NeedBaselineStep,
       StageCampaignStep, CommitCampaignStep, StartBootstrapStep
  <2>2. ASSUME NEW k \in SetupKeys,
               RunStages(k) \/ WorkerFails(k) \/ RecordHash(k) \/ PublishBaseline(k) \/ FinishBootstrap(k)
        PROVE  SetupInv'
    BY <2>2, RunStagesStep, WorkerFailsStep, RecordHashStep, PublishBaselineStep, FinishBootstrapStep
  <2>3. CASE \E s \in Snapshots : MutateWorkspaceOf(s) \/ ArchiveSetup(s)
    BY <2>3, AroundStep
  <2>4. CASE \E d \in decks : PlayDeck(d) \/ CloseDeck(d)
    BY <2>4, ReviewStep
  <2>5. CASE CrashSetup
    BY <2>5, CrashStep
  <2>6. CASE UNCHANGED setupVars
    <3>1. UNCHANGED <<ws, project, baselines, decks, ops, play>>
      BY <2>6 DEF setupVars
    <3>2. Started' = Started /\ ActiveBootstrap' = ActiveBootstrap
      BY <3>1 DEF Started, ActiveBootstrap
    <3>q. QED
      BY <3>1, <3>2 DEF SetupInv, SetupShape, CallerOf, OperationOf, HasBaseline, Undrifted,
         Numbered, DecksAreMade, OneDeckPerBaseline
  <2>q. QED
    BY <2>1, <2>2, <2>3, <2>4, <2>5, <2>6 DEF SetupNext
<1>q. QED
  BY <1>1, <1>2, PTL DEF SetupSpec

\* Callers that race for a baseline end in one campaign of it; a crash at any
\* moment of a bootstrap is recovered without a conflict; a bootstrap that
\* succeeded has its baseline; one bootstrap is under way at a time.
THEOREM SetupHolds == SetupSpec => []SetupIsSound
<1>1. SetupInv => SetupIsSound
  <2>. SUFFICES ASSUME SetupInv PROVE SetupIsSound
    OBVIOUS
  <2>1. Cardinality(ActiveBootstrap) <= 1
    <3>1. CASE ActiveBootstrap = {}
      BY <3>1, FS_EmptySet
    <3>2. CASE ActiveBootstrap # {}
      <4>1. PICK k \in ActiveBootstrap : ActiveBootstrap = {k}
        BY <3>2 DEF SetupInv, Numbered
      <4>q. QED
        BY <4>1, FS_Singleton
    <3>q. QED
      BY <3>1, <3>2
  <2>2. \A k \in SetupKeys : ops[k].status = "absent" \/ (k \in Started /\ ops[k] \in OpRecords)
    BY DEF SetupInv, SetupShape, Started
  <2>3. SetupTypeOK
    BY <2>1, <2>2 DEF SetupInv, SetupShape, SetupTypeOK, OpRecords, DeckRecords, DecksAreMade
  <2>4. RecoveryNeverConflicts /\ SucceededHasBaseline
    BY <2>2 DEF SetupInv, OperationOf, HasBaseline, RecoveryNeverConflicts, SucceededHasBaseline
  <2>q. QED
    BY <2>3, <2>4 DEF SetupInv, DecksAreMade, SetupIsSound
<1>q. QED
  BY <1>1, SetupInvariant, PTL

\* A campaign appears only in the commit, which checks the project and the
\* workspace again under both leases (create_campaign).
THEOREM DecksAreCurrent == SetupSpec => [][DeckIsOfCurrent]_setupVars
<1>1. SetupInv /\ [SetupNext]_setupVars => [DeckIsOfCurrent]_setupVars
  <2>. SUFFICES ASSUME SetupInv, SetupNext, NEW d \in decks' \ decks,
                       \A c \in decks : c.project # d.project \/ c.run # d.run
                PROVE  /\ project[d.project] = "active" /\ d.snap = ws.snap
                       /\ \E b \in baselines : b.run = d.run /\ b.chunks = Chunks[d.snap]
    BY DEF DeckIsOfCurrent
  <2>1. \/ \E p \in Players : CommitCampaign(p)
        \/ \E c \in decks : PlayDeck(c) \/ CloseDeck(c)
    BY DEF SetupNext, Prepare, EnsureProject, TakeBaseline, SeeGenerating, NeedBaseline, StageCampaign,
       GiveUp, StartBootstrap, RunStages, WorkerFails, RecordHash, PublishBaseline, FinishBootstrap,
       MutateWorkspaceOf, ArchiveSetup, CrashSetup
  <2>2. ASSUME NEW p \in Players, CommitCampaign(p)
        PROVE  /\ project[d.project] = "active" /\ d.snap = ws.snap
               /\ \E b \in baselines : b.run = d.run /\ b.chunks = Chunks[d.snap]
    <3>1. /\ d.project = play[p].identity /\ d.run = play[p].run /\ d.snap = play[p].snap
          /\ play[p].at = "staged" /\ StillCurrent(play[p])
      BY <2>2 DEF CommitCampaign
    <3>2. HasBaseline(play[p].run, play[p].snap)
      BY <3>1 DEF SetupInv, CallerOf
    <3>q. QED
      BY <3>1, <3>2 DEF StillCurrent, HasBaseline
  <2>3. ASSUME NEW c \in decks, PlayDeck(c) \/ CloseDeck(c) PROVE FALSE
    <3>1. c \in DeckRecords
      BY DEF SetupInv, SetupShape
    <3>2. d = [c EXCEPT !.pending = ~@] \/ d = [c EXCEPT !.open = FALSE]
      BY <2>3 DEF PlayDeck, CloseDeck
    <3>3. d.project = c.project /\ d.run = c.run
      BY <3>1, <3>2 DEF DeckRecords
    <3>q. QED
      BY <3>3
  <2>q. QED
    BY <2>1, <2>2, <2>3
<1>q. QED
  BY <1>1, SetupInvariant, PTL DEF SetupSpec

\* A baseline is published, and a bootstrap succeeds, at its end or after a
\* crash, only while the workspace and the project are as they were captured.
THEOREM SuccessIsUndrifted == SetupSpec => [][SucceedsUndrifted]_setupVars
<1>1. SetupInv /\ [SetupNext]_setupVars => [SucceedsUndrifted]_setupVars
  <2>. SUFFICES ASSUME SetupInv, SetupNext, NEW k \in SetupKeys,
                       \/ ops[k].status # "succeeded" /\ ops'[k].status = "succeeded"
                       \/ /\ ops[k].status = "running" /\ ops[k].at = "hashed"
                          /\ ops'[k].at = "published"
                PROVE  Undrifted(ops[k])
    BY DEF SucceedsUndrifted, Undrifted
  <2>. USE DEF SetupInv, SetupShape
  <2>1. ops'[k] # ops[k]
    OBVIOUS
  <2>2. \A s, d : ~MutateWorkspaceOf(s) /\ ~ArchiveSetup(s) /\ ~PlayDeck(d) /\ ~CloseDeck(d)
    BY <2>1 DEF MutateWorkspaceOf, ArchiveSetup, PlayDeck, CloseDeck
  <2>3. \A p, a : /\ ~Prepare(p, a) /\ ~EnsureProject(p) /\ ~TakeBaseline(p) /\ ~SeeGenerating(p)
                  /\ ~NeedBaseline(p) /\ ~StageCampaign(p) /\ ~CommitCampaign(p) /\ ~GiveUp(p)
    BY <2>1 DEF Prepare, EnsureProject, TakeBaseline, SeeGenerating, NeedBaseline, StageCampaign,
       CommitCampaign, GiveUp
  <2>4. ASSUME NEW p \in Players, NEW j \in SetupKeys, StartBootstrap(p, j) PROVE FALSE
    <3>1. j = k
      BY <2>1, <2>4 DEF StartBootstrap
    <3>q. QED
      BY <2>4, <3>1 DEF StartBootstrap
  <2>5. ASSUME NEW j \in SetupKeys, RunStages(j) \/ WorkerFails(j) \/ RecordHash(j) PROVE FALSE
    <3>1. j = k /\ k \in Started /\ ops[k] \in OpRecords
      BY <2>1, <2>5 DEF RunStages, WorkerFails, RecordHash, Started, Nonterminal
    <3>2. \/ ops'[k] = [ops[k] EXCEPT !.status = "running", !.at = "staged"]
          \/ ops'[k] = Ended(ops[k], "failed") \/ ops'[k] = Hashed(ops[k])
      BY <2>5, <3>1 DEF RunStages, WorkerFails, RecordHash
    <3>3. ops'[k].status \in {"running", "failed"} /\ ops'[k].at \in {"staged", "end", "hashed"}
      BY <2>5, <3>1, <3>2 DEF OpRecords, Ended, Hashed, RecordHash, RunStages, WorkerFails
    <3>q. QED
      BY <3>3
  <2>6. ASSUME NEW j \in SetupKeys, PublishBaseline(j) PROVE Undrifted(ops[k])
    BY <2>1, <2>6 DEF PublishBaseline
  <2>7. ASSUME NEW j \in SetupKeys, FinishBootstrap(j) PROVE Undrifted(ops[k])
    <3>1. j = k /\ ops[k].status = "running" /\ ops[k].at = "published"
      BY <2>1, <2>7 DEF FinishBootstrap
    <3>q. QED
      BY <3>1 DEF Started, OperationOf
  <2>8. ASSUME CrashSetup PROVE Undrifted(ops[k])
    <3>1. ops'[k] = Reconciled(ops[k])
      BY <2>8 DEF CrashSetup
    <3>2. ops[k].status \in Nonterminal /\ k \in Started /\ ops[k] \in OpRecords
      BY <2>1, <3>1 DEF Reconciled, Started, Nonterminal
    <3>3. ASSUME NEW status \in {"succeeded", "failed", "interrupted", "conflict"},
                 ops'[k] = Ended(ops[k], status)
          PROVE  status = "succeeded"
      BY <3>2, <3>3 DEF Ended, OpRecords
    <3>4. CASE Undrifted(ops[k])
      BY <3>4
    <3>5. CASE ~Undrifted(ops[k])
      <4>1. ops'[k] = Ended(ops[k], "interrupted") \/ ops'[k] = Ended(ops[k], "conflict")
        BY <3>1, <3>2, <3>5 DEF Reconciled, Undrifted
      <4>q. QED
        BY <3>3, <4>1
    <3>q. QED
      BY <3>4, <3>5
  <2>q. QED
    BY <2>2, <2>3, <2>4, <2>5, <2>6, <2>7, <2>8 DEF SetupNext
<1>q. QED
  BY <1>1, SetupInvariant, PTL DEF SetupSpec

(* --- Campaigns under review ------------------------------------------- *)

Records(led) == \A i \in 1..Len(led) : led[i].id \in 1..ids /\ Graded(led[i].req)
InLedger(led, id) == \E i \in 1..Len(led) : led[i].id = id

\* Every grade a dataset exports was given for the query it exports.
Given(led, case, cand, query, grades) ==
    \E i \in 1..Len(led) :
        /\ led[i].req.kind = "absolute_relevance" /\ led[i].req.case = case
        /\ led[i].req.cand = cand /\ led[i].query = query /\ led[i].req.grade \in grades
Judged(led, dataset) ==
    \A row \in dataset :
        /\ \A cand \in Candidates[row[1]] : Given(led, row[1], cand, row[2].query, 0..2)
        /\ \A pos \in row[3] : Given(led, row[1], pos[1], row[2].query, {pos[2]})

\* What an export is made of.
Packaged(led, p, dataset) ==
    Reconstructible(led, p) /\ Dataset(p) = dataset /\ Judged(led, dataset)

\* A key has one id and the id is its own.
Named(c) ==
    /\ \A k \in Keys : catalog[c][k].status # "absent" => catalog[c][k].id \in 1..ids
    /\ \A k, l \in Keys : (/\ catalog[c][k].status # "absent" /\ catalog[c][l].status # "absent"
                           /\ catalog[c][k].id = catalog[c][l].id) => k = l
    /\ \A k \in Keys : \A i \in 1..Len(ledger[c]) :
           catalog[c][k].status # "absent" /\ ledger[c][i].id = catalog[c][k].id
             => ledger[c][i].key = k

\* A key reserved with a request.
Holds(c, key, req, id) ==
    /\ c \in Campaigns /\ key \in Keys /\ catalog[c][key].status # "absent"
    /\ catalog[c][key].id = id /\ catalog[c][key].req = req /\ req \in Requests[c]

CallOK(k) ==
    \/ k = Idle
    \/ /\ k.op = "reserved"
       /\ k = [op |-> "reserved", campaign |-> k.campaign, key |-> k.key, req |-> k.req, id |-> k.id]
       /\ Holds(k.campaign, k.key, k.req, k.id)
       /\ Prepared(ledger[k.campaign], k.req) /\ ~InLedger(ledger[k.campaign], k.id)
    \/ /\ k.op = "appended"
       /\ k = [op |-> "appended", campaign |-> k.campaign, key |-> k.key, req |-> k.req, id |-> k.id]
       /\ Holds(k.campaign, k.key, k.req, k.id)
       /\ InLedger(ledger[k.campaign], k.id)
    \/ /\ k.op \in {"exporting", "published"} /\ k.campaign \in Campaigns
       /\ k = [op |-> k.op, campaign |-> k.campaign, projection |-> k.projection, dataset |-> k.dataset]
       /\ Packaged(ledger[k.campaign], k.projection, k.dataset)


\* The ledgers and catalogs, the calls on them, what clients were told, and
\* the registrations.
Books ==
    /\ LedgerFolds /\ CatalogAgrees /\ ids \in Nat
    /\ ledger = [c \in Campaigns |-> ledger[c]] /\ catalog \in [Campaigns -> [Keys -> Entries]]
    /\ \A c \in Campaigns : IsSequence(ledger[c]) /\ Records(ledger[c]) /\ Named(c)
    /\ \A c \in Campaigns : \A k \in Keys :
          catalog[c][k].status # "absent" => catalog[c][k].req \in Requests[c]
Apart == \A a, b \in Clients : a # b /\ call[a].op # "idle" /\ call[b].op # "idle"
                                 => call[a].campaign # call[b].campaign
Calls == call = [cl \in Clients |-> call[cl]] /\ Apart /\ \A cl \in Clients : CallOK(call[cl])
Told == \A a \in acks : Holds(a.campaign, a.key, a.req, a.id) /\ InLedger(ledger[a.campaign], a.id)
Registry == \A r \in registered : /\ r.campaign \in Campaigns /\ r.dataset \in datasets
                                  /\ Packaged(ledger[r.campaign], r.projection, r.dataset)
LedgerInv ==
    /\ Books /\ Calls /\ Told /\ Registry
    /\ open \subseteq Campaigns /\ live \subseteq Campaigns

\* A ledger grows at its end: every prefix stays.
LEMMA AppendedFields ==
    ASSUME NEW led, IsSequence(led), NEW rec
    PROVE  /\ IsSequence(Append(led, rec)) /\ Len(led) \in Nat /\ Len(Append(led, rec)) = Len(led) + 1
           /\ \A i \in 1..Len(led) : Append(led, rec)[i] = led[i]
           /\ Append(led, rec)[Len(led) + 1] = rec
<1>. DEFINE S == {led[i] : i \in 1..Len(led)} \cup {rec}
            new == Append(led, rec)
<1>1. led \in Seq(S) /\ rec \in S
  BY DEF IsSequence
<1>. HIDE DEF S
<1>2. /\ new \in Seq(S) /\ Len(led) \in Nat /\ Len(new) = Len(led) + 1
      /\ \A i \in 1..Len(led) : new[i] = led[i]
      /\ new[Len(led) + 1] = rec
  BY <1>1
<1>3. new = [i \in 1..Len(new) |-> new[i]]
  <2>. HIDE DEF new
  <2>q. QED
    BY <1>2
<1>4. new \in Seq({new[i] : i \in 1..Len(new)})
  <2>. HIDE DEF new
  <2>1. Len(new) \in Nat
    BY <1>2
  <2>2. [i \in 1..Len(new) |-> new[i]] \in Seq({new[i] : i \in 1..Len(new)})
    BY <2>1
  <2>q. QED
    BY <1>3, <2>2
<1>q. QED
  BY <1>2, <1>4 DEF IsSequence

LEMMA PrefixFields ==
    ASSUME NEW led, IsSequence(led), NEW n \in 0..Len(led)
    PROVE  /\ SubSeq(led, 1, n) = [i \in 1..n |-> led[i]]
           /\ SubSeq(led, 1, Len(led)) = led
<1>. DEFINE S == {led[i] : i \in 1..Len(led)}
<1>1. led \in Seq(S) 
  BY DEF IsSequence
<1>. HIDE DEF S
<1>2. SubSeq(led, 1, n) = [i \in 1..n |-> led[i]]
  BY <1>1
<1>3. SubSeq(led, 1, Len(led)) = led
  BY <1>1
<1>q. QED
  BY <1>2, <1>3

LEMMA PrefixKept ==
    ASSUME NEW led, IsSequence(led), NEW rec, NEW n \in 0..Len(led)
    PROVE  SubSeq(Append(led, rec), 1, n) = SubSeq(led, 1, n)
<1>1. n \in 0..Len(Append(led, rec)) /\ \A i \in 1..n : Append(led, rec)[i] = led[i]
  BY AppendedFields
<1>2. SubSeq(Append(led, rec), 1, n) = [i \in 1..n |-> Append(led, rec)[i]]
  BY <1>1, AppendedFields, PrefixFields
<1>3. SubSeq(led, 1, n) = [i \in 1..n |-> led[i]]
  BY PrefixFields
<1>q. QED
  BY <1>1, <1>2, <1>3

\* The last of a set of places in a ledger.
LEMMA LastInFields ==
    ASSUME NEW n \in Nat, NEW S \in SUBSET (1..n)
    PROVE  /\ S = {} => LastIn(S) = 0
           /\ S # {} => LastIn(S) \in S /\ \A i \in S : i <= LastIn(S)
<1>1. CASE S = {}
  BY <1>1 DEF LastIn
<1>2. CASE S # {}
  <2>. DEFINE T == {n - i : i \in S}
  <2>0. \A i \in S : i \in Nat /\ n - i \in Nat
    OBVIOUS
  <2>1. T \subseteq Nat /\ T # {}
    BY <1>2, <2>0
  <2>. HIDE DEF T
  <2>2. PICK x \in T : \A y \in T : ~(<<y, x>> \in OpToRel(<, Nat))
    BY <2>1, WFMin, NatLessThanWellFounded
  <2>3. \A y \in T : x <= y
    <3>. SUFFICES ASSUME NEW y \in T, y < x PROVE FALSE
      BY <2>1
    <3>1. <<y, x>> \in OpToRel(<, Nat)
      BY <2>1 DEF OpToRel
    <3>q. QED
      BY <2>2, <3>1
  <2>4. PICK i \in S : x = n - i
    BY DEF T
  <2>5. ASSUME NEW j \in S PROVE i >= j
    <3>1. n - j \in T
      BY DEF T
    <3>q. QED
      BY <2>0, <2>3, <2>4, <3>1
  <2>6. Max(S) \in S /\ \A j \in S : Max(S) >= j
    BY <2>5 DEF Max
  <2>q. QED
    BY <1>2, <2>6 DEF LastIn
<1>q. QED
  BY <1>1, <1>2


\* What a dataset was judged by stays in the ledger.
LEMMA PackagedKept ==
    ASSUME NEW led, IsSequence(led), NEW rec, NEW p, NEW dataset, Packaged(led, p, dataset)
    PROVE  Packaged(Append(led, rec), p, dataset)
<1>1. /\ Len(led) \in Nat /\ Len(Append(led, rec)) = Len(led) + 1
      /\ \A i \in 1..Len(led) : Append(led, rec)[i] = led[i]
  BY AppendedFields
<1>2. Reconstructible(Append(led, rec), p)
  <2>1. PICK n \in 0..Len(led) : Projection(SubSeq(led, 1, n)) = p
    BY DEF Packaged, Reconstructible
  <2>2. n \in 0..Len(Append(led, rec)) /\ SubSeq(Append(led, rec), 1, n) = SubSeq(led, 1, n)
    BY <1>1, <2>1, PrefixKept
  <2>q. QED
    BY <2>1, <2>2 DEF Reconstructible
<1>3. ASSUME NEW case, NEW cand, NEW query, NEW grades, Given(led, case, cand, query, grades)
      PROVE  Given(Append(led, rec), case, cand, query, grades)
  <2>1. PICK i \in 1..Len(led) :
            /\ led[i].req.kind = "absolute_relevance" /\ led[i].req.case = case
            /\ led[i].req.cand = cand /\ led[i].query = query /\ led[i].req.grade \in grades
    BY <1>3 DEF Given
  <2>2. i \in 1..Len(Append(led, rec)) /\ Append(led, rec)[i] = led[i]
    BY <1>1
  <2>q. QED
    BY <2>1, <2>2 DEF Given
<1>q. QED
  BY <1>2, <1>3 DEF Packaged, Judged

\* A question that is not rejected has values, and its case the grades given
\* to it for their query.
LEMMA JudgmentsFields ==
    ASSUME NEW led, IsSequence(led), NEW case, NEW cand \in DOMAIN CurrentJudgments(led, case)
    PROVE  Given(led, case, cand, EffectiveValues(led, case).query, {CurrentJudgments(led, case)[cand]})
<1>. DEFINE query == EffectiveValues(led, case).query
            S == {i \in 1..Len(led) : /\ led[i].req.kind = "absolute_relevance"
                                      /\ led[i].req.case = case /\ led[i].req.cand = cand
                                      /\ led[i].query = query}
            at == CurrentAbsolute(led, case, cand, query)
<1>. HIDE DEF query
<1>1. at = LastIn(S)
  BY DEF CurrentAbsolute
<1>2. at # 0 /\ CurrentJudgments(led, case)[cand] = led[at].req.grade
  BY DEF CurrentJudgments, query
<1>3. Len(led) \in Nat
  BY AppendedFields
<1>4. at \in S
  <2>. HIDE DEF at
  <2>1. S \in SUBSET (1..Len(led))
    OBVIOUS
  <2>. HIDE DEF S
  <2>q. QED
    BY <1>1, <1>2, <1>3, <2>1, LastInFields
<1>. HIDE DEF at
<1>q. QED
  BY <1>2, <1>4 DEF Given, query

\* A finished case is judged under the query it exports.
LEMMA FinishedIsJudged ==
    ASSUME NEW led, IsSequence(led), \A i \in 1..Len(led) : Graded(led[i].req),
           NEW case \in Approved(Projection(led))
    PROVE  LET row == ProjectCase(led, case) IN
           /\ \A cand \in Candidates[case] : Given(led, case, cand, row.values.query, 0..2)
           /\ \A pos \in Positives(row.judgments) :
                 Given(led, case, pos[1], row.values.query, {pos[2]})
<1>. DEFINE row == ProjectCase(led, case)
            j == CurrentJudgments(led, case)
            values == EffectiveValues(led, case)
<1>1. row.status \in {"accepted", "edited"}
  BY DEF Approved, Projection
<1>2. Complete(case, j) /\ row.judgments = j /\ row.values = values
  BY <1>1 DEF ProjectCase, Review, EffectiveValues
<1>3. DOMAIN j = Candidates[case]
  BY <1>2 DEF Complete
<1>. HIDE DEF j, values, row
<1>4. ASSUME NEW cand \in Candidates[case]
      PROVE  Given(led, case, cand, values.query, {j[cand]})
  BY <1>3, JudgmentsFields DEF j, values
<1>5. ASSUME NEW cand \in Candidates[case]
      PROVE  Given(led, case, cand, values.query, 0..2)
  BY <1>4 DEF Given, Graded
<1>6. ASSUME NEW pos \in Positives(j)
      PROVE  Given(led, case, pos[1], values.query, {pos[2]})
  <2>1. PICK cand \in DOMAIN j : pos = <<cand, j[cand]>>
    BY DEF Positives
  <2>q. QED
    BY <1>3, <1>4, <2>1
<1>q. QED
  BY <1>2, <1>5, <1>6 DEF row

\* What an export packages is judged and found again in its ledger.
LEMMA ExportIsPackaged ==
    ASSUME NEW led, IsSequence(led), \A i \in 1..Len(led) : Graded(led[i].req)
    PROVE  Packaged(led, Projection(led), Dataset(Projection(led)))
<1>. DEFINE p == Projection(led)
<1>1. Reconstructible(led, p)
  <2>1. Len(led) \in 0..Len(led)
    BY AppendedFields
  <2>2. SubSeq(led, 1, Len(led)) = led
    BY <2>1, PrefixFields
  <2>q. QED
    BY <2>1, <2>2 DEF Reconstructible
<1>2. ASSUME NEW row \in Dataset(p)
      PROVE  /\ \A cand \in Candidates[row[1]] : Given(led, row[1], cand, row[2].query, 0..2)
             /\ \A pos \in row[3] : Given(led, row[1], pos[1], row[2].query, {pos[2]})
  <2>1. PICK case \in Approved(p) : row = <<case, p[case].values, Positives(p[case].judgments)>>
    BY DEF Dataset
  <2>2. p[case] = ProjectCase(led, case)
    BY DEF Projection, Approved
  <2>3. row[1] = case /\ row[2] = p[case].values /\ row[3] = Positives(p[case].judgments)
    BY <2>1
  <2>. HIDE DEF p
  <2>q. QED
    BY <2>1, <2>2, <2>3, FinishedIsJudged DEF p
<1>q. QED
  BY <1>1, <1>2 DEF Packaged, Judged

\* The record a call appends follows its ledger.
LEMMA AppendFolds ==
    ASSUME NEW led, IsSequence(led), FoldsWithoutError(led), NEW req, NEW key, NEW id,
           Prepared(led, req), \A i \in 1..Len(led) : led[i].id # id /\ led[i].key # key
    PROVE  FoldsWithoutError(Append(led, RecordFor(led, req, key, id)))
<1>. DEFINE rec == RecordFor(led, req, key, id)
            new == Append(led, rec)
<1>1. /\ Len(led) \in Nat /\ Len(new) = Len(led) + 1
      /\ \A i \in 1..Len(led) : new[i] = led[i]
  BY AppendedFields
<1>2. new[Len(led) + 1] = rec
  BY AppendedFields
<1>3. rec.id = id /\ rec.key = key /\ rec.req = req
  BY DEF RecordFor
<1>4. Chained(led, rec)
  BY DEF Chained, RecordFor, Prepared
<1>5. \A n \in 0..Len(led) : SubSeq(new, 1, n) = SubSeq(led, 1, n)
  BY PrefixKept
<1>6. SubSeq(new, 1, Len(led)) = led
  BY <1>1, <1>5, PrefixFields
<1>. HIDE DEF new, rec
<1>7. \A i, j \in 1..Len(new) : i # j => new[i].id # new[j].id /\ new[i].key # new[j].key
  <2>1. \A i \in 1..Len(new) : i \in 1..Len(led) \/ i = Len(led) + 1
    BY <1>1
  <2>q. QED
    BY <1>1, <1>2, <1>3, <2>1 DEF FoldsWithoutError
<1>8. ASSUME NEW i \in 1..Len(new) PROVE Chained(SubSeq(new, 1, i - 1), new[i])
  <2>1. CASE i = Len(led) + 1
    <3>1. i - 1 = Len(led)
      BY <1>1, <2>1
    <3>q. QED
      BY <1>2, <1>4, <1>6, <2>1, <3>1
  <2>2. CASE i \in 1..Len(led)
    <3>1. i - 1 \in 0..Len(led) /\ new[i] = led[i]
      BY <1>1, <2>2
    <3>2. Chained(SubSeq(led, 1, i - 1), led[i])
      BY <2>2 DEF FoldsWithoutError
    <3>3. SubSeq(new, 1, i - 1) = SubSeq(led, 1, i - 1)
      BY <1>5, <3>1
    <3>q. QED
      BY <3>1, <3>2, <3>3
  <2>q. QED
    BY <1>1, <2>1, <2>2
<1>q. QED
  BY <1>7, <1>8 DEF FoldsWithoutError, new, rec


LEMMA ReservedIsIn ==
    ASSUME NEW led, NEW id
    PROVE  ReservedRecords(led, id) # {} <=> InLedger(led, id)
BY DEF ReservedRecords, InLedger

\* What every step leaves: a reservation stays, a ledger only grows.
CatalogGrows ==
    \A c \in Campaigns : \A k \in Keys : catalog[c][k].status # "absent" =>
        /\ catalog'[c][k].status # "absent"
        /\ catalog'[c][k].id = catalog[c][k].id /\ catalog'[c][k].req = catalog[c][k].req
LedgerGrows ==
    \A c \in Campaigns : ledger'[c] = ledger[c] \/ \E rec : ledger'[c] = Append(ledger[c], rec)

LEMMA HoldsKept ==
    ASSUME CatalogGrows, NEW c, NEW key, NEW req, NEW id, Holds(c, key, req, id)
    PROVE  Holds(c, key, req, id)'
BY DEF CatalogGrows, Holds

LEMMA InLedgerKept ==
    ASSUME Books, LedgerGrows, NEW c \in Campaigns, NEW id, InLedger(ledger[c], id)
    PROVE  InLedger(ledger[c], id)'
<1>1. CASE ledger'[c] = ledger[c]
  BY <1>1 DEF InLedger
<1>2. ASSUME NEW rec, ledger'[c] = Append(ledger[c], rec) PROVE InLedger(ledger[c], id)'
  <2>1. PICK i \in 1..Len(ledger[c]) : ledger[c][i].id = id
    BY DEF InLedger
  <2>2. IsSequence(ledger[c])
    BY DEF Books
  <2>3. i \in 1..Len(ledger'[c]) /\ ledger'[c][i] = ledger[c][i]
    BY <1>2, <2>2, AppendedFields
  <2>q. QED
    BY <2>1, <2>3 DEF InLedger
<1>q. QED
  BY <1>1, <1>2 DEF LedgerGrows

LEMMA PackageStays ==
    ASSUME Books, LedgerGrows, NEW c \in Campaigns, NEW p, NEW dataset,
           Packaged(ledger[c], p, dataset)
    PROVE  Packaged(ledger'[c], p, dataset)
<1>1. IsSequence(ledger[c])
  BY DEF Books
<1>q. QED
  BY <1>1, PackagedKept DEF LedgerGrows

LEMMA ToldKept ==
    ASSUME LedgerInv, CatalogGrows, LedgerGrows, NEW a \in acks
    PROVE  Holds(a.campaign, a.key, a.req, a.id)' /\ InLedger(ledger[a.campaign], a.id)'
<1>1. Holds(a.campaign, a.key, a.req, a.id) /\ InLedger(ledger[a.campaign], a.id) /\ Books
  BY DEF LedgerInv, Told
<1>2. a.campaign \in Campaigns
  BY <1>1 DEF Holds
<1>q. QED
  BY <1>1, <1>2, HoldsKept, InLedgerKept

LEMMA RegistryKept ==
    ASSUME LedgerInv, LedgerGrows, NEW r \in registered
    PROVE  r.campaign \in Campaigns /\ Packaged(ledger'[r.campaign], r.projection, r.dataset)
<1>1. /\ r.campaign \in Campaigns /\ Packaged(ledger[r.campaign], r.projection, r.dataset)
      /\ Books
  BY DEF LedgerInv, Registry
<1>q. QED
  BY <1>1, PackageStays

LEMMA CallKept ==
    ASSUME Books, CatalogGrows, LedgerGrows, NEW k, CallOK(k),
           k.op = "reserved" => ledger'[k.campaign] = ledger[k.campaign]
    PROVE  CallOK(k)'
<1>1. CASE k = Idle
  BY <1>1 DEF CallOK
<1>2. CASE /\ k.op = "reserved"
           /\ k = [op |-> "reserved", campaign |-> k.campaign, key |-> k.key, req |-> k.req, id |-> k.id]
           /\ Holds(k.campaign, k.key, k.req, k.id)
           /\ Prepared(ledger[k.campaign], k.req) /\ ~InLedger(ledger[k.campaign], k.id)
  BY <1>2, HoldsKept DEF CallOK
<1>3. CASE /\ k.op = "appended"
           /\ k = [op |-> "appended", campaign |-> k.campaign, key |-> k.key, req |-> k.req, id |-> k.id]
           /\ Holds(k.campaign, k.key, k.req, k.id) /\ InLedger(ledger[k.campaign], k.id)
  <2>1. k.campaign \in Campaigns
    BY <1>3 DEF Holds
  <2>q. QED
    BY <1>3, <2>1, HoldsKept, InLedgerKept DEF CallOK
<1>4. CASE /\ k.op \in {"exporting", "published"} /\ k.campaign \in Campaigns
           /\ k = [op |-> k.op, campaign |-> k.campaign, projection |-> k.projection, dataset |-> k.dataset]
           /\ Packaged(ledger[k.campaign], k.projection, k.dataset)
  BY <1>4, PackageStays DEF CallOK
<1>q. QED
  BY <1>1, <1>2, <1>3, <1>4 DEF CallOK


\* One call moves; the others hold other campaigns.
LEMMA CallsAfter ==
    ASSUME LedgerInv, CatalogGrows, LedgerGrows, NEW cl \in Clients, NEW k,
           call' = [call EXCEPT ![cl] = k], CallOK(k)',
           \A b \in Clients \ {cl} : call[b].op = "reserved" =>
               ledger'[call[b].campaign] = ledger[call[b].campaign],
           \/ k.op = "idle"
           \/ call[cl].op # "idle" /\ k.campaign = call[cl].campaign
           \/ ~Held(k.campaign)
    PROVE  Calls'
<1>1. call = [b \in Clients |-> call[b]] /\ Apart /\ \A b \in Clients : CallOK(call[b])
  BY DEF LedgerInv, Calls
<1>2. call'[cl] = k /\ \A b \in Clients \ {cl} : call'[b] = call[b]
  BY <1>1
<1>3. call' = [b \in Clients |-> call'[b]]
  BY <1>1
<1>4. \A b \in Clients : CallOK(call[b])'
  <2>. SUFFICES ASSUME NEW b \in Clients PROVE CallOK(call[b])'
    OBVIOUS
  <2>1. CASE b = cl
    BY <1>2, <2>1
  <2>2. CASE b # cl
    <3>. DEFINE x == call[b]
    <3>1. CallOK(x) /\ call'[b] = x /\ (x.op = "reserved" => ledger'[x.campaign] = ledger[x.campaign])
      BY <1>1, <1>2, <2>2
    <3>2. PICK y : y = x
      OBVIOUS
    <3>3. CallOK(y)'
      BY <3>1, <3>2, CallKept DEF LedgerInv
    <3>q. QED
      BY <3>1, <3>2, <3>3
  <2>q. QED
    BY <2>1, <2>2
<1>5. Apart'
  <2>. SUFFICES ASSUME NEW a \in Clients, NEW b \in Clients, a # b,
                       call'[a].op # "idle", call'[b].op # "idle"
                PROVE  call'[a].campaign # call'[b].campaign
    BY DEF Apart
  <2>1. CASE a # cl /\ b # cl
    BY <1>1, <1>2, <2>1 DEF Apart
  <2>2. CASE a = cl
    BY <1>1, <1>2, <2>2 DEF Apart, Held
  <2>3. CASE b = cl
    BY <1>1, <1>2, <2>3 DEF Apart, Held
  <2>q. QED
    BY <2>1, <2>2, <2>3
<1>q. QED
  BY <1>3, <1>4, <1>5 DEF Calls

\* A step that writes neither a ledger nor a catalog.
LEMMA BooksUnread ==
    ASSUME LedgerInv, UNCHANGED <<ledger, catalog, ids>>
    PROVE  Books' /\ CatalogGrows /\ LedgerGrows
BY DEF LedgerInv, Books, LedgerFolds, CatalogAgrees, Records, Named, CatalogGrows, LedgerGrows

LEMMA ToldAfter ==
    ASSUME LedgerInv, CatalogGrows, LedgerGrows, acks' = acks PROVE Told'
BY ToldKept DEF Told
LEMMA RegistryAfter ==
    ASSUME LedgerInv, LedgerGrows, registered' = registered, datasets \subseteq datasets' PROVE Registry'
BY RegistryKept DEF LedgerInv, Registry

LEMMA LifecycleStep ==
    ASSUME LedgerInv, NEW c \in Campaigns, CloseCampaign(c) \/ ArchiveProject(c)
    PROVE  LedgerInv'
<1>1. /\ UNCHANGED <<ledger, catalog, datasets, registered, call, acks, ids>>
      /\ open' \subseteq Campaigns /\ live' \subseteq Campaigns
  BY DEF CloseCampaign, ArchiveProject, LedgerInv
<1>2. Books' /\ CatalogGrows /\ LedgerGrows
  BY <1>1, BooksUnread
<1>3. Calls'
  <2>1. Calls
    BY DEF LedgerInv
  <2>2. \A k : CallOK(k)' <=> CallOK(k)
    BY <1>1 DEF CallOK, Holds
  <2>q. QED
    BY <1>1, <2>1, <2>2 DEF Calls, Apart
<1>q. QED
  BY <1>1, <1>2, <1>3, ToldAfter, RegistryAfter DEF LedgerInv

LEMMA ExportStep ==
    ASSUME LedgerInv, NEW cl \in Clients, NEW c \in Campaigns, Export(cl, c)
    PROVE  LedgerInv'
<1>. DEFINE p == Projection(ledger[c])
            k == [op |-> "exporting", campaign |-> c, projection |-> p, dataset |-> Dataset(p)]
<1>1. /\ UNCHANGED <<ledger, catalog, open, live, datasets, registered, acks, ids>>
      /\ call' = [call EXCEPT ![cl] = k] /\ ~Held(c)
  BY DEF Export
<1>2. Books' /\ CatalogGrows /\ LedgerGrows
  BY <1>1, BooksUnread
<1>3. Packaged(ledger[c], p, Dataset(p))
  <2>1. IsSequence(ledger[c]) /\ \A i \in 1..Len(ledger[c]) : Graded(ledger[c][i].req)
    BY DEF LedgerInv, Books, Records
  <2>q. QED
    BY <2>1, ExportIsPackaged
<1>. HIDE DEF p
<1>4. PICK z : z = k
  OBVIOUS
<1>5. CallOK(z)'
  BY <1>1, <1>3, <1>4 DEF CallOK
<1>6. Calls'
  <2>1. call' = [call EXCEPT ![cl] = z] /\ ~Held(z.campaign)
    BY <1>1, <1>4
  <2>q. QED
    BY <1>1, <1>2, <1>5, <2>1, CallsAfter
<1>q. QED
  BY <1>1, <1>2, <1>6, ToldAfter, RegistryAfter DEF LedgerInv

LEMMA CallEndsStep ==
    ASSUME LedgerInv, NEW cl \in Clients, CallEnds(cl)
    PROVE  LedgerInv'
<1>1. /\ UNCHANGED <<ledger, catalog, open, live, datasets, registered, acks, ids>>
      /\ call' = [call EXCEPT ![cl] = Idle]
  BY DEF CallEnds
<1>2. Books' /\ CatalogGrows /\ LedgerGrows
  BY <1>1, BooksUnread
<1>3. CallOK(Idle)' /\ Idle.op = "idle"
  BY DEF CallOK, Idle
<1>4. Calls'
  BY <1>1, <1>2, <1>3, CallsAfter
<1>q. QED
  BY <1>1, <1>2, <1>4, ToldAfter, RegistryAfter DEF LedgerInv

LEMMA ExportingFields ==
    ASSUME LedgerInv, NEW cl \in Clients, call[cl].op \in {"exporting", "published"}
    PROVE  LET k == call[cl] IN
           /\ k.campaign \in Campaigns
           /\ k = [op |-> k.op, campaign |-> k.campaign, projection |-> k.projection, dataset |-> k.dataset]
           /\ Packaged(ledger[k.campaign], k.projection, k.dataset)
BY DEF LedgerInv, Calls, CallOK, Idle

LEMMA PublishDatasetStep ==
    ASSUME LedgerInv, NEW cl \in Clients, PublishDataset(cl)
    PROVE  LedgerInv'
<1>. DEFINE k == call[cl]
            z == [op |-> "published", campaign |-> k.campaign, projection |-> k.projection,
                  dataset |-> k.dataset]
<1>1. /\ UNCHANGED <<ledger, catalog, open, live, registered, acks, ids>>
      /\ datasets \subseteq datasets' /\ call' = [call EXCEPT ![cl].op = "published"]
      /\ k.op = "exporting"
  BY DEF PublishDataset
<1>2. Books' /\ CatalogGrows /\ LedgerGrows
  BY <1>1, BooksUnread
<1>3. /\ k.campaign \in Campaigns /\ Packaged(ledger[k.campaign], k.projection, k.dataset)
      /\ k = [op |-> k.op, campaign |-> k.campaign, projection |-> k.projection, dataset |-> k.dataset]
  BY <1>1, ExportingFields
<1>4. call' = [call EXCEPT ![cl] = z]
  <2>1. [k EXCEPT !.op = "published"] = z
    <3>. HIDE DEF k
    <3>q. QED
      BY <1>3
  <2>q. QED
    BY <1>1, <2>1
<1>5. PICK y : y = z
  OBVIOUS
<1>. HIDE DEF k
<1>6. CallOK(y)'
  BY <1>1, <1>3, <1>5 DEF CallOK
<1>7. Calls'
  <2>1. call' = [call EXCEPT ![cl] = y] /\ call[cl].op # "idle" /\ y.campaign = call[cl].campaign
    BY <1>1, <1>4, <1>5 DEF k
  <2>q. QED
    BY <1>1, <1>2, <1>6, <2>1, CallsAfter
<1>q. QED
  BY <1>1, <1>2, <1>7, ToldAfter, RegistryAfter DEF LedgerInv

LEMMA RegisterStep ==
    ASSUME LedgerInv, NEW cl \in Clients, Register(cl)
    PROVE  LedgerInv'
<1>. DEFINE k == call[cl]
            reg == [dataset |-> k.dataset, campaign |-> k.campaign, projection |-> k.projection]
<1>1. /\ UNCHANGED <<ledger, catalog, open, live, datasets, acks, ids>>
      /\ registered' = registered \cup {reg} /\ call' = [call EXCEPT ![cl] = Idle]
      /\ k.op = "published" /\ reg.dataset \in datasets
  BY DEF Register, ValidRegistration
<1>2. Books' /\ CatalogGrows /\ LedgerGrows
  BY <1>1, BooksUnread
<1>3. k.campaign \in Campaigns /\ Packaged(ledger[k.campaign], k.projection, k.dataset)
  BY <1>1, ExportingFields
<1>4. CallOK(Idle)' /\ Idle.op = "idle"
  BY DEF CallOK, Idle
<1>5. Calls'
  BY <1>1, <1>2, <1>4, CallsAfter
<1>6. Registry'
  <2>1. /\ reg.campaign \in Campaigns /\ reg.dataset \in datasets'
        /\ Packaged(ledger'[reg.campaign], reg.projection, reg.dataset)
    BY <1>1, <1>3
  <2>. HIDE DEF reg
  <2>2. \A r \in registered : /\ r.campaign \in Campaigns /\ r.dataset \in datasets'
                              /\ Packaged(ledger'[r.campaign], r.projection, r.dataset)
    BY <1>1, <1>2, RegistryKept DEF LedgerInv, Registry
  <2>q. QED
    BY <1>1, <2>1, <2>2 DEF Registry
<1>q. QED
  BY <1>1, <1>2, <1>5, <1>6, ToldAfter DEF LedgerInv


LEMMA EntriesFields ==
    ASSUME Books, NEW c \in Campaigns, NEW k \in Keys
    PROVE  /\ catalog[c][k] \in Entries
           /\ catalog[c][k].status \in {"absent", "pending", "committed"}
           /\ catalog[c][k].status # "absent" =>
                 /\ catalog[c][k].id \in 1..ids /\ catalog[c][k].req \in Requests[c]
                 /\ catalog[c][k] = [status |-> catalog[c][k].status, req |-> catalog[c][k].req,
                                     id |-> catalog[c][k].id]
BY DEF Books, Entries, Named

\* One entry of one catalog is written.
LEMMA BooksAfterEntry ==
    ASSUME Books, NEW c \in Campaigns, NEW key \in Keys, NEW entry \in Entries,
           catalog' = [catalog EXCEPT ![c][key] = entry], ledger' = ledger, ids' \in Nat, ids <= ids',
           entry.status # "absent", entry.req \in Requests[c], entry.id \in 1..ids',
           entry.status = "committed" => InLedger(ledger[c], entry.id),
           \/ catalog[c][key].status = "absent" /\ entry.id = ids + 1
              /\ \A i \in 1..Len(ledger[c]) : ledger[c][i].key # key
           \/ catalog[c][key].status # "absent" /\ entry.id = catalog[c][key].id
              /\ entry.req = catalog[c][key].req
    PROVE  Books' /\ CatalogGrows /\ LedgerGrows /\ Holds(c, key, entry.req, entry.id)'
<1>1. /\ catalog' \in [Campaigns -> [Keys -> Entries]] /\ catalog'[c][key] = entry
      /\ \A d \in Campaigns : \A k \in Keys :
            d # c \/ k # key => catalog'[d][k] = catalog[d][k]
  BY DEF Books
<1>2. CatalogGrows /\ LedgerGrows
  BY <1>1 DEF CatalogGrows, LedgerGrows
<1>3. Holds(c, key, entry.req, entry.id)'
  BY <1>1 DEF Holds
<1>4. LedgerFolds' /\ \A d \in Campaigns : IsSequence(ledger'[d]) /\ Records(ledger[d])'
  <2>1. \A d \in Campaigns : \A i \in 1..Len(ledger[d]) : ledger[d][i].id \in 1..ids'
    BY DEF Books, Records
  <2>q. QED
    BY <2>1 DEF Books, LedgerFolds, Records
<1>5. ASSUME NEW d \in Campaigns PROVE Named(d)'
  <2>1. Named(d) /\ Records(ledger[d])
    BY DEF Books
  <2>2. CASE d # c
    BY <1>1, <2>1, <2>2 DEF Named, Books
  <2>3. CASE d = c
    <3>1. \A k \in Keys : catalog'[c][k].status # "absent" => catalog'[c][k].id \in 1..ids'
      BY <1>1, <2>1, <2>3 DEF Named, Books
    <3>2. \A k \in Keys \ {key} : catalog'[c][k].status # "absent" => catalog'[c][k].id # entry.id
      BY <1>1, <2>1, <2>3 DEF Named, Books
    <3>3. \A k, l \in Keys : (/\ catalog'[c][k].status # "absent" /\ catalog'[c][l].status # "absent"
                              /\ catalog'[c][k].id = catalog'[c][l].id) => k = l
      BY <1>1, <2>1, <2>3, <3>2 DEF Named
    <3>4. \A i \in 1..Len(ledger[c]) : ledger[c][i].id = entry.id => ledger[c][i].key = key
      BY <2>1, <2>3 DEF Named, Records, Books
    <3>5. \A k \in Keys : \A i \in 1..Len(ledger'[c]) :
             catalog'[c][k].status # "absent" /\ ledger'[c][i].id = catalog'[c][k].id
               => ledger'[c][i].key = k
      BY <1>1, <2>1, <2>3, <3>4 DEF Named
    <3>q. QED
      BY <2>3, <3>1, <3>3, <3>5 DEF Named
  <2>q. QED
    BY <2>2, <2>3
<1>6. CatalogAgrees'
  <2>. SUFFICES ASSUME NEW d \in Campaigns
                PROVE  /\ \A k \in Keys : catalog'[d][k].status = "committed" =>
                                            InLedger(ledger[d], catalog'[d][k].id)
                       /\ \A i \in 1..Len(ledger[d]) : ledger[d][i].key \in Keys =>
                             LET e == catalog'[d][ledger[d][i].key] IN
                             e.status # "absent" /\ e.id = ledger[d][i].id /\ e.req = ledger[d][i].req
    BY ReservedIsIn DEF CatalogAgrees
  <2>1. /\ \A k \in Keys : catalog[d][k].status = "committed" => InLedger(ledger[d], catalog[d][k].id)
        /\ \A i \in 1..Len(ledger[d]) : ledger[d][i].key \in Keys =>
              LET e == catalog[d][ledger[d][i].key] IN
              e.status # "absent" /\ e.id = ledger[d][i].id /\ e.req = ledger[d][i].req
    BY ReservedIsIn DEF Books, CatalogAgrees
  <2>q. QED
    BY <1>1, <2>1
<1>7. \A d \in Campaigns : \A k \in Keys :
          catalog'[d][k].status # "absent" => catalog'[d][k].req \in Requests[d]
  BY <1>1 DEF Books
<1>8. ledger' = [d \in Campaigns |-> ledger'[d]]
  BY DEF Books
<1>q. QED
  BY <1>1, <1>2, <1>3, <1>4, <1>5, <1>6, <1>7, <1>8 DEF Books

LEMMA EntriesOf ==
    ASSUME NEW c \in Campaigns, NEW req \in Requests[c], NEW id \in Nat,
           NEW status \in {"pending", "committed"}
    PROVE  [status |-> status, req |-> req, id |-> id] \in Entries
BY DEF Entries

LEMMA SubmitNewStep ==
    ASSUME LedgerInv, NEW cl \in Clients, NEW c \in Campaigns, NEW key \in Keys,
           NEW req \in Requests[c], SubmitNew(cl, c, key, req)
    PROVE  LedgerInv'
<1>. DEFINE entry == [status |-> "pending", req |-> req, id |-> ids + 1]
            k == [op |-> "reserved", campaign |-> c, key |-> key, req |-> req, id |-> ids + 1]
<1>1. /\ UNCHANGED <<ledger, open, live, datasets, registered, acks>> /\ ids' = ids + 1
      /\ catalog' = [catalog EXCEPT ![c][key] = entry] /\ call' = [call EXCEPT ![cl] = k]
      /\ ~Held(c) /\ catalog[c][key].status = "absent" /\ Prepared(ledger[c], req)
      /\ \A i \in 1..Len(ledger[c]) : ledger[c][i].key # key
  BY DEF SubmitNew, Reservation, Reserved
<1>2. Books /\ ids \in Nat /\ ids + 1 \in Nat /\ ids <= ids + 1 /\ ids + 1 \in 1..(ids + 1)
  BY DEF LedgerInv, Books
<1>3. entry \in Entries
  BY <1>2, EntriesOf
<1>4. PICK e : e = entry
  OBVIOUS
<1>5. e.status = "pending" /\ e.req = req /\ e.id = ids + 1 /\ e \in Entries
  BY <1>3, <1>4
<1>6. Books' /\ CatalogGrows /\ LedgerGrows /\ Holds(c, key, e.req, e.id)'
  BY <1>1, <1>2, <1>4, <1>5, BooksAfterEntry
<1>7. ~InLedger(ledger[c], ids + 1)
  BY <1>2 DEF InLedger, Books, Records
<1>8. PICK y : y = k
  OBVIOUS
<1>9. y.id = e.id /\ y.req = e.req /\ y.campaign = c /\ y.key = key /\ y.op = "reserved"
  BY <1>5, <1>8
<1>10. CallOK(y)'
  <2>2. /\ Holds(y.campaign, y.key, y.req, y.id)' /\ Prepared(ledger'[y.campaign], y.req)
        /\ ~InLedger(ledger'[y.campaign], y.id)
    BY <1>1, <1>5, <1>6, <1>7, <1>8, <1>9
  <2>q. QED
    BY <1>8, <1>9, <2>2 DEF CallOK
<1>11. Calls'
  <2>1. call' = [call EXCEPT ![cl] = y] /\ ~Held(y.campaign)
    BY <1>1, <1>8
  <2>q. QED
    BY <1>1, <1>6, <1>10, <2>1, CallsAfter
<1>q. QED
  BY <1>1, <1>6, <1>11, ToldAfter, RegistryAfter DEF LedgerInv

LEMMA SubmitRetriedStep ==
    ASSUME LedgerInv, NEW cl \in Clients, NEW c \in Campaigns, NEW key \in Keys,
           NEW req \in Requests[c], SubmitRetried(cl, c, key, req)
    PROVE  LedgerInv'
<1>. DEFINE k == [op |-> "reserved", campaign |-> c, key |-> key, req |-> req, id |-> catalog[c][key].id]
<1>1. /\ UNCHANGED <<ledger, catalog, open, live, datasets, registered, acks, ids>>
      /\ call' = [call EXCEPT ![cl] = k] /\ ~Held(c) /\ Prepared(ledger[c], req)
      /\ catalog[c][key].status # "absent" /\ catalog[c][key].req = req
      /\ ~InLedger(ledger[c], catalog[c][key].id)
  BY ReservedIsIn DEF SubmitRetried, Reserved, SameRequest
<1>2. Books' /\ CatalogGrows /\ LedgerGrows
  BY <1>1, BooksUnread
<1>3. PICK y : y = k
  OBVIOUS
<1>4. CallOK(y)'
  <2>1. /\ Holds(y.campaign, y.key, y.req, y.id)' /\ Prepared(ledger'[y.campaign], y.req)
        /\ ~InLedger(ledger'[y.campaign], y.id)
    BY <1>1, <1>3 DEF Holds
  <2>q. QED
    BY <1>3, <2>1 DEF CallOK
<1>5. Calls'
  <2>1. call' = [call EXCEPT ![cl] = y] /\ ~Held(y.campaign)
    BY <1>1, <1>3
  <2>q. QED
    BY <1>1, <1>2, <1>4, <2>1, CallsAfter
<1>q. QED
  BY <1>1, <1>2, <1>5, ToldAfter, RegistryAfter DEF LedgerInv

\* A client is told of a record that is there under its key.
LEMMA ToldMore ==
    ASSUME LedgerInv, CatalogGrows, LedgerGrows, NEW c, NEW key, NEW req, NEW id,
           Tell(c, key, req, id), Holds(c, key, req, id)', InLedger(ledger[c], id)'
    PROVE  Told'
<1>. DEFINE a == [campaign |-> c, key |-> key, req |-> req, id |-> id]
<1>1. acks' = acks \cup {a} /\ a.campaign = c /\ a.key = key /\ a.req = req /\ a.id = id
  BY DEF Tell
<1>2. \A b \in acks : Holds(b.campaign, b.key, b.req, b.id)' /\ InLedger(ledger[b.campaign], b.id)'
  BY ToldKept
<1>3. PICK b : b = a
  OBVIOUS
<1>4. b.campaign = c /\ b.key = key /\ b.req = req /\ b.id = id /\ acks' = acks \cup {b}
  BY <1>1, <1>3
<1>5. Holds(b.campaign, b.key, b.req, b.id)' /\ InLedger(ledger[b.campaign], b.id)'
  BY <1>4
<1>q. QED
  BY <1>2, <1>4, <1>5 DEF Told

\* A reservation whose record is there is marked committed.
LEMMA CommitEntry ==
    ASSUME LedgerInv, NEW c \in Campaigns, NEW key \in Keys, NEW req, NEW id,
           catalog[c][key].status # "absent", catalog[c][key].req = req, catalog[c][key].id = id,
           InLedger(ledger[c], id), UNCHANGED <<ledger, ids>>,
           catalog' = [catalog EXCEPT ![c][key].status = "committed"], Tell(c, key, req, id)
    PROVE  Books' /\ CatalogGrows /\ LedgerGrows /\ Told'
<1>. DEFINE old == catalog[c][key]
            entry == [status |-> "committed", req |-> req, id |-> id]
<1>1. Books /\ ids \in Nat /\ catalog \in [Campaigns -> [Keys -> Entries]]
  BY DEF LedgerInv, Books
<1>2. /\ old.id \in 1..ids /\ old.req \in Requests[c]
      /\ old = [status |-> old.status, req |-> old.req, id |-> old.id]
  BY <1>1, EntriesFields
<1>3. entry \in Entries
  <2>1. req \in Requests[c] /\ id \in Nat
    BY <1>1, <1>2
  <2>q. QED
    BY <2>1, EntriesOf
<1>4. [old EXCEPT !.status = "committed"] = entry
  <2>1. old.req = req /\ old.id = id
    OBVIOUS
  <2>. HIDE DEF old
  <2>q. QED
    BY <1>2, <2>1
<1>5. catalog' = [catalog EXCEPT ![c][key] = entry]
  BY <1>1, <1>4
<1>6. PICK e : e = entry
  OBVIOUS
<1>7. e.status = "committed" /\ e.req = req /\ e.id = id /\ e \in Entries
  BY <1>3, <1>6
<1>8. Books' /\ CatalogGrows /\ LedgerGrows /\ Holds(c, key, e.req, e.id)'
  <2>1. e.req \in Requests[c] /\ e.id \in 1..ids' /\ ids' \in Nat /\ ids <= ids'
    BY <1>1, <1>2, <1>7
  <2>2. catalog' = [catalog EXCEPT ![c][key] = e] /\ InLedger(ledger[c], e.id)
    BY <1>5, <1>6, <1>7
  <2>3. catalog[c][key].status # "absent" /\ e.id = catalog[c][key].id /\ e.req = catalog[c][key].req
    BY <1>7
  <2>. HIDE DEF old, entry
  <2>q. QED
    BY <1>1, <1>7, <2>1, <2>2, <2>3, BooksAfterEntry
<1>9. Holds(c, key, req, id)' /\ InLedger(ledger[c], id)'
  BY <1>7, <1>8
<1>q. QED
  BY <1>8, <1>9, ToldMore

LEMMA SubmitReplayedStep ==
    ASSUME LedgerInv, NEW cl \in Clients, NEW c \in Campaigns, NEW key \in Keys,
           NEW req \in Requests[c], SubmitReplayed(cl, c, key, req)
    PROVE  LedgerInv'
<1>1. PICK id : id = catalog[c][key].id
  OBVIOUS
<1>2. /\ UNCHANGED <<ledger, open, live, datasets, registered, call, ids>>
      /\ catalog' = [catalog EXCEPT ![c][key].status = "committed"]
      /\ catalog[c][key].status # "absent" /\ catalog[c][key].req = req
      /\ Tell(c, key, req, id) /\ InLedger(ledger[c], id)
  BY <1>1, ReservedIsIn DEF SubmitReplayed, SameRequest
<1>3. Books' /\ CatalogGrows /\ LedgerGrows /\ Told'
  BY <1>1, <1>2, CommitEntry
<1>4. Calls'
  <2>1. Calls /\ Books
    BY DEF LedgerInv
  <2>2. \A k : CallOK(k) => CallOK(k)'
    <3>. SUFFICES ASSUME NEW k, CallOK(k) PROVE CallOK(k)'
      OBVIOUS
    <3>q. QED
      BY <1>2, <1>3, <2>1, CallKept
  <2>q. QED
    BY <1>2, <2>1, <2>2 DEF Calls, Apart
<1>q. QED
  BY <1>2, <1>3, <1>4, RegistryAfter DEF LedgerInv

LEMMA MutationFields ==
    ASSUME LedgerInv, NEW cl \in Clients, call[cl].op \in {"reserved", "appended"}
    PROVE  LET k == call[cl] IN
           /\ k = [op |-> k.op, campaign |-> k.campaign, key |-> k.key, req |-> k.req, id |-> k.id]
           /\ Holds(k.campaign, k.key, k.req, k.id)
           /\ k.op = "reserved" => /\ Prepared(ledger[k.campaign], k.req)
                                   /\ ~InLedger(ledger[k.campaign], k.id)
           /\ k.op = "appended" => InLedger(ledger[k.campaign], k.id)
BY DEF LedgerInv, Calls, CallOK, Idle

LEMMA MarkCommittedStep ==
    ASSUME LedgerInv, NEW cl \in Clients, MarkCommitted(cl)
    PROVE  LedgerInv'
<1>1. PICK k : k = call[cl]
  OBVIOUS
<1>2. /\ UNCHANGED <<ledger, open, live, datasets, registered, ids>>
      /\ catalog' = [catalog EXCEPT ![k.campaign][k.key].status = "committed"]
      /\ Tell(k.campaign, k.key, k.req, k.id) /\ call' = [call EXCEPT ![cl] = Idle]
      /\ k.op = "appended"
  BY <1>1 DEF MarkCommitted
<1>3. Holds(k.campaign, k.key, k.req, k.id) /\ InLedger(ledger[k.campaign], k.id)
  BY <1>1, <1>2, MutationFields
<1>4. Books' /\ CatalogGrows /\ LedgerGrows /\ Told'
  BY <1>2, <1>3, CommitEntry DEF Holds
<1>5. CallOK(Idle)' /\ Idle.op = "idle"
  BY DEF CallOK, Idle
<1>6. Calls'
  BY <1>2, <1>4, <1>5, CallsAfter
<1>q. QED
  BY <1>2, <1>4, <1>6, RegistryAfter DEF LedgerInv

\* The books after a record of a reserved key.
LEMMA BooksAfterAppend ==
    ASSUME Books, NEW c \in Campaigns, NEW key, NEW req, NEW id, NEW rec,
           Holds(c, key, req, id), Prepared(ledger[c], req), ~InLedger(ledger[c], id),
           rec = RecordFor(ledger[c], req, key, id),
           ledger' = [ledger EXCEPT ![c] = Append(@, rec)], UNCHANGED <<catalog, ids>>
    PROVE  Books' /\ CatalogGrows /\ LedgerGrows /\ InLedger(ledger[c], id)'
<1>. DEFINE led == ledger[c]
            new == Append(led, rec)
<1>1. /\ IsSequence(led) /\ Records(led) /\ Named(c) /\ FoldsWithoutError(led)
      /\ ledger = [d \in Campaigns |-> ledger[d]]
  BY DEF Books, LedgerFolds
<1>2. ledger'[c] = new /\ \A d \in Campaigns \ {c} : ledger'[d] = ledger[d]
  BY <1>1
<1>3. CatalogGrows /\ LedgerGrows
  BY <1>2 DEF CatalogGrows, LedgerGrows
<1>4. rec.id = id /\ rec.key = key /\ rec.req = req
  BY DEF RecordFor
<1>5. /\ IsSequence(new) /\ Len(led) \in Nat /\ Len(new) = Len(led) + 1
      /\ \A i \in 1..Len(led) : new[i] = led[i]
      /\ new[Len(led) + 1] = rec
  BY <1>1, AppendedFields
<1>6. \A i \in 1..Len(led) : led[i].id # id /\ led[i].key # key
  BY DEF InLedger, Books, CatalogAgrees, Holds
<1>7. FoldsWithoutError(new)
  BY <1>1, <1>6, AppendFolds
<1>8. id \in 1..ids /\ Graded(req)
  BY <1>1, GoldAssumption DEF Holds, Named
<1>. HIDE DEF led, new
<1>9. \A i \in 1..Len(new) : i \in 1..Len(led) \/ i = Len(led) + 1
  BY <1>5
<1>10. Records(ledger[c])'
  <2>1. \A i \in 1..Len(new) : new[i].id \in 1..ids /\ Graded(new[i].req)
    BY <1>1, <1>4, <1>5, <1>8, <1>9 DEF Records
  <2>q. QED
    BY <1>2, <2>1 DEF Records
<1>11. InLedger(ledger[c], id)'
  <2>1. Len(led) + 1 \in 1..Len(new)
    BY <1>5
  <2>q. QED
    BY <1>2, <1>4, <1>5, <2>1 DEF InLedger
<1>12. Named(c)'
  <2>1. ASSUME NEW k \in Keys, NEW i \in 1..Len(new), catalog[c][k].status # "absent",
               new[i].id = catalog[c][k].id
        PROVE  new[i].key = k
    <3>1. CASE i \in 1..Len(led)
      BY <1>1, <1>5, <2>1, <3>1 DEF Named, led
    <3>2. CASE i = Len(led) + 1
      BY <1>1, <1>4, <1>5, <2>1, <3>2 DEF Named, Holds
    <3>q. QED
      BY <1>9, <3>1, <3>2
  <2>q. QED
    BY <1>1, <1>2, <2>1 DEF Named
<1>13. \A d \in Campaigns \ {c} : IsSequence(ledger'[d]) /\ Records(ledger[d])' /\ Named(d)'
  BY <1>2 DEF Books, Records, Named
<1>14. LedgerFolds'
  BY <1>2, <1>7 DEF Books, LedgerFolds
<1>15. CatalogAgrees'
  <2>1. \A d \in Campaigns : \A k \in Keys : catalog[d][k].status = "committed" =>
           InLedger(ledger[d], catalog[d][k].id)'
    <3>. SUFFICES ASSUME NEW d \in Campaigns, NEW k \in Keys, NEW z, z = catalog[d][k].id,
                         catalog[d][k].status = "committed"
                  PROVE  InLedger(ledger[d], z)'
      OBVIOUS
    <3>1. InLedger(ledger[d], z)
      BY ReservedIsIn DEF Books, CatalogAgrees
    <3>q. QED
      BY <1>3, <3>1, InLedgerKept
  <2>2. ASSUME NEW d \in Campaigns, NEW i \in 1..Len(ledger'[d]), ledger'[d][i].key \in Keys
        PROVE  LET e == catalog[d][ledger'[d][i].key] IN
               e.status # "absent" /\ e.id = ledger'[d][i].id /\ e.req = ledger'[d][i].req
    <3>1. CASE d # c
      BY <1>2, <2>2, <3>1 DEF Books, CatalogAgrees
    <3>2. CASE d = c /\ i \in 1..Len(led)
      BY <1>2, <1>5, <2>2, <3>2 DEF Books, CatalogAgrees, led
    <3>3. CASE d = c /\ i = Len(led) + 1
      BY <1>2, <1>4, <1>5, <2>2, <3>3 DEF Holds
    <3>q. QED
      BY <1>2, <1>9, <2>2, <3>1, <3>2, <3>3
  <2>q. QED
    BY <2>1, <2>2, ReservedIsIn DEF CatalogAgrees
<1>16. ledger' = [d \in Campaigns |-> ledger'[d]]
  BY <1>1
<1>17. \A d \in Campaigns : IsSequence(ledger'[d]) /\ Records(ledger[d])' /\ Named(d)'
  <2>. SUFFICES ASSUME NEW d \in Campaigns
                PROVE  IsSequence(ledger'[d]) /\ Records(ledger[d])' /\ Named(d)'
    OBVIOUS
  <2>1. CASE d = c
    BY <1>2, <1>5, <1>10, <1>12, <2>1
  <2>2. CASE d # c
    BY <1>13, <2>2
  <2>q. QED
    BY <2>1, <2>2
<1>q. QED
  BY <1>3, <1>11, <1>14, <1>15, <1>16, <1>17 DEF Books

LEMMA AppendRecordStep ==
    ASSUME LedgerInv, NEW cl \in Clients, AppendRecord(cl)
    PROVE  LedgerInv'
<1>. DEFINE c == call[cl].campaign
            z == [op |-> "appended", campaign |-> c, key |-> call[cl].key, req |-> call[cl].req,
                  id |-> call[cl].id]
<1>1. PICK k : k = call[cl]
  OBVIOUS
<1>2. PICK rec : rec = RecordFor(ledger[k.campaign], k.req, k.key, k.id)
  OBVIOUS
<1>3. /\ UNCHANGED <<catalog, open, live, datasets, registered, acks, ids>>
      /\ ledger' = [ledger EXCEPT ![k.campaign] = Append(@, RecordFor(@, k.req, k.key, k.id))]
      /\ call' = [call EXCEPT ![cl].op = "appended"] /\ k.op = "reserved"
  BY <1>1 DEF AppendRecord, Appended
<1>4. /\ k = [op |-> k.op, campaign |-> k.campaign, key |-> k.key, req |-> k.req, id |-> k.id]
      /\ Holds(k.campaign, k.key, k.req, k.id) /\ k.campaign \in Campaigns
      /\ Prepared(ledger[k.campaign], k.req) /\ ~InLedger(ledger[k.campaign], k.id)
  BY <1>1, <1>3, MutationFields DEF Holds
<1>5. Books /\ ledger = [d \in Campaigns |-> ledger[d]]
  BY DEF LedgerInv, Books
<1>6. ledger' = [ledger EXCEPT ![k.campaign] = Append(@, rec)]
  BY <1>2, <1>3, <1>4, <1>5
<1>7. Books' /\ CatalogGrows /\ LedgerGrows /\ InLedger(ledger[k.campaign], k.id)'
  BY <1>2, <1>3, <1>4, <1>5, <1>6, BooksAfterAppend
<1>8. PICK y : y = [op |-> "appended", campaign |-> k.campaign, key |-> k.key, req |-> k.req, id |-> k.id]
  OBVIOUS
<1>9. [k EXCEPT !.op = "appended"] = y
  BY <1>4, <1>8
<1>10. call' = [call EXCEPT ![cl] = y]
  BY <1>1, <1>3, <1>9
<1>11. CallOK(y)'
  <2>1. /\ y.op = "appended" /\ y.campaign = k.campaign /\ y.key = k.key /\ y.req = k.req /\ y.id = k.id
    BY <1>8
  <2>2. Holds(k.campaign, k.key, k.req, k.id)'
    BY <1>4, <1>7, HoldsKept
  <2>q. QED
    BY <1>7, <1>8, <2>1, <2>2 DEF CallOK
<1>12. \A b \in Clients \ {cl} : call[b].op = "reserved" =>
            ledger'[call[b].campaign] = ledger[call[b].campaign]
  <2>. SUFFICES ASSUME NEW b \in Clients \ {cl}, call[b].op = "reserved"
                PROVE  ledger'[call[b].campaign] = ledger[call[b].campaign]
    OBVIOUS
  <2>1. call[b].campaign # k.campaign
    BY <1>1, <1>3 DEF LedgerInv, Calls, Apart
  <2>2. call[b].campaign \in Campaigns
    BY MutationFields DEF Holds
  <2>q. QED
    BY <1>5, <1>6, <2>1, <2>2
<1>13. Calls'
  <2>1. call[cl].op # "idle" /\ y.campaign = call[cl].campaign
    BY <1>1, <1>3, <1>8
  <2>q. QED
    BY <1>7, <1>10, <1>11, <1>12, <2>1, CallsAfter
<1>q. QED
  BY <1>3, <1>7, <1>13, ToldAfter, RegistryAfter DEF LedgerInv

LEMMA LedgerStarts == GoldInit => LedgerInv
<1>. SUFFICES ASSUME GoldInit PROVE LedgerInv
  OBVIOUS
<1>1. /\ ledger = Reviewed /\ catalog = [c \in Campaigns |-> [k \in Keys |-> Free]]
      /\ open = Campaigns /\ live = Campaigns /\ datasets = {} /\ registered = {}
      /\ call = [cl \in Clients |-> Idle] /\ acks = {} /\ ids = SeededIds
  BY DEF GoldInit
<1>2. Free \in Entries /\ Free.status = "absent"
  BY DEF Free, Entries
<1>3. catalog \in [Campaigns -> [Keys -> Entries]] /\ \A c \in Campaigns : \A k \in Keys :
         catalog[c][k].status = "absent"
  BY <1>1, <1>2
<1>4. \A c \in Campaigns : /\ IsSequence(ledger[c]) /\ FoldsWithoutError(ledger[c])
                           /\ \A i \in 1..Len(ledger[c]) :
                                 /\ ledger[c][i].key \notin Keys /\ ledger[c][i].id \in 1..ids
                                 /\ Graded(ledger[c][i].req)
  BY <1>1, GoldAssumption
<1>5. LedgerFolds /\ CatalogAgrees /\ \A c \in Campaigns : Named(c) /\ Records(ledger[c])
  BY <1>3, <1>4 DEF LedgerFolds, CatalogAgrees, Named, Records
<1>6. ledger = [c \in Campaigns |-> ledger[c]] /\ ids \in Nat
  BY <1>1, GoldAssumption
<1>7. Books
  BY <1>3, <1>4, <1>5, <1>6 DEF Books
<1>8. Idle.op = "idle"
  BY DEF Idle
<1>9. Calls
  BY <1>1, <1>8 DEF Calls, Apart, CallOK
<1>q. QED
  BY <1>1, <1>7, <1>9 DEF LedgerInv, Told, Registry

\* The invariant of the campaigns under review (gold_lab/mutations.py,
\* ledger.py, idempotency.py, scientific_export.py, registrations.py) holds in
\* every state, for any campaigns, cases, keys, requests and clients.
THEOREM LedgerInvariant == GoldSpec => []LedgerInv
<1>1. GoldInit => LedgerInv
  BY LedgerStarts
<1>2. LedgerInv /\ [GoldNext]_goldVars => LedgerInv'
  <2>. SUFFICES ASSUME LedgerInv, [GoldNext]_goldVars PROVE LedgerInv'
    OBVIOUS
  <2>1. ASSUME NEW cl \in Clients, NEW c \in Campaigns,
               \/ Export(cl, c)
               \/ \E key \in Keys, req \in Requests[c] :
                    SubmitNew(cl, c, key, req) \/ SubmitReplayed(cl, c, key, req) \/ SubmitRetried(cl, c, key, req)
        PROVE  LedgerInv'
    BY <2>1, ExportStep, SubmitNewStep, SubmitReplayedStep, SubmitRetriedStep
  <2>2. ASSUME NEW cl \in Clients,
               AppendRecord(cl) \/ MarkCommitted(cl) \/ PublishDataset(cl) \/ Register(cl) \/ CallEnds(cl)
        PROVE  LedgerInv'
    BY <2>2, AppendRecordStep, MarkCommittedStep, PublishDatasetStep, RegisterStep, CallEndsStep
  <2>3. CASE \E c \in Campaigns : CloseCampaign(c) \/ ArchiveProject(c)
    BY <2>3, LifecycleStep
  <2>4. CASE UNCHANGED goldVars
    <3>1. UNCHANGED <<ledger, catalog, open, live, datasets, registered, call, acks, ids>>
      BY <2>4 DEF goldVars
    <3>2. Books' /\ CatalogGrows /\ LedgerGrows
      BY <3>1, BooksUnread
    <3>3. \A k : CallOK(k)' <=> CallOK(k)
      BY <3>1 DEF CallOK, Holds
    <3>4. Calls'
      BY <3>1, <3>3 DEF LedgerInv, Calls, Apart
    <3>q. QED
      BY <3>1, <3>2, <3>4, ToldAfter, RegistryAfter DEF LedgerInv
  <2>q. QED
    BY <2>1, <2>2, <2>3, <2>4 DEF GoldNext
<1>q. QED
  BY <1>1, <1>2, PTL DEF GoldSpec

\* What clients were told is what the ledger holds under that key.
LEMMA AcksFollow == LedgerInv => AcknowledgedIsRecorded
<1>. SUFFICES ASSUME LedgerInv, NEW a \in acks
              PROVE  /\ \E r \in ReservedRecords(ledger[a.campaign], a.id) : r.key = a.key /\ r.req = a.req
                     /\ \A b \in acks : b.campaign = a.campaign /\ b.key = a.key => b.id = a.id
  BY DEF AcknowledgedIsRecorded
<1>1. Holds(a.campaign, a.key, a.req, a.id) /\ InLedger(ledger[a.campaign], a.id)
  BY DEF LedgerInv, Told
<1>2. PICK i \in 1..Len(ledger[a.campaign]) : ledger[a.campaign][i].id = a.id
  BY <1>1 DEF InLedger
<1>3. ledger[a.campaign][i].key = a.key
  BY <1>1, <1>2 DEF LedgerInv, Books, Named, Holds
<1>4. ledger[a.campaign][i].req = a.req
  BY <1>1, <1>2, <1>3 DEF LedgerInv, Books, CatalogAgrees, Holds
<1>5. ledger[a.campaign][i] \in ReservedRecords(ledger[a.campaign], a.id)
  BY <1>2 DEF ReservedRecords
<1>6. \A b \in acks : b.campaign = a.campaign /\ b.key = a.key => b.id = a.id
  BY <1>1 DEF LedgerInv, Told, Holds
<1>q. QED
  BY <1>3, <1>4, <1>5, <1>6

\* Whatever calls overlap, die, are retried or refused, and whenever campaigns
\* close: every ledger folds, agrees with its catalog and holds what clients
\* were told, and every registered dataset is published, judged and found
\* again in the ledger.
THEOREM LedgerHolds == GoldSpec => []LedgerIsSound
<1>1. LedgerInv => LedgerIsSound
  <2>. SUFFICES ASSUME LedgerInv PROVE LedgerIsSound
    OBVIOUS
  <2>1. GoldTypeOK
    BY DEF LedgerInv, Books, Records, Calls, Apart, GoldTypeOK
  <2>2. RegisteredIsPublished /\ PackageIsRecoverable
    BY DEF LedgerInv, Registry, Packaged, RegisteredIsPublished, PackageIsRecoverable
  <2>3. ExportedIsJudged
    <3>1. \A r \in registered : Judged(ledger[r.campaign], r.dataset)
      BY DEF LedgerInv, Registry, Packaged
    <3>q. QED
      BY <3>1 DEF ExportedIsJudged, Judged, Given
  <2>q. QED
    BY <2>1, <2>2, <2>3, AcksFollow DEF LedgerInv, Books, LedgerIsSound
<1>q. QED
  BY <1>1, LedgerInvariant, PTL

\* Only the append of a call changes a ledger, and it asks the lifecycle once
\* more (append_under_lease).
LEMMA GrownByAppend ==
    ASSUME LedgerInv, GoldNext, NEW c \in Campaigns, ledger'[c] # ledger[c]
    PROVE  \E cl \in Clients :
              /\ AppendRecord(cl) /\ call[cl].campaign = c
              /\ ledger'[c] = Append(ledger[c], RecordFor(ledger[c], call[cl].req, call[cl].key, call[cl].id))
<1>1. PICK cl \in Clients : AppendRecord(cl)
  <2>1. \A cl \in Clients, d \in Campaigns : Export(cl, d) => ledger' = ledger
    BY DEF Export
  <2>2. \A req : \A cl \in Clients, d \in Campaigns, key \in Keys :
          SubmitNew(cl, d, key, req) \/ SubmitReplayed(cl, d, key, req) \/ SubmitRetried(cl, d, key, req)
            => ledger' = ledger
    BY DEF SubmitNew, SubmitReplayed, SubmitRetried
  <2>3. \A cl \in Clients :
          MarkCommitted(cl) \/ PublishDataset(cl) \/ Register(cl) \/ CallEnds(cl) => ledger' = ledger
    BY DEF MarkCommitted, PublishDataset, Register, CallEnds
  <2>4. \A d \in Campaigns : CloseCampaign(d) \/ ArchiveProject(d) => ledger' = ledger
    BY DEF CloseCampaign, ArchiveProject
  <2>q. QED
    BY <2>1, <2>2, <2>3, <2>4 DEF GoldNext
<1>2. ledger = [d \in Campaigns |-> ledger[d]]
  BY DEF LedgerInv, Books
<1>3. call[cl].campaign = c
  BY <1>1, <1>2 DEF AppendRecord
<1>q. QED
  BY <1>1, <1>2, <1>3 DEF AppendRecord, Appended

\* No step ever writes to the ledger of a closed campaign or an archived
\* project, however long ago its request was accepted.
THEOREM FrozenStays == GoldSpec => [][ClosedIsFrozen]_goldVars
<1>1. LedgerInv /\ [GoldNext]_goldVars => [ClosedIsFrozen]_goldVars
  <2>. SUFFICES ASSUME LedgerInv, GoldNext, NEW c \in Campaigns, c \notin open \/ c \notin live,
                       ledger'[c] # ledger[c]
                PROVE  FALSE
    BY DEF ClosedIsFrozen
  <2>1. PICK cl \in Clients : AppendRecord(cl) /\ call[cl].campaign = c
    BY GrownByAppend
  <2>q. QED
    BY <2>1 DEF AppendRecord, OpenLifecycle
<1>q. QED
  BY <1>1, LedgerInvariant, PTL DEF GoldSpec

\* A grade appended to a ledger that already has the candidate's grade for
\* the query changes no case's question and no case's graded candidates.
LEMMA CorrectionKeeps ==
    ASSUME NEW led, IsSequence(led), NEW rec, rec.req.kind = "absolute_relevance",
           Active(led, rec.req.case), rec.query = EffectiveValues(led, rec.req.case).query,
           CurrentAbsolute(led, rec.req.case, rec.req.cand, rec.query) # 0, NEW case
    PROVE  LET new == Append(led, rec) IN
           /\ CurrentQuestion(new, case) = CurrentQuestion(led, case)
           /\ Active(new, case) <=> Active(led, case)
           /\ Active(led, case) => DOMAIN CurrentJudgments(new, case) = DOMAIN CurrentJudgments(led, case)
<1>. DEFINE new == Append(led, rec)
            n == Len(led)
<1>1. /\ IsSequence(new) /\ n \in Nat /\ Len(new) = n + 1
      /\ \A i \in 1..n : new[i] = led[i]
      /\ new[n + 1] = rec
  BY AppendedFields
<1>. HIDE DEF new, n
<1>2. CurrentQuestion(new, case) = CurrentQuestion(led, case)
  <2>1. {i \in 1..Len(new) : new[i].req.kind = "question_check" /\ new[i].req.case = case}
          = {i \in 1..n : led[i].req.kind = "question_check" /\ led[i].req.case = case}
    BY <1>1
  <2>q. QED
    BY <2>1 DEF CurrentQuestion, n
<1>3. CurrentQuestion(led, case) # 0 => new[CurrentQuestion(led, case)] = led[CurrentQuestion(led, case)]
  <2>. DEFINE S == {i \in 1..n : led[i].req.kind = "question_check" /\ led[i].req.case = case}
  <2>1. CurrentQuestion(led, case) = LastIn(S)
    BY DEF CurrentQuestion, n
  <2>2. S \in SUBSET (1..n)
    OBVIOUS
  <2>. HIDE DEF S
  <2>3. LastIn(S) # 0 => LastIn(S) \in 1..n
    BY <1>1, <2>2, LastInFields
  <2>q. QED
    BY <1>1, <2>1, <2>3
<1>4. Active(new, case) <=> Active(led, case)
  BY <1>2, <1>3 DEF Active
<1>5. Active(led, case) => EffectiveValues(new, case) = EffectiveValues(led, case)
  BY <1>2, <1>3 DEF Active, EffectiveValues
<1>6. ASSUME NEW cand, NEW query
      PROVE  CurrentAbsolute(new, case, cand, query) # 0 <=> CurrentAbsolute(led, case, cand, query) # 0
  <2>. DEFINE In(l) == {i \in 1..Len(l) : /\ l[i].req.kind = "absolute_relevance"
                                          /\ l[i].req.case = case /\ l[i].req.cand = cand
                                          /\ l[i].query = query}
  <2>1. /\ CurrentAbsolute(new, case, cand, query) = LastIn(In(new))
        /\ CurrentAbsolute(led, case, cand, query) = LastIn(In(led))
    BY DEF CurrentAbsolute
  <2>2. In(new) \in SUBSET (1..(n + 1)) /\ In(led) \in SUBSET (1..n)
    BY <1>1 DEF n
  <2>3. In(led) \subseteq In(new) /\ In(new) \subseteq In(led) \cup {n + 1}
    BY <1>1 DEF n
  <2>4. n + 1 \in In(new) => In(led) # {}
    <3>. SUFFICES ASSUME n + 1 \in In(new), In(led) = {} PROVE FALSE
      OBVIOUS
    <3>1. rec.req.case = case /\ rec.req.cand = cand /\ rec.query = query
      BY <1>1
    <3>2. CurrentAbsolute(led, case, cand, query) # 0
      BY <3>1
    <3>q. QED
      BY <2>1, <3>2 DEF LastIn
  <2>. HIDE DEF In
  <2>5. /\ LastIn(In(new)) # 0 <=> In(new) # {}
        /\ LastIn(In(led)) # 0 <=> In(led) # {}
    <3>1. \A m \in Nat : \A S \in SUBSET (1..m) : LastIn(S) # 0 <=> S # {}
      <4>. SUFFICES ASSUME NEW m \in Nat, NEW S \in SUBSET (1..m) PROVE LastIn(S) # 0 <=> S # {}
        OBVIOUS
      <4>1. S # {} => LastIn(S) \in 1..m
        BY LastInFields
      <4>q. QED
        BY <4>1, LastInFields
    <3>2. n \in Nat /\ n + 1 \in Nat
      BY <1>1
    <3>q. QED
      BY <2>2, <3>1, <3>2
  <2>q. QED
    BY <2>1, <2>3, <2>4, <2>5
<1>7. Active(led, case) => DOMAIN CurrentJudgments(new, case) = DOMAIN CurrentJudgments(led, case)
  <2>. SUFFICES ASSUME Active(led, case)
                PROVE  DOMAIN CurrentJudgments(new, case) = DOMAIN CurrentJudgments(led, case)
    OBVIOUS
  <2>. DEFINE query == EffectiveValues(led, case).query
  <2>1. EffectiveValues(new, case).query = query
    BY <1>5
  <2>2. DOMAIN CurrentJudgments(led, case) = {k \in Candidates[case] : CurrentAbsolute(led, case, k, query) # 0}
    <3>. HIDE DEF query
    <3>1. EffectiveValues(led, case).query = query
      BY DEF query
    <3>q. QED
      BY <3>1 DEF CurrentJudgments
  <2>. HIDE DEF query
  <2>3. DOMAIN CurrentJudgments(new, case) = {k \in Candidates[case] : CurrentAbsolute(new, case, k, query) # 0}
    BY <2>1 DEF CurrentJudgments
  <2>q. QED
    BY <1>6, <2>2, <2>3
<1>q. QED
  BY <1>2, <1>4, <1>7 DEF new

\* So it changes nothing of the contribution that a ledger earns.
LEMMA CorrectionCounts ==
    ASSUME NEW led, IsSequence(led), NEW rec, rec.req.kind = "absolute_relevance",
           Active(led, rec.req.case), rec.query = EffectiveValues(led, rec.req.case).query,
           CurrentAbsolute(led, rec.req.case, rec.req.cand, rec.query) # 0
    PROVE  LET new == Append(led, rec) IN
           /\ ExpertJudgments(new) = ExpertJudgments(led)
           /\ QuestionsReviewed(new) = QuestionsReviewed(led)
           /\ CasesCompleted(new) = CasesCompleted(led)
           /\ HardCallsResolved(new) = HardCallsResolved(led)
<1>. DEFINE new == Append(led, rec)
<1>1. \A case : /\ CurrentQuestion(new, case) = CurrentQuestion(led, case)
                /\ Active(new, case) <=> Active(led, case)
                /\ Active(led, case) =>
                      DOMAIN CurrentJudgments(new, case) = DOMAIN CurrentJudgments(led, case)
  BY CorrectionKeeps
<1>. HIDE DEF new
<1>2. ExpertJudgments(new) = ExpertJudgments(led)
  <2>. DEFINE judged == {case \in Cases : Active(led, case)}
              worth(l) == [case \in judged |-> Cardinality(DOMAIN CurrentJudgments(l, case))]
  <2>1. {case \in Cases : Active(new, case)} = judged
    BY <1>1
  <2>2. worth(new) = worth(led)
    BY <1>1
  <2>3. ExpertJudgments(new) = Total(worth(new), judged) /\ ExpertJudgments(led) = Total(worth(led), judged)
    <3>. HIDE DEF judged
    <3>1. {case \in Cases : Active(led, case)} = judged
      BY DEF judged
    <3>q. QED
      BY <2>1, <3>1 DEF ExpertJudgments
  <2>. HIDE DEF worth, judged
  <2>q. QED
    BY <2>2, <2>3
<1>3. QuestionsReviewed(new) = QuestionsReviewed(led)
  <2>1. {case \in Cases : CurrentQuestion(new, case) # 0} = {case \in Cases : CurrentQuestion(led, case) # 0}
    BY <1>1
  <2>q. QED
    BY <2>1 DEF QuestionsReviewed
<1>4. CasesCompleted(new) = CasesCompleted(led)
  <2>. DEFINE Done(l) == {case \in Cases : /\ Active(l, case) /\ Candidates[case] # {}
                                           /\ DOMAIN CurrentJudgments(l, case) = Candidates[case]}
  <2>1. Done(new) = Done(led)
    BY <1>1
  <2>q. QED
    BY <2>1 DEF CasesCompleted
<1>5. HardCallsResolved(new) = HardCallsResolved(led)
  <2>. DEFINE Resolved(l) == {h \in HardCalls : Active(l, h[1]) /\ h[2] \in DOMAIN CurrentJudgments(l, h[1])}
  <2>1. Resolved(new) = Resolved(led)
    BY <1>1
  <2>q. QED
    BY <2>1 DEF HardCallsResolved
<1>q. QED
  BY <1>2, <1>3, <1>4, <1>5 DEF new

\* Judging a candidate again for the same query earns nothing: no step that
\* appends such a record changes the contribution of its campaign.
THEOREM CorrectionsEarnNothing == GoldSpec => [][CorrectionEarnsNothing]_goldVars
<1>1. LedgerInv /\ [GoldNext]_goldVars => [CorrectionEarnsNothing]_goldVars
  <2>. SUFFICES ASSUME LedgerInv, GoldNext, NEW c \in Campaigns, Len(ledger'[c]) > Len(ledger[c]),
                       LET rec == ledger'[c][Len(ledger'[c])] IN
                       rec.req.kind = "absolute_relevance" /\ rec.supersedes # None
                PROVE  Contribution(c)' = Contribution(c)
    BY DEF CorrectionEarnsNothing
  <2>. DEFINE led == ledger[c]
  <2>0. IsSequence(led) /\ Len(led) \in Nat
    BY AppendedFields DEF LedgerInv, Books
  <2>1. ledger'[c] # ledger[c]
    BY <2>0
  <2>2. PICK cl \in Clients :
          /\ AppendRecord(cl) /\ call[cl].campaign = c
          /\ ledger'[c] = Append(led, RecordFor(led, call[cl].req, call[cl].key, call[cl].id))
    BY <2>1, GrownByAppend
  <2>3. PICK rec : rec = RecordFor(led, call[cl].req, call[cl].key, call[cl].id)
    OBVIOUS
  <2>4. ledger'[c][Len(ledger'[c])] = rec
    BY <2>0, <2>2, <2>3, AppendedFields
  <2>5. rec.req = call[cl].req /\ rec.req.kind = "absolute_relevance" /\ rec.supersedes # None
    BY <2>3, <2>4 DEF RecordFor
  <2>6. /\ rec.query = EffectiveValues(led, rec.req.case).query
        /\ rec.supersedes = IdOf(led, CurrentAbsolute(led, rec.req.case, rec.req.cand, rec.query))
    BY <2>3, <2>5 DEF RecordFor
  <2>7. CurrentAbsolute(led, rec.req.case, rec.req.cand, rec.query) # 0
    BY <2>5, <2>6 DEF IdOf, None
  <2>8. Active(led, rec.req.case)
    <3>1. call[cl].op = "reserved"
      BY <2>2 DEF AppendRecord
    <3>2. CallOK(call[cl])
      BY DEF LedgerInv, Calls
    <3>3. Prepared(led, rec.req)
      BY <2>2, <2>5, <3>1, <3>2 DEF CallOK, Idle
    <3>q. QED
      BY <2>5, <3>3 DEF Prepared
  <2>9. /\ ExpertJudgments(ledger'[c]) = ExpertJudgments(led)
        /\ QuestionsReviewed(ledger'[c]) = QuestionsReviewed(led)
        /\ CasesCompleted(ledger'[c]) = CasesCompleted(led)
        /\ HardCallsResolved(ledger'[c]) = HardCallsResolved(led)
    <3>. HIDE DEF led
    <3>1. ledger'[c] = Append(led, rec)
      BY <2>2, <2>3
    <3>q. QED
      BY <2>0, <2>5, <2>6, <2>7, <2>8, <3>1, CorrectionCounts
  <2>10. Finalized(c)' = Finalized(c)
    BY <2>2 DEF AppendRecord, Finalized
  <2>q. QED
    BY <2>9, <2>10 DEF Contribution
<1>q. QED
  BY <1>1, LedgerInvariant, PTL DEF GoldSpec

\* Setting decks up and reviewing them side by side: each half behaves as it
\* does alone, so no step of the lab judges in a closed campaign, earns by
\* judging again, or publishes a deck or a baseline of a workspace that moved.
THEOREM LabIsTimely == Spec => StepsAreTimely
<1>. DEFINE Timely == ClosedIsFrozen /\ CorrectionEarnsNothing /\ DeckIsOfCurrent /\ SucceedsUndrifted
<1>1. Spec => GoldSpec
  <2>1. Init => GoldInit
    BY DEF Init
  <2>2. [Next]_<<goldVars, setupVars, part>> => [GoldNext]_goldVars
    BY DEF Next
  <2>q. QED
    BY <2>1, <2>2, PTL DEF Spec, GoldSpec
<1>2. Spec => SetupSpec
  <2>1. Init => SetupInit
    BY DEF Init
  <2>2. [Next]_<<goldVars, setupVars, part>> => [SetupNext]_setupVars
    BY DEF Next
  <2>q. QED
    BY <2>1, <2>2, PTL DEF Spec, SetupSpec
<1>3. LedgerInv /\ UNCHANGED goldVars => ClosedIsFrozen /\ CorrectionEarnsNothing
  <2>. SUFFICES ASSUME LedgerInv, UNCHANGED goldVars PROVE ClosedIsFrozen /\ CorrectionEarnsNothing
    OBVIOUS
  <2>1. ledger' = ledger
    BY DEF goldVars
  <2>2. \A c \in Campaigns : Len(ledger[c]) \in Nat
    BY AppendedFields DEF LedgerInv, Books
  <2>q. QED
    BY <2>1, <2>2 DEF ClosedIsFrozen, CorrectionEarnsNothing
<1>4. UNCHANGED setupVars => DeckIsOfCurrent /\ SucceedsUndrifted
  BY DEF setupVars, DeckIsOfCurrent, SucceedsUndrifted
<1>5. /\ LedgerInv /\ [ClosedIsFrozen]_goldVars /\ [CorrectionEarnsNothing]_goldVars
      /\ [DeckIsOfCurrent]_setupVars /\ [SucceedsUndrifted]_setupVars
      => [Timely]_<<goldVars, setupVars>>
  BY <1>3, <1>4
<1>q. QED
  BY <1>1, <1>2, <1>5, LedgerInvariant, FrozenStays, CorrectionsEarnNothing, DecksAreCurrent,
     SuccessIsUndrifted, PTL DEF StepsAreTimely, Timely

=============================================================================
