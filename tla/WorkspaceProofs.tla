------------------------ MODULE WorkspaceProofs -------------------------
(***************************************************************************)
(* Proofs about the three protocols of the workspace API, which share no   *)
(* state, and about their composition in MCWorkspace.                      *)
(*                                                                         *)
(* SyncMutation, for any set of requests and any bound on revisions,       *)
(* crashes and faults.  What makes the outcome on record true is that      *)
(* evidence is never ambiguous about the past: the writer of               *)
(* workspace.json tells a record that the journal's operation wrote, and a *)
(* revision above the journal's expected one tells that it did, even when  *)
(* somebody else has written since.                                        *)
(*                                                                         *)
(* CreateIdempotency, for any number of threads, ids and request bodies    *)
(* and any bound on crashes and faults.  What the safety properties need   *)
(* beyond themselves is that the reservation file is written once          *)
(* (Settled): whoever has opened it is alone and finds it empty, and       *)
(* whoever works with a reservation works with the one on disk.            *)
(*                                                                         *)
(* ManagedOperations, for any number of requests, keys, documents and      *)
(* operations and any number of crashes and faults.                        *)
(***************************************************************************)
EXTENDS MCWorkspace, TLAPS

(* --- SyncMutation ---------------------------------------------------------- *)

Continuing == {"PENDING", "RUNNING"}

\* Who may be at which step, and what its operation's record says there.
Holder ==
    /\ pc \in {"begun", "intent", "saved"} =>
            mode = "run" /\ cur \in Ops /\ opStatus[cur] \in Continuing
    /\ pc = "error" => mode \in {"handler", "startup"}
    /\ pc = "down" => mode = "startup"
    /\ (mode = "handler" \/ (mode = "run" /\ pc = "finish")) => cur \in Ops
    /\ (pc = "error" /\ mode = "handler" /\ journal = NoJournal) =>
            opStatus[cur] \in Continuing

\* The journal a step of the protocol works with.
JournalAt ==
    /\ pc \in {"intent", "saved"} =>
            /\ journal # NoJournal /\ journal.op = cur
            /\ journal.phase = "INTENT_RECORDED"
    /\ pc = "intent" => applied[cur] = 0 /\ ws.revision = journal.expected
    /\ pc \in {"saved", "finish"} => journal # NoJournal /\ applied[journal.op] = 1
    /\ pc = "drop" => journal # NoJournal /\ applied[journal.op] = 0
    /\ pc = "interrupt" => journal = NoJournal

\* What the live record proves about the operation of the journal.
Evidence ==
    /\ ws.writer \in Ops => applied[ws.writer] = 1
    /\ journal # NoJournal =>
            /\ journal.receipt.writer = journal.op
            /\ journal.receipt.revision = journal.expected + 1
            /\ applied[journal.op] = 1 => ws.revision > journal.expected
            /\ journal.phase = "WORKSPACE_COMMITTED" => applied[journal.op] = 1

\* An operation is applied at most once, and the status of one that was applied
\* is never FAILED or INTERRUPTED, journal or not.
History ==
    \A op \in Ops :
        /\ applied[op] \in {0, 1}
        /\ applied[op] = 1 => opStatus[op] \in Continuing \cup {"SUCCEEDED"}
        /\ applied[op] = 0 => opStatus[op] # "SUCCEEDED"
        /\ expected[op] < MaxRevision

SyncInv ==
    /\ TypeOK /\ Holder /\ JournalAt /\ Evidence /\ History /\ AppliedIsRemembered

-----------------------------------------------------------------------------

\* The receipt that apply prepares is a record, one revision above the live one.
LEMMA PreparedShape ==
    ASSUME TypeOK, NEW op \in Ops, ws.revision < MaxRevision
    PROVE  /\ Prepared(op) \in Workspace
           /\ Prepared(op).writer = op
           /\ Prepared(op).revision = ws.revision + 1
BY SyncAssumption DEF TypeOK, Prepared, Workspace

\* The fields of a journal on disk.
LEMMA JournalShape ==
    ASSUME TypeOK, journal # NoJournal
    PROVE  /\ journal \in Journal /\ journal.op \in Ops
           /\ journal.receipt \in Workspace
           /\ journal.expected \in 1..MaxRevision
           /\ journal.phase \in {"INTENT_RECORDED", "WORKSPACE_COMMITTED"}
BY DEF TypeOK, Journal

\* reconcile finds B exactly when the operation was applied, and A never then.
LEMMA ReconcileIsRight ==
    ASSUME SyncInv, journal # NoJournal
    PROVE  /\ IsB => applied[journal.op] = 1
           /\ IsA /\ ~IsB => applied[journal.op] = 0
BY JournalShape DEF SyncInv, TypeOK, IsA, IsB, MatchesReceipt, Evidence, History,
                    Workspace

\* The initial state.
LEMMA SyncStarts == Init => SyncInv
<1>. SUFFICES ASSUME Init PROVE SyncInv
  OBVIOUS
<1>1. TypeOK
  <2>1. ws \in Workspace
    BY SyncAssumption DEF Init, Workspace
  <2>2. /\ opStatus \in [Ops -> Statuses] /\ expected \in [Ops -> 0..MaxRevision]
        /\ applied \in [Ops -> Nat]
        /\ crashes \in 0..MaxCrashes /\ faults \in 0..MaxFaults
    BY SyncAssumption DEF Init, Statuses
  <2>3. fenced \in BOOLEAN
    BY DEF Init
  <2>q. QED
    BY <2>1, <2>2, <2>3 DEF Init, TypeOK
<1>2. Holder /\ JournalAt /\ Evidence /\ History /\ AppliedIsRemembered
  BY SyncAssumption, NoOpAssumption
     DEF Init, Holder, JournalAt, Evidence, History, AppliedIsRemembered
<1>q. QED
  BY <1>1, <1>2 DEF SyncInv

\* The steps of a request.
LEMMA SyncRequestSteps ==
    ASSUME SyncInv,
           \/ \E op \in Ops : Request(op)
           \/ WriteIntent \/ Refuse \/ SaveWorkspace \/ SaveRefused
           \/ MarkWorkspaceCommitted \/ RequestReadFault \/ Return
    PROVE  SyncInv'
<1>. USE SyncAssumption
     DEF SyncInv, TypeOK, Continuing, At, Goto, Handle, ReleaseLease, SetStatus,
         budget, records, control, Statuses, Terminal
<1>1. ASSUME NEW op \in Ops, Request(op) PROVE SyncInv'
  <2>1. TypeOK'
    BY <1>1 DEF Request, Workspace
  <2>2. Holder' /\ JournalAt' /\ Evidence' /\ AppliedIsRemembered'
    BY <1>1 DEF Request, Holder, JournalAt, Evidence, AppliedIsRemembered
  <2>3. History'
    BY <1>1, NoOpAssumption DEF Request, History
  <2>q. QED
    BY <2>1, <2>2, <2>3
<1>2. ASSUME WriteIntent PROVE SyncInv'
  <2>1. /\ cur \in Ops /\ mode = "run" /\ opStatus[cur] \in Continuing
        /\ ws.revision = expected[cur] /\ ws.revision < MaxRevision
        /\ applied[cur] = 0
    BY <1>2 DEF WriteIntent, Acceptable, Holder, History, AppliedIsRemembered
  <2>2. journal' \in Journal /\ journal' # NoJournal
    BY <1>2, <2>1, PreparedShape, NoJournalAssumption
       DEF WriteIntent, Journal, Workspace
  <2>3. /\ journal'.op = cur /\ journal'.phase = "INTENT_RECORDED"
        /\ journal'.expected = ws.revision
        /\ journal'.receipt.writer = cur
        /\ journal'.receipt.revision = ws.revision + 1
    BY <1>2, <2>1, PreparedShape DEF WriteIntent
  <2>4. TypeOK'
    BY <1>2, <2>2 DEF WriteIntent
  <2>5. Holder' /\ JournalAt' /\ Evidence' /\ History' /\ AppliedIsRemembered'
    BY <1>2, <2>1, <2>2, <2>3
       DEF WriteIntent, Holder, JournalAt, Evidence, History, AppliedIsRemembered
  <2>q. QED
    BY <2>4, <2>5
<1>3. ASSUME Refuse \/ SaveRefused PROVE SyncInv'
  BY <1>3 DEF Refuse, SaveRefused, Holder, JournalAt, Evidence, History,
              AppliedIsRemembered
<1>4. ASSUME SaveWorkspace PROVE SyncInv'
  <2>1. /\ cur \in Ops /\ opStatus[cur] \in Continuing /\ journal # NoJournal
        /\ journal.op = cur /\ applied[cur] = 0 /\ ws.revision = journal.expected
    BY <1>4 DEF SaveWorkspace, Holder, JournalAt
  <2>2. /\ journal.receipt \in Workspace /\ journal.receipt.writer = cur
        /\ journal.receipt.revision = journal.expected + 1
        /\ journal.expected \in Nat
    BY <2>1, JournalShape DEF Evidence
  <2>3. TypeOK'
    BY <1>4, <2>1, <2>2 DEF SaveWorkspace
  <2>4. applied' = [applied EXCEPT ![cur] = 1]
    BY <1>4, <2>1 DEF SaveWorkspace
  <2>5. Holder' /\ JournalAt' /\ History' /\ AppliedIsRemembered'
    BY <1>4, <2>1, <2>4
       DEF SaveWorkspace, Holder, JournalAt, History, AppliedIsRemembered
  <2>6. Evidence'
    BY <1>4, <2>1, <2>2, <2>4 DEF SaveWorkspace, Evidence
  <2>q. QED
    BY <2>3, <2>5, <2>6
<1>5. ASSUME MarkWorkspaceCommitted PROVE SyncInv'
  <2>1. journal # NoJournal /\ applied[journal.op] = 1
    BY <1>5 DEF MarkWorkspaceCommitted, JournalAt
  <2>2. journal' \in Journal /\ journal' # NoJournal
    BY <1>5, <2>1, JournalShape, NoJournalAssumption DEF MarkWorkspaceCommitted, Journal
  <2>3. /\ journal'.op = journal.op /\ journal'.expected = journal.expected
        /\ journal'.receipt = journal.receipt
    BY <1>5, <2>1, JournalShape DEF MarkWorkspaceCommitted, Journal
  <2>q. QED
    BY <1>5, <2>1, <2>2, <2>3
       DEF MarkWorkspaceCommitted, Holder, JournalAt, Evidence, History,
           AppliedIsRemembered
<1>6. ASSUME RequestReadFault PROVE SyncInv'
  BY <1>6 DEF RequestReadFault, Holder, JournalAt, Evidence, History,
              AppliedIsRemembered
<1>7. ASSUME Return PROVE SyncInv'
  BY <1>7 DEF Return, Holder, JournalAt, Evidence, History, AppliedIsRemembered
<1>q. QED
  BY <1>1, <1>2, <1>3, <1>4, <1>5, <1>6, <1>7

\* Completion to B, whoever does it.
LEMMA CompletionSteps ==
    ASSUME SyncInv, MarkRunning \/ MarkSucceeded \/ DropCommitted
    PROVE  SyncInv'
<1>. USE SyncAssumption
     DEF SyncInv, TypeOK, Continuing, At, Goto, SetStatus, budget, control,
         Statuses, Terminal
<1>. DEFINE j == journal.op
<1>1. pc = "finish" /\ journal # NoJournal /\ j \in Ops /\ applied[j] = 1
  BY JournalShape DEF MarkRunning, MarkSucceeded, DropCommitted, JournalAt
<1>2. ASSUME NEW status \in {"RUNNING", "SUCCEEDED"},
             opStatus' = [opStatus EXCEPT ![j] = status],
             UNCHANGED <<ws, fenced, journal, expected, applied, control, budget>>
      PROVE  SyncInv'
  <2>1. TypeOK'
    BY <1>1, <1>2
  <2>2. Holder'
    BY <1>1, <1>2 DEF Holder
  <2>3. JournalAt' /\ Evidence'
    BY <1>1, <1>2 DEF JournalAt, Evidence
  <2>4. History' /\ AppliedIsRemembered'
    BY <1>1, <1>2 DEF History, AppliedIsRemembered
  <2>q. QED
    BY <2>1, <2>2, <2>3, <2>4
<1>3. ASSUME DropCommitted PROVE SyncInv'
  <2>1. opStatus[j] = "SUCCEEDED"
    BY <1>1, <1>3 DEF DropCommitted, History
  <2>2. TypeOK' /\ Holder' /\ JournalAt' /\ Evidence' /\ History'
    BY <1>1, <1>3 DEF DropCommitted, Holder, JournalAt, Evidence, History
  <2>3. AppliedIsRemembered'
    BY <1>1, <1>3, <2>1 DEF DropCommitted, AppliedIsRemembered
  <2>q. QED
    BY <2>2, <2>3
<1>q. QED
  BY <1>2, <1>3 DEF MarkRunning, MarkSucceeded

\* reconcile and the end of the startup.
LEMMA ReconcileSteps ==
    ASSUME SyncInv,
           \/ ReconcileB \/ ReconcileA \/ DropAbandoned \/ Ambiguous
           \/ ReconcileClean \/ Interrupt \/ Ready
    PROVE  SyncInv'
<1>. USE SyncAssumption
     DEF SyncInv, TypeOK, Continuing, At, Goto, SetStatus, ReleaseLease, budget,
         records, control, Statuses, Terminal, Reconciling
<1>1. ASSUME ReconcileB PROVE SyncInv'
  <2>1. journal # NoJournal /\ applied[journal.op] = 1
    BY <1>1, ReconcileIsRight DEF ReconcileB
  <2>q. QED
    BY <1>1, <2>1 DEF ReconcileB, Holder, JournalAt, Evidence, History,
                      AppliedIsRemembered
<1>2. ASSUME ReconcileA PROVE SyncInv'
  <2>1. journal # NoJournal /\ journal.op \in Ops /\ applied[journal.op] = 0
    BY <1>2, ReconcileIsRight, JournalShape DEF ReconcileA
  <2>2. TypeOK'
    BY <1>2, <2>1 DEF ReconcileA
  <2>3. \A op \in Ops : applied[op] = 1 => opStatus'[op] = opStatus[op]
    BY <1>2, <2>1 DEF ReconcileA
  <2>4. /\ applied' = applied /\ journal' = journal /\ ws' = ws /\ pc' = "drop"
        /\ expected' = expected /\ mode' = mode /\ cur' = cur
    BY <1>2 DEF ReconcileA
  <2>5. \A op \in Ops : applied[op] = 0 => opStatus'[op] # "SUCCEEDED"
    BY <1>2, <2>1 DEF ReconcileA, History
  <2>6. Holder'
    BY <2>4 DEF Holder
  <2>7. JournalAt' /\ Evidence'
    BY <2>1, <2>4 DEF JournalAt, Evidence
  <2>8. History' /\ AppliedIsRemembered'
    BY <2>2, <2>3, <2>4, <2>5 DEF History, AppliedIsRemembered
  <2>q. QED
    BY <2>2, <2>6, <2>7, <2>8
<1>3. ASSUME DropAbandoned PROVE SyncInv'
  <2>1. journal # NoJournal /\ applied[journal.op] = 0
    BY <1>3 DEF DropAbandoned, JournalAt
  <2>2. \A op \in Ops : applied[op] = 1 => opStatus[op] = "SUCCEEDED"
    BY <2>1 DEF AppliedIsRemembered
  <2>q. QED
    BY <1>3, <2>2 DEF DropAbandoned, Holder, JournalAt, Evidence, History,
                      AppliedIsRemembered
<1>4. ASSUME Ambiguous PROVE SyncInv'
  BY <1>4 DEF Ambiguous, Holder, JournalAt, Evidence, History, AppliedIsRemembered
<1>5. ASSUME ReconcileClean PROVE SyncInv'
  <2>1. journal = NoJournal /\ \A op \in Ops : applied[op] = 1 => opStatus[op] = "SUCCEEDED"
    BY <1>5 DEF ReconcileClean, AppliedIsRemembered
  <2>2. CASE mode = "startup"
    BY <1>5, <2>1, <2>2 DEF ReconcileClean, Holder, JournalAt, Evidence, History,
                            AppliedIsRemembered
  <2>3. CASE mode # "startup"
    <3>1. cur \in Ops /\ opStatus[cur] \in Continuing /\ applied[cur] = 0
      BY <1>5, <2>1, <2>3 DEF ReconcileClean, Holder, History
    <3>2. TypeOK' /\ History'
      BY <1>5, <2>1, <2>3, <3>1 DEF ReconcileClean, History
    <3>3. Holder' /\ JournalAt' /\ Evidence' /\ AppliedIsRemembered'
      BY <1>5, <2>1, <2>3, <3>1
         DEF ReconcileClean, Holder, JournalAt, Evidence, AppliedIsRemembered
    <3>q. QED
      BY <3>2, <3>3
  <2>q. QED
    BY <2>2, <2>3
<1>6. ASSUME Interrupt PROVE SyncInv'
  <2>1. journal = NoJournal
    BY <1>6 DEF Interrupt, JournalAt
  <2>2. PICK op \in Ops : /\ opStatus[op] \in Continuing
                          /\ opStatus' = [opStatus EXCEPT ![op] = "INTERRUPTED"]
    BY <1>6 DEF Interrupt
  <2>3. applied[op] = 0
    BY <2>1, <2>2 DEF AppliedIsRemembered, History
  <2>4. TypeOK' /\ Holder' /\ JournalAt' /\ Evidence'
    BY <1>6, <2>1, <2>2 DEF Interrupt, Holder, JournalAt, Evidence
  <2>5. History' /\ AppliedIsRemembered'
    BY <1>6, <2>2, <2>3 DEF Interrupt, History, AppliedIsRemembered
  <2>q. QED
    BY <2>4, <2>5
<1>7. ASSUME Ready PROVE SyncInv'
  BY <1>7 DEF Ready, Holder, JournalAt, Evidence, History, AppliedIsRemembered
<1>q. QED
  BY <1>1, <1>2, <1>3, <1>4, <1>5, <1>6, <1>7

\* A scientific mutation, a fault, a crash or a restart in between.
LEMMA EnvironmentSteps ==
    ASSUME SyncInv, Publication \/ PublicationStuck \/ WriteFault \/ Crash \/ Restart
    PROVE  SyncInv'
<1>. USE SyncAssumption
     DEF SyncInv, TypeOK, Continuing, At, Goto, ReleaseLease, budget, records, control
<1>1. ASSUME Publication PROVE SyncInv'
  <2>1. /\ pc = "idle" /\ ws.revision < MaxRevision
        /\ ws' = [revision |-> ws.revision + 1, deleted |-> FALSE, writer |-> NoOp]
        /\ UNCHANGED <<fenced, journal, opStatus, expected, applied, pc, mode, cur,
                       crashes, faults>>
    BY <1>1 DEF Publication
  <2>2. ws \in Workspace
    OBVIOUS
  <2>3. /\ ws' \in Workspace /\ ws'.writer = NoOp /\ ws'.revision = ws.revision + 1
        /\ ws.revision \in Nat
    <3>. HIDE DEF SyncInv, TypeOK
    <3>q. QED
      BY <2>1, <2>2 DEF Workspace
  <2>4. Evidence'
    <3>1. journal # NoJournal => journal.expected \in Nat
      BY JournalShape
    <3>q. QED
      BY <2>1, <2>3, <3>1, NoOpAssumption DEF Evidence
  <2>q. QED
    BY <2>1, <2>3, <2>4 DEF Holder, JournalAt, History, AppliedIsRemembered
<1>2. ASSUME PublicationStuck \/ Restart PROVE SyncInv'
  <2>1. /\ pc \in {"idle", "down"} /\ pc' \in {"idle", "error"} /\ mode' = mode
        /\ cur' = cur /\ (pc' = "error" => pc = "down")
        /\ faults' \in 0..MaxFaults /\ crashes' = crashes
        /\ UNCHANGED <<ws, journal, opStatus, expected, applied>>
    BY <1>2 DEF PublicationStuck, Restart
  <2>2. fenced' \in BOOLEAN
    BY <1>2 DEF PublicationStuck, Restart
  <2>3. TypeOK'
    BY <2>1, <2>2
  <2>4. Holder' /\ JournalAt' /\ Evidence' /\ History' /\ AppliedIsRemembered'
    BY <2>1 DEF Holder, JournalAt, Evidence, History, AppliedIsRemembered
  <2>q. QED
    BY <2>3, <2>4
<1>3. ASSUME WriteFault \/ Crash PROVE SyncInv'
  <2>1. TypeOK'
    BY <1>3 DEF WriteFault, Crash
  <2>2. Holder' /\ JournalAt' /\ Evidence' /\ History' /\ AppliedIsRemembered'
    BY <1>3 DEF WriteFault, Crash, Holder, JournalAt, Evidence, History,
                AppliedIsRemembered
  <2>q. QED
    BY <2>1, <2>2
<1>q. QED
  BY <1>1, <1>2, <1>3

\* The invariant holds in every state.
LEMMA SyncInvariant == Spec => []SyncInv
<1>1. SyncInv /\ [Next]_vars => SyncInv'
  <2>1. SyncInv /\ UNCHANGED vars => SyncInv'
    BY DEF vars, records, control, budget, SyncInv, TypeOK, Holder, JournalAt,
           Evidence, History, AppliedIsRemembered
  <2>q. QED
    BY <2>1, SyncRequestSteps, CompletionSteps, ReconcileSteps, EnvironmentSteps
       DEF Next, Step, Environment, Rest
<1>q. QED
  BY SyncStarts, <1>1, PTL DEF Spec

\* Every record and control variable of the synchronous path keeps its shape.
THEOREM SyncTypes == Spec => []TypeOK
BY SyncInvariant, PTL DEF SyncInv

\* A patch or tombstone is written at most once, whatever is sent again and
\* wherever a fault or crash falls.
THEOREM AppliedOnce == Spec => []AppliedAtMostOnce
<1>1. SyncInv => AppliedAtMostOnce
  BY DEF SyncInv, History, AppliedAtMostOnce
<1>q. QED
  BY <1>1, SyncInvariant, PTL

\* The status on record is what happened to workspace.json.
THEOREM OutcomesAreTrue == Spec => []OutcomeIsTrue
<1>1. SyncInv => OutcomeIsTrue
  BY DEF SyncInv, History, OutcomeIsTrue, Continuing
<1>q. QED
  BY <1>1, SyncInvariant, PTL

\* Until an applied patch has its outcome, its journal is on disk.
THEOREM AppliedRemembered == Spec => []AppliedIsRemembered
BY SyncInvariant, PTL DEF SyncInv

\* The contract of a synchronous mutation: applied at most once, with the outcome
\* on record that it had, and remembered by its journal until then.
THEOREM SyncIsRecorded == Spec => []AppliedAsRecorded
<1>1. TypeOK /\ AppliedAtMostOnce /\ OutcomeIsTrue /\ AppliedIsRemembered
      => AppliedAsRecorded
  BY DEF AppliedAsRecorded
<1>q. QED
  BY <1>1, SyncTypes, AppliedOnce, OutcomesAreTrue, AppliedRemembered, PTL

(* --- CreateIdempotency ------------------------------------------------------ *)

\* The reservation file is filled by the only thread that opened it, and a
\* thread that goes on to create works with what the file says.
Settled ==
    /\ \A t \in Threads : at[t] = "opened" => index = Blank
    /\ \A t, u \in Threads : (at[t] = "opened" /\ at[u] = "opened") => t = u
    /\ \A t \in Threads : at[t] \in {"reserved", "leased"} => index = res[t]

\* A thread past the draw of an id holds a reservation.
Holding ==
    \A t \in Threads :
        at[t] \in {"reserve", "raced", "opened", "reserved", "leased"}
            => res[t] \in Reservation

CreateInv ==
    /\ CreateTypeOK /\ Holding /\ Settled /\ OneWorkspacePerKey /\ AnswerIsCreated

-----------------------------------------------------------------------------

\* A reservation on disk is neither an absent nor an empty file.
LEMMA ReservationIsWritten ==
    ASSUME NEW r \in Reservation
    PROVE  r # Absent /\ r # Blank /\ r.id \in Ids /\ r.title \in Titles
BY AbsentAssumption DEF Reservation

\* The shape of the state and the reservation a thread holds are kept by every
\* step of _read, _assert_match, reserve and create_workspace.
LEMMA CreateShape == CreateSpec => [](CreateTypeOK /\ Holding)
<1>1. CreateInit => CreateTypeOK /\ Holding
  <2>. SUFFICES ASSUME CreateInit PROVE CreateTypeOK /\ Holding
    OBVIOUS
  <2>1. title \in [Threads -> Titles]
    BY CreateAssumption DEF CreateInit
  <2>2. lock \in [Ids -> Threads \cup {NoOne}] /\ at \in [Threads -> CreateSteps]
    BY DEF CreateInit, CreateSteps
  <2>3. res \in [Threads -> Reservation \cup {Absent}]
    BY DEF CreateInit
  <2>4. answer \in [Threads -> Ids \cup Errors]
    BY DEF CreateInit, Errors
  <2>5. createCrashes \in 0..MaxCreateCrashes /\ createFaults \in 0..MaxCreateFaults
    BY CreateAssumption DEF CreateInit
  <2>6. Holding
    BY DEF CreateInit, Holding
  <2>q. QED
    BY <2>1, <2>2, <2>3, <2>4, <2>5, <2>6 DEF CreateInit, CreateTypeOK
<1>2. CreateTypeOK /\ Holding /\ [CreateNext]_createVars => CreateTypeOK' /\ Holding'
  <2>. SUFFICES ASSUME CreateTypeOK, Holding, [CreateNext]_createVars
                PROVE  CreateTypeOK' /\ Holding'
    OBVIOUS
  <2>. USE CreateAssumption DEF CreateTypeOK, Holding, CreateSteps, createBudget
  <2>1. ASSUME NEW t \in Threads, CreateRequest(t) PROVE CreateTypeOK' /\ Holding'
    BY <2>1 DEF CreateRequest, StepTo
  <2>2. ASSUME NEW t \in Threads, UseExisting(t) PROVE CreateTypeOK' /\ Holding'
    <3>1. CASE index = Blank
      BY <2>2, <3>1 DEF UseExisting, Reply, Errors
    <3>2. CASE index # Blank /\ index.title # title[t]
      BY <2>2, <3>2 DEF UseExisting, Reply, Errors
    <3>3. CASE index # Blank /\ index.title = title[t]
      <4>1. index \in Reservation
        BY <2>2, <3>3 DEF UseExisting
      <4>2. /\ at' = [at EXCEPT ![t] = "reserved"]
            /\ res' = [res EXCEPT ![t] = index]
            /\ UNCHANGED <<answer, index, created, lock, title, createCrashes, createFaults>>
        BY <2>2, <3>3 DEF UseExisting
      <4>q. QED
        BY <4>1, <4>2
    <3>q. QED
      BY <3>1, <3>2, <3>3
  <2>3. ASSUME NEW t \in Threads, Allocate(t) PROVE CreateTypeOK' /\ Holding'
    <3>1. PICK i \in FreshIds : res' = [res EXCEPT ![t] = [id |-> i, title |-> title[t]]]
      BY <2>3 DEF Allocate
    <3>2. [id |-> i, title |-> title[t]] \in Reservation
      BY <3>1 DEF FreshIds, Reservation
    <3>q. QED
      BY <2>3, <3>1, <3>2 DEF Allocate, StepTo
  <2>4. ASSUME NEW t \in Threads, OpenExclusive(t) PROVE CreateTypeOK' /\ Holding'
    BY <2>4 DEF OpenExclusive, StepTo
  <2>5. ASSUME NEW t \in Threads, WriteReservation(t) PROVE CreateTypeOK' /\ Holding'
    BY <2>5 DEF WriteReservation, StepTo
  <2>6. ASSUME NEW t \in Threads, WriteFails(t) PROVE CreateTypeOK' /\ Holding'
    BY <2>6 DEF WriteFails, Reply, Errors
  <2>7. ASSUME NEW t \in Threads, AcquireLease(t) PROVE CreateTypeOK' /\ Holding'
    <3>1. res[t] \in Reservation
      BY <2>7 DEF AcquireLease
    <3>q. QED
      BY <2>7, <3>1, ReservationIsWritten DEF AcquireLease, StepTo, Reply, Errors
  <2>8. ASSUME NEW t \in Threads, CreateWorkspace(t) PROVE CreateTypeOK' /\ Holding'
    <3>1. res[t] \in Reservation /\ res[t].id \in Ids
      BY <2>8, ReservationIsWritten DEF CreateWorkspace
    <3>q. QED
      BY <2>8, <3>1 DEF CreateWorkspace, Reply
  <2>9. CASE CreateCrash
    BY <2>9 DEF CreateCrash
  <2>10. CASE UNCHANGED createVars
    BY <2>10 DEF createVars
  <2>q. QED
    BY <2>1, <2>2, <2>3, <2>4, <2>5, <2>6, <2>7, <2>8, <2>9, <2>10 DEF CreateNext
<1>q. QED
  BY <1>1, <1>2, PTL DEF CreateSpec

\* Every variable of the creation protocol keeps its shape, whatever threads race
\* and whatever crashes.
THEOREM CreateTypes == CreateSpec => []CreateTypeOK
BY CreateShape, PTL

\* What the shape gives about a thread that holds a reservation, and about the
\* file when a workspace exists.
LEMMA CreateFacts ==
    ASSUME CreateTypeOK, Holding, Settled, OneWorkspacePerKey
    PROVE  /\ created # {} => index \in Reservation
           /\ index = Absent => created = {}
           /\ index = Blank => created = {}
           /\ \A t \in Threads : at[t] \in {"reserved", "leased"} => index \in Reservation
BY AbsentAssumption DEF CreateTypeOK, Holding, Settled, OneWorkspacePerKey

\* The strengthened invariant: one step per operation of the protocol.
LEMMA CreateInductive ==
    ASSUME CreateInv, CreateTypeOK', Holding', [CreateNext]_createVars
    PROVE  Settled' /\ OneWorkspacePerKey' /\ AnswerIsCreated'
<1>. USE DEF CreateInv, CreateTypeOK, createBudget
<1>a. CreateTypeOK /\ Holding /\ Settled /\ OneWorkspacePerKey /\ AnswerIsCreated
  OBVIOUS
<1>b. /\ index = Absent => created = {}
      /\ index = Blank => created = {}
      /\ \A t \in Threads : at[t] \in {"reserved", "leased"} => index \in Reservation
      /\ Absent \notin Reservation /\ Blank \notin Reservation /\ Absent # Blank
  BY <1>a, CreateFacts, AbsentAssumption
<1>1. ASSUME NEW t \in Threads, CreateRequest(t)
      PROVE  Settled' /\ OneWorkspacePerKey' /\ AnswerIsCreated'
  BY <1>1, <1>a DEF CreateRequest, StepTo, Settled, OneWorkspacePerKey, AnswerIsCreated
<1>2. ASSUME NEW t \in Threads, UseExisting(t)
      PROVE  Settled' /\ OneWorkspacePerKey' /\ AnswerIsCreated'
  <2>1. Settled'
    BY <1>2, <1>a DEF UseExisting, Reply, Settled, CreateSteps
  <2>2. OneWorkspacePerKey'
    BY <1>2, <1>a DEF UseExisting, OneWorkspacePerKey
  <2>3. AnswerIsCreated'
    BY <1>2, <1>a, IdsAssumption DEF UseExisting, Reply, AnswerIsCreated, Errors
  <2>q. QED
    BY <2>1, <2>2, <2>3
<1>3. ASSUME NEW t \in Threads, Allocate(t)
      PROVE  Settled' /\ OneWorkspacePerKey' /\ AnswerIsCreated'
  BY <1>3, <1>a DEF Allocate, StepTo, Settled, OneWorkspacePerKey, AnswerIsCreated
<1>4. ASSUME NEW t \in Threads, OpenExclusive(t)
      PROVE  Settled' /\ OneWorkspacePerKey' /\ AnswerIsCreated'
  <2>1. CASE index = Absent
    <3>1. created = {} /\ \A u \in Threads : at[u] \notin {"opened", "reserved", "leased"}
      BY <2>1, <1>a, <1>b DEF Settled
    <3>2. at' = [at EXCEPT ![t] = "opened"] /\ index' = Blank
      BY <2>1, <1>4 DEF OpenExclusive, StepTo
    <3>q. QED
      BY <1>4, <1>a, <3>1, <3>2
         DEF OpenExclusive, Settled, OneWorkspacePerKey, AnswerIsCreated
  <2>2. CASE index # Absent
    BY <2>2, <1>4, <1>a
       DEF OpenExclusive, StepTo, Settled, OneWorkspacePerKey, AnswerIsCreated
  <2>q. QED
    BY <2>1, <2>2
<1>5. ASSUME NEW t \in Threads, WriteReservation(t)
      PROVE  Settled' /\ OneWorkspacePerKey' /\ AnswerIsCreated'
  <2>1. /\ created = {}
        /\ \A u \in Threads : at[u] \notin {"reserved", "leased"}
        /\ \A u \in Threads : at[u] = "opened" => u = t
    BY <1>5, <1>a, <1>b DEF WriteReservation, StepTo, Settled
  <2>q. QED
    BY <1>5, <1>a, <2>1
       DEF WriteReservation, StepTo, Settled, OneWorkspacePerKey, AnswerIsCreated
<1>6. ASSUME NEW t \in Threads, WriteFails(t)
      PROVE  Settled' /\ OneWorkspacePerKey' /\ AnswerIsCreated'
  BY <1>6, <1>a, IdsAssumption
     DEF WriteFails, Reply, Settled, OneWorkspacePerKey, AnswerIsCreated, Errors
<1>7. ASSUME NEW t \in Threads, AcquireLease(t)
      PROVE  Settled' /\ OneWorkspacePerKey' /\ AnswerIsCreated'
  BY <1>7, <1>a, IdsAssumption
     DEF AcquireLease, StepTo, Reply, Settled, OneWorkspacePerKey, AnswerIsCreated, Errors
<1>8. ASSUME NEW t \in Threads, CreateWorkspace(t)
      PROVE  Settled' /\ OneWorkspacePerKey' /\ AnswerIsCreated'
  <2>1. res[t] = index /\ index' = index
    BY <1>8, <1>a DEF CreateWorkspace, Settled
  <2>2. \E w \in created' : w.id = res[t].id
    BY <1>8 DEF CreateWorkspace
  <2>3. created \subseteq created' /\ created' \subseteq created \cup {res[t]}
    BY <1>8 DEF CreateWorkspace
  <2>4. Settled'
    BY <1>8, <1>a DEF CreateWorkspace, Reply, Settled
  <2>5. OneWorkspacePerKey'
    BY <1>a, <2>1, <2>3 DEF OneWorkspacePerKey
  <2>6. AnswerIsCreated'
    BY <1>8, <1>a, <2>2, <2>3 DEF CreateWorkspace, Reply, AnswerIsCreated
  <2>q. QED
    BY <2>4, <2>5, <2>6
<1>9. CASE CreateCrash
  BY <1>9, <1>a DEF CreateCrash, Settled, OneWorkspacePerKey, AnswerIsCreated
<1>10. CASE UNCHANGED createVars
  BY <1>10, <1>a DEF createVars, Settled, OneWorkspacePerKey, AnswerIsCreated
<1>q. QED
  BY <1>1, <1>2, <1>3, <1>4, <1>5, <1>6, <1>7, <1>8, <1>9, <1>10 DEF CreateNext

\* The invariant holds in every state.
LEMMA CreateInvariant == CreateSpec => []CreateInv
<1>1. CreateInit => Settled /\ OneWorkspacePerKey /\ AnswerIsCreated
  BY IdsAssumption
     DEF CreateInit, Settled, OneWorkspacePerKey, AnswerIsCreated, Errors
<1>2. /\ CreateTypeOK /\ Holding /\ CreateTypeOK' /\ Holding' /\ [CreateNext]_createVars
      /\ Settled /\ OneWorkspacePerKey /\ AnswerIsCreated
      => Settled' /\ OneWorkspacePerKey' /\ AnswerIsCreated'
  BY CreateInductive DEF CreateInv
<1>q. QED
  BY <1>1, <1>2, CreateShape, PTL DEF CreateSpec, CreateInv

\* One key makes one workspace however many requests race or are repeated and
\* whenever the process dies between the reservation and workspace.json.
THEOREM OneWorkspace == CreateSpec => []OneWorkspacePerKey
BY CreateInvariant, PTL DEF CreateInv

\* A workspace id that create_workspace answered names a workspace that exists.
THEOREM AnswersExist == CreateSpec => []AnswerIsCreated
BY CreateInvariant, PTL DEF CreateInv

\* Any two successful answers under the key name the same workspace, a consequence
\* of the two theorems above.
THEOREM AnswersAgree ==
    CreateSpec =>
        [](\A t, u \in Threads :
              answer[t] \in Ids /\ answer[u] \in Ids => answer[t] = answer[u])
<1>1. CreateInv => \A t, u \in Threads :
              answer[t] \in Ids /\ answer[u] \in Ids => answer[t] = answer[u]
  BY DEF CreateInv, OneWorkspacePerKey, AnswerIsCreated
<1>q. QED
  BY <1>1, CreateInvariant, PTL

\* The contract of create_workspace under a key: at most one workspace, and every
\* answered id is the id of a workspace that exists.
THEOREM CreateHolds == CreateSpec => []CreateIsIdempotent
<1>1. CreateTypeOK /\ OneWorkspacePerKey /\ AnswerIsCreated => CreateIsIdempotent
  BY DEF CreateIsIdempotent
<1>q. QED
  BY <1>1, CreateTypes, OneWorkspace, AnswersExist, PTL

(* --- ManagedOperations ----------------------------------------------------- *)

Reserving == {"locator", "index", "freeze", "admit"}

\* A request under way belongs to a process that serves, and knows its key and
\* envelope; its upload is somewhere on disk.
Asking ==
    \A r \in Requests :
        /\ req[r].pc \notin {"idle", "done"} => up = "serving"
        /\ req[r].pc # "idle" => req[r].key \in Keys /\ req[r].env \in Envelopes
        /\ (req[r].pc \notin {"idle", "done"} /\ req[r].env.new # {}) => spool[r] # "none"

\* From the lookup of its key to its end a request has the lease, and what it
\* reserves is an untouched operation of its key and envelope whose three writes
\* it has made in order.
Reserved ==
    \A r \in Requests :
        /\ req[r].pc \in {"holding"} \cup Reserving => lease = r
        /\ req[r].pc \in Reserving =>
              /\ req[r].op \in OpIds /\ ops[req[r].op] # Nobody
              /\ ops[req[r].op].key = req[r].key /\ ops[req[r].op].env = req[r].env
              /\ ops[req[r].op].status = "PENDING"
              /\ req[r].op \notin launched
        /\ req[r].pc \in {"locator", "index"} => idem[req[r].key] = Nobody
        /\ req[r].pc \in {"index", "freeze", "admit"} => req[r].op \in locator
        /\ req[r].pc \in {"freeze", "admit"} => idem[req[r].key] = req[r].op
        /\ req[r].pc = "admit" => ops[req[r].op].frozen

\* What a client was told of is on record and in both indexes, and only such
\* operations are launched, frozen first, and begun.
Known ==
    /\ ran \subseteq launched /\ launched \subseteq accepted
    /\ \A o \in accepted : ops[o] # Nobody
    /\ \A o \in launched : ops[o].frozen

\* A worker runs in a serving process for a launched operation whose status tells
\* how far it has come; it has the lease from its acquisition to its end.
Working ==
    \A o \in InUse :
        /\ up = "serving" /\ o \in launched
        /\ work[o] \in {"queued", "leased"} => ops[o].status = "PENDING"
        /\ work[o] \in {"plan", "vault"} => ops[o].status = "PREPARING"
        /\ work[o] = "publish" => ops[o].status = "RUNNING" /\ Vaulted(o)
        /\ work[o] = "ending" => ops[o].status \in {"SUCCEEDED", "FAILED"} \/ o \in refused
        /\ work[o] \in {"leased", "plan", "vault", "publish"} => lease = o

\* The inductive invariant.
ManagedInv ==
    /\ ManagedTypeOK /\ Asking /\ Reserved /\ Known /\ Working
    /\ IndexNeverDangles
    /\ vaultMeta \subseteq vaultObj
    /\ AcceptedBytesKept /\ ActiveIsVaulted

USE ManagedAssumption

-----------------------------------------------------------------------------
(* Operation records                                                       *)

\* A write of one record.
LEMMA RecordWritten ==
    ASSUME ManagedTypeOK, NEW o \in OpIds, NEW x \in OperationRecords,
           ops' = [ops EXCEPT ![o] = x]
    PROVE  /\ ops' \in [OpIds -> OperationRecords \cup {Nobody}]
           /\ \A p \in OpIds : p # o => ops'[p] = ops[p]
           /\ ops'[o] = x /\ ops'[o] # Nobody
BY DEF ManagedTypeOK

\* What a write of a status does to the records.
LEMMA StatusMoved ==
    ASSUME ManagedTypeOK, NEW o \in OpIds, ops[o] # Nobody,
           NEW s \in OperationStatuses, MoveStatus(o, s)
    PROVE  /\ ops' \in [OpIds -> OperationRecords \cup {Nobody}]
           /\ \A p \in OpIds : p # o => ops'[p] = ops[p]
           /\ ops'[o] # Nobody
           /\ ops'[o].key = ops[o].key /\ ops'[o].env = ops[o].env
           /\ ops'[o].frozen = ops[o].frozen
           /\ ops'[o].status = IF s \in Legal(ops[o].status) THEN s ELSE ops[o].status
           /\ ops[o].status \in TerminalStatuses => ops'[o] = ops[o]
<1>. DEFINE t == IF s \in Legal(ops[o].status) THEN s ELSE ops[o].status
<1>1. ops \in [OpIds -> OperationRecords \cup {Nobody}] /\ ops[o] \in OperationRecords
  BY DEF ManagedTypeOK
<1>2. ops' = [ops EXCEPT ![o] = [ops[o] EXCEPT !.status = t]]
  BY DEF MoveStatus
<1>3. t \in OperationStatuses
  BY <1>1 DEF OperationRecords
<1>4. [ops[o] EXCEPT !.status = t] \in OperationRecords
  BY <1>1, <1>3 DEF OperationRecords
<1>5. ops[o].status \in TerminalStatuses => t = ops[o].status
  BY DEF Legal, TerminalStatuses
<1>6. ops[o].status \in TerminalStatuses => ops'[o] = ops[o]
  BY <1>1, <1>2, <1>5 DEF OperationRecords
<1>q. QED
  BY <1>1, <1>2, <1>3, <1>4, <1>6 DEF OperationRecords

-----------------------------------------------------------------------------
(* What the actions have in common                                         *)

\* The statuses in which the upload of an operation may still be needed.
Live == {"PENDING", "PREPARING", "RUNNING", "INTERRUPTED"}

\* A request that goes on changes nothing but its step and its operation.
RequestRecords == [pc: RequestSteps, key: Keys \cup {Nobody}, env: Envelopes \cup {Nobody},
                   op: OpIds \cup {Nobody}]
WentOn(r, stage, o) ==
    /\ req' \in [Requests -> RequestRecords]
    /\ \A x \in Requests : x # r => req'[x] = req[x]
    /\ req'[r].pc = stage /\ req'[r].op = o
    /\ req'[r].key = req[r].key /\ req'[r].env = req[r].env

LEMMA Proceeded ==
    ASSUME ManagedTypeOK, NEW r \in Requests, NEW stage \in RequestSteps,
           NEW o \in OpIds \cup {Nobody}, Proceed(r, stage, o)
    PROVE  WentOn(r, stage, o)
<1>1. req[r] \in RequestRecords
  BY DEF ManagedTypeOK, RequestRecords
<1>2. req' = [req EXCEPT ![r] = [pc |-> stage, key |-> req[r].key, env |-> req[r].env, op |-> o]]
  BY DEF Proceed
<1>q. QED
  BY <1>1, <1>2 DEF ManagedTypeOK, RequestRecords, WentOn

\* The vault holds what is served as long as neither changes.
LEMMA VaultKept ==
    ASSUME ManagedInv, UNCHANGED <<record, vaultObj, vaultMeta>>
    PROVE  (vaultMeta \subseteq vaultObj)' /\ ActiveIsVaulted'
BY DEF ManagedInv, ActiveIsVaulted, Active

\* The indexes are sound as long as records only gain a frozen worklist or
\* another status.
LEMMA IndexKept ==
    ASSUME ManagedInv, UNCHANGED <<locator, idem, accepted, launched>>, ran' \subseteq launched,
           \A p \in OpIds : ops[p] # Nobody => /\ ops'[p] # Nobody /\ ops'[p].key = ops[p].key
                                               /\ ops[p].frozen => ops'[p].frozen
    PROVE  Known' /\ IndexNeverDangles'
<1>1. Known'
  BY DEF ManagedInv, Known, ManagedTypeOK
<1>2. IndexNeverDangles'
  BY DEF ManagedInv, Known, ManagedTypeOK, IndexNeverDangles
<1>q. QED
  BY <1>1, <1>2

\* What is on disk and what clients were told stays consistent by itself.
LEMMA DiskKept ==
    ASSUME ManagedInv, UNCHANGED <<disk, ran, accepted, launched>>
    PROVE  Known' /\ IndexNeverDangles' /\ (vaultMeta \subseteq vaultObj)' /\ ActiveIsVaulted'
<1>1. UNCHANGED <<ops, locator, idem, record, vaultObj, vaultMeta>>
  BY DEF disk
<1>2. Known' /\ IndexNeverDangles'
  BY <1>1, IndexKept DEF ManagedInv, Known
<1>q. QED
  BY <1>1, <1>2, VaultKept

\* A request that was not answered yet can only touch its own upload.
LEMMA RequestKeepsBytes ==
    ASSUME ManagedInv, NEW r \in Requests, req[r].pc # "done",
           \A x \in Requests : x # r => req'[x] = req[x] /\ spool'[x] = spool[x],
           UNCHANGED <<vaultMeta, launched, refused>>,
           \A o \in launched : ops'[o] = ops[o]
    PROVE  AcceptedBytesKept'
<1>. SUFFICES ASSUME NEW o \in launched \ refused, ops[o].status \in Live, ~Vaulted(o)'
              PROVE  (\E x \in UploadOf(o) : spool[x] # "none")'
  BY DEF AcceptedBytesKept, Live
<1>1. ops'[o] = ops[o] /\ ~Vaulted(o)
  BY DEF Vaulted
<1>2. PICK x \in UploadOf(o) : spool[x] # "none"
  BY <1>1 DEF ManagedInv, AcceptedBytesKept, Live
<1>3. x \in Requests /\ x # r
  BY <1>2 DEF UploadOf
<1>q. QED
  BY <1>2, <1>3 DEF UploadOf

\* A worker leaves uploads alone until it ends, and no status it writes makes an
\* upload needed that was not.
LEMMA WorkerKeepsBytes ==
    ASSUME ManagedInv, UNCHANGED <<req, spool, launched>>,
           refused \subseteq refused', vaultMeta \subseteq vaultMeta',
           \A p \in launched : /\ ops'[p].env = ops[p].env
                               /\ ops'[p].status \in Live => ops[p].status \in Live
    PROVE  AcceptedBytesKept'
<1>. SUFFICES ASSUME NEW o \in launched \ refused, ops[o].status \in Live, ~Vaulted(o)'
              PROVE  (\E x \in UploadOf(o) : spool[x] # "none")'
  BY DEF AcceptedBytesKept, Live
<1>1. ~Vaulted(o)
  BY DEF Vaulted
<1>2. PICK x \in UploadOf(o) : spool[x] # "none"
  BY <1>1 DEF ManagedInv, AcceptedBytesKept, Live
<1>q. QED
  BY <1>2 DEF UploadOf

-----------------------------------------------------------------------------
(* The steps of a request                                                  *)

LEMMA SpoolStep ==
    ASSUME ManagedInv, NEW r \in Requests, NEW k \in Keys, NEW e \in Envelopes, Spool(r, k, e)
    PROVE  ManagedInv'
<1>. USE DEF Spool
<1>1. /\ req' \in [Requests -> RequestRecords] /\ \A x \in Requests : x # r => req'[x] = req[x]
      /\ req'[r] = [pc |-> "spooled", key |-> k, env |-> e, op |-> Nobody]
  BY DEF ManagedInv, ManagedTypeOK, RequestRecords, RequestSteps
<1>2. ManagedTypeOK'
  BY <1>1 DEF ManagedInv, ManagedTypeOK, RequestRecords, disk, history, Active
<1>3. Asking'
  BY <1>1 DEF ManagedInv, Asking, ManagedTypeOK
<1>4. Reserved'
  BY <1>1 DEF ManagedInv, Reserved, Reserving, disk, history
<1>5. Working'
  BY DEF ManagedInv, Working, InUse, Vaulted, disk, history
<1>6. AcceptedBytesKept'
  BY <1>1, RequestKeepsBytes DEF ManagedInv, ManagedTypeOK, disk, history
<1>7. UNCHANGED <<disk, ran, accepted, launched>>
  BY DEF history
<1>q. QED
  BY <1>2, <1>3, <1>4, <1>5, <1>6, <1>7, DiskKept DEF ManagedInv

LEMMA EnterStep ==
    ASSUME ManagedInv, NEW r \in Requests, Enter(r)
    PROVE  ManagedInv'
<1>. USE DEF Enter
<1>1. WentOn(r, "waiting", req[r].op)
  BY Proceeded DEF ManagedInv, ManagedTypeOK, RequestSteps
<1>2. ManagedTypeOK'
  BY <1>1 DEF ManagedInv, ManagedTypeOK, RequestRecords, WentOn, disk, history, Active
<1>3. Asking'
  BY <1>1 DEF ManagedInv, Asking, WentOn
<1>4. Reserved'
  BY <1>1 DEF ManagedInv, Reserved, Reserving, WentOn, disk, history
<1>5. Working'
  BY DEF ManagedInv, Working, InUse, Vaulted, disk, history
<1>6. AcceptedBytesKept'
  BY <1>1, RequestKeepsBytes DEF ManagedInv, WentOn, disk, history
<1>7. UNCHANGED <<disk, ran, accepted, launched>>
  BY DEF history
<1>q. QED
  BY <1>2, <1>3, <1>4, <1>5, <1>6, <1>7, DiskKept DEF ManagedInv

\* The lease was free, so no worker and no other request relied on it.
LEMMA AcquireStep ==
    ASSUME ManagedInv, NEW r \in Requests, Acquire(r)
    PROVE  ManagedInv'
<1>. USE DEF Acquire
<1>1. WentOn(r, "holding", req[r].op)
  BY Proceeded DEF ManagedInv, ManagedTypeOK, RequestSteps
<1>2. ManagedTypeOK'
  BY <1>1 DEF ManagedInv, ManagedTypeOK, RequestRecords, WentOn, disk, history, Active
<1>3. Asking'
  BY <1>1 DEF ManagedInv, Asking, WentOn
<1>4. Reserved'
  BY <1>1 DEF ManagedInv, Reserved, Reserving, WentOn, disk, history
<1>5. Working'
  BY DEF ManagedInv, Working, InUse, Vaulted, disk, history
<1>6. AcceptedBytesKept'
  BY <1>1, RequestKeepsBytes DEF ManagedInv, WentOn, disk, history
<1>7. UNCHANGED <<disk, ran, accepted, launched>>
  BY DEF history
<1>q. QED
  BY <1>2, <1>3, <1>4, <1>5, <1>6, <1>7, DiskKept DEF ManagedInv

\* A request that ends gives the lease back: as it had it, no worker did and no
\* other request.
LEMMA Ended ==
    ASSUME ManagedInv, NEW r \in Requests, req[r].pc \in {"holding"} \cup Reserving,
           EndWithoutWorker(r), UNCHANGED <<locator, idem, launched, refused, vaultMeta>>,
           \A o \in OpIds : o # req[r].op \/ req[r].pc = "holding" => ops'[o] = ops[o]
    PROVE  /\ req' \in [Requests -> RequestRecords]
           /\ spool' \in [Requests -> {"none", "staged", "quarantined"}]
           /\ Asking' /\ Reserved' /\ Working' /\ AcceptedBytesKept'
<1>. USE DEF EndWithoutWorker, End
<1>1. WentOn(r, "done", Nobody)
  BY Proceeded DEF ManagedInv, RequestSteps
<1>2. /\ spool' \in [Requests -> {"none", "staged", "quarantined"}]
      /\ \A x \in Requests : x # r => spool'[x] = spool[x]
  BY DEF ManagedInv, ManagedTypeOK, Discard
<1>3. \A x \in Requests : x # r => req[x].pc \notin {"holding"} \cup Reserving
  BY DEF ManagedInv, Reserved
<1>4. \A o \in launched : ops'[o] = ops[o]
  BY DEF ManagedInv, ManagedTypeOK, Reserved
<1>5. Asking'
  BY <1>1, <1>2 DEF ManagedInv, Asking, WentOn, Reserving
<1>6. Reserved'
  BY <1>1, <1>3 DEF Reserved, Reserving, WentOn
<1>7. Working'
  <2>. SUFFICES ASSUME NEW o \in InUse
                PROVE  /\ up = "serving" /\ o \in launched
                       /\ work[o] \in {"queued", "leased"} => ops'[o].status = "PENDING"
                       /\ work[o] \in {"plan", "vault"} => ops'[o].status = "PREPARING"
                       /\ work[o] = "publish" => ops'[o].status = "RUNNING" /\ Vaulted(o)'
                       /\ work[o] = "ending" => ops'[o].status \in {"SUCCEEDED", "FAILED"} \/ o \in refused
                       /\ work[o] \notin {"leased", "plan", "vault", "publish"}
    BY DEF Working, InUse
  <2>1. o \in OpIds /\ o \in launched /\ ops'[o] = ops[o]
    BY <1>4 DEF ManagedInv, Working, InUse
  <2>2. lease = r
    BY DEF ManagedInv, Reserved
  <2>3. o # r
    BY <2>1
  <2>q. QED
    BY <2>1, <2>2, <2>3 DEF ManagedInv, Working, Vaulted
<1>8. AcceptedBytesKept'
  BY <1>1, <1>2, <1>4, RequestKeepsBytes DEF WentOn, Reserving
<1>q. QED
  BY <1>1, <1>2, <1>5, <1>6, <1>7, <1>8 DEF WentOn

\* The request was refused or its write failed: what is on disk stays.
LEMMA RefusedStep ==
    ASSUME ManagedInv, NEW r \in Requests, req[r].pc \in {"holding"} \cup Reserving,
           EndWithoutWorker(r), UNCHANGED <<disk, history>>
    PROVE  ManagedInv'
<1>1. /\ req' \in [Requests -> RequestRecords]
      /\ spool' \in [Requests -> {"none", "staged", "quarantined"}]
      /\ Asking' /\ Reserved' /\ Working' /\ AcceptedBytesKept'
  BY Ended DEF disk, history
<1>2. ManagedTypeOK'
  BY <1>1 DEF ManagedInv, ManagedTypeOK, RequestRecords, EndWithoutWorker, End, disk, history, Active
<1>3. UNCHANGED <<disk, ran, accepted, launched>>
  BY DEF history
<1>q. QED
  BY <1>1, <1>2, <1>3, DiskKept DEF ManagedInv

\* The index led to an operation on record with a locator: one more client is
\* told of it.
LEMMA ReturnExistingStep ==
    ASSUME ManagedInv, NEW r \in Requests, ReturnExisting(r)
    PROVE  ManagedInv'
<1>. DEFINE o == idem[req[r].key]
<1>. USE DEF ReturnExisting
<1>1. /\ req' \in [Requests -> RequestRecords]
      /\ spool' \in [Requests -> {"none", "staged", "quarantined"}]
      /\ Asking' /\ Reserved' /\ Working' /\ AcceptedBytesKept'
  BY Ended DEF disk
<1>2. req[r].key \in Keys
  BY DEF ManagedInv, Asking
<1>3. /\ o \in OpIds /\ ops[o] # Nobody /\ o \in locator /\ idem[ops[o].key] = o
      /\ accepted' = accepted \cup {o}
  BY <1>2 DEF ManagedInv, ManagedTypeOK, IndexNeverDangles
<1>4. ManagedTypeOK'
  BY <1>1, <1>3 DEF ManagedInv, ManagedTypeOK, RequestRecords, EndWithoutWorker, End, disk, Active
<1>5. Known'
  BY <1>3 DEF ManagedInv, Known, disk
<1>6. IndexNeverDangles'
  BY <1>3 DEF ManagedInv, IndexNeverDangles, disk
<1>7. (vaultMeta \subseteq vaultObj)' /\ ActiveIsVaulted'
  BY VaultKept DEF disk
<1>q. QED
  BY <1>1, <1>4, <1>5, <1>6, <1>7 DEF ManagedInv

LEMMA RepairStep ==
    ASSUME ManagedInv, NEW r \in Requests, Repair(r)
    PROVE  ManagedInv'
<1>. DEFINE o == idem[req[r].key]
<1>. USE DEF Repair
<1>1. req[r].key \in Keys
  BY DEF ManagedInv, Asking
<1>2. /\ o \in OpIds /\ ops[o] # Nobody /\ o \in locator /\ ops[o].key = req[r].key
      /\ ops[o].env = req[r].env /\ ops[o].status = "PENDING" /\ ~ops[o].frozen
  BY <1>1 DEF ManagedInv, ManagedTypeOK, IndexNeverDangles, Repairable, SameEnvelope
<1>3. o \notin launched
  BY <1>2 DEF ManagedInv, Known
<1>4. WentOn(r, "freeze", o)
  BY <1>2, Proceeded DEF ManagedInv, RequestSteps
<1>5. ManagedTypeOK'
  BY <1>4 DEF ManagedInv, ManagedTypeOK, RequestRecords, WentOn, disk, history, Active
<1>6. Asking'
  BY <1>4 DEF ManagedInv, Asking, WentOn
<1>7. Reserved'
  BY <1>2, <1>3, <1>4 DEF ManagedInv, Reserved, Reserving, WentOn, disk, history
<1>8. Working'
  BY DEF ManagedInv, Working, InUse, Vaulted, disk, history
<1>9. AcceptedBytesKept'
  BY <1>4, RequestKeepsBytes DEF ManagedInv, WentOn, disk, history
<1>10. UNCHANGED <<disk, ran, accepted, launched>>
  BY DEF history
<1>q. QED
  BY <1>5, <1>6, <1>7, <1>8, <1>9, <1>10, DiskKept DEF ManagedInv

\* The new id has no record, so nobody was told of it and no index leads to it.
LEMMA WriteRecordStep ==
    ASSUME ManagedInv, NEW r \in Requests, WriteRecord(r)
    PROVE  ManagedInv'
<1>. DEFINE n == new_operation_id
            new == [key |-> req[r].key, env |-> req[r].env, status |-> "PENDING", frozen |-> FALSE]
<1>. USE DEF WriteRecord
<1>1. n \in OpIds /\ ops[n] = Nobody
  BY DEF Fresh, new_operation_id
<1>2. new \in OperationRecords
  BY DEF ManagedInv, Asking, OperationRecords, OperationStatuses
<1>3. n \notin accepted /\ n \notin launched
  BY <1>1 DEF ManagedInv, Known
<1>. HIDE DEF n, new
<1>4. ops' = [ops EXCEPT ![n] = new]
  BY DEF n, new
<1>5. /\ ops' \in [OpIds -> OperationRecords \cup {Nobody}]
      /\ ops'[n] = new /\ ops'[n] # Nobody
      /\ \A p \in OpIds : p # n => ops'[p] = ops[p]
  BY <1>1, <1>2, <1>4, RecordWritten DEF ManagedInv
<1>6. WentOn(r, "locator", n)
  BY <1>1, Proceeded DEF ManagedInv, RequestSteps, n
<1>7. ManagedTypeOK'
  BY <1>5, <1>6 DEF ManagedInv, ManagedTypeOK, RequestRecords, WentOn, history, Active
<1>8. Asking'
  BY <1>6 DEF ManagedInv, Asking, WentOn
<1>9. Reserved'
  <2>1. ops'[n].key = req[r].key /\ ops'[n].env = req[r].env /\ ops'[n].status = "PENDING"
    BY <1>5 DEF new
  <2>2. \A x \in Requests : x # r => req[x].pc \notin {"holding"} \cup Reserving
    BY DEF ManagedInv, Reserved
  <2>q. QED
    BY <1>1, <1>3, <1>5, <1>6, <2>1, <2>2 DEF ManagedInv, Reserved, Reserving, WentOn, history
<1>10. Working'
  BY <1>3, <1>5 DEF ManagedInv, Working, InUse, Vaulted, history
<1>11. AcceptedBytesKept'
  <2>1. \A o \in launched : ops'[o] = ops[o]
    BY <1>3, <1>5 DEF ManagedInv, ManagedTypeOK
  <2>q. QED
    BY <1>6, <2>1, RequestKeepsBytes DEF ManagedInv, WentOn, history
<1>12. Known' /\ IndexNeverDangles'
  BY <1>1, <1>5, IndexKept DEF ManagedInv, Known, history
<1>13. (vaultMeta \subseteq vaultObj)' /\ ActiveIsVaulted'
  BY VaultKept
<1>q. QED
  BY <1>7, <1>8, <1>9, <1>10, <1>11, <1>12, <1>13 DEF ManagedInv

LEMMA WriteLocatorStep ==
    ASSUME ManagedInv, NEW r \in Requests, WriteLocator(r)
    PROVE  ManagedInv'
<1>. USE DEF WriteLocator
<1>1. req[r].op \in OpIds /\ ops[req[r].op] # Nobody
  BY DEF ManagedInv, Reserved, Reserving
<1>2. WentOn(r, "index", req[r].op)
  BY <1>1, Proceeded DEF ManagedInv, RequestSteps
<1>3. ManagedTypeOK'
  BY <1>1, <1>2 DEF ManagedInv, ManagedTypeOK, RequestRecords, WentOn, history, Active
<1>4. Asking'
  BY <1>2 DEF ManagedInv, Asking, WentOn
<1>5. Reserved'
  BY <1>1, <1>2 DEF ManagedInv, Reserved, Reserving, WentOn, history
<1>6. Working'
  BY DEF ManagedInv, Working, InUse, Vaulted, history
<1>7. AcceptedBytesKept'
  BY <1>2, RequestKeepsBytes DEF ManagedInv, WentOn, history
<1>8. Known' /\ IndexNeverDangles'
  BY <1>1 DEF ManagedInv, Known, IndexNeverDangles, history
<1>9. (vaultMeta \subseteq vaultObj)' /\ ActiveIsVaulted'
  BY VaultKept
<1>q. QED
  BY <1>3, <1>4, <1>5, <1>6, <1>7, <1>8, <1>9 DEF ManagedInv

\* The key led nowhere, so no operation a client was told of has it.
LEMMA WriteIndexStep ==
    ASSUME ManagedInv, NEW r \in Requests, WriteIndex(r)
    PROVE  ManagedInv'
<1>. USE DEF WriteIndex
<1>1. /\ req[r].op \in OpIds /\ ops[req[r].op] # Nobody /\ ops[req[r].op].key = req[r].key
      /\ req[r].key \in Keys /\ idem[req[r].key] = Nobody /\ req[r].op \in locator
      /\ lease = r
  BY DEF ManagedInv, Asking, Reserved, Reserving
<1>2. WentOn(r, "freeze", req[r].op)
  BY <1>1, Proceeded DEF ManagedInv, RequestSteps
<1>3. /\ idem' \in [Keys -> OpIds \cup {Nobody}] /\ idem'[req[r].key] = req[r].op
      /\ \A k \in Keys : k # req[r].key => idem'[k] = idem[k]
  BY <1>1 DEF ManagedInv, ManagedTypeOK
<1>4. ManagedTypeOK'
  BY <1>2, <1>3 DEF ManagedInv, ManagedTypeOK, RequestRecords, WentOn, history, Active
<1>5. Asking'
  BY <1>2 DEF ManagedInv, Asking, WentOn
<1>6. Reserved'
  <2>1. \A x \in Requests : x # r => req[x].pc \notin {"holding"} \cup Reserving
    BY <1>1 DEF ManagedInv, Reserved
  <2>q. QED
    BY <1>1, <1>2, <1>3, <2>1 DEF ManagedInv, Reserved, Reserving, WentOn, history
<1>7. Working'
  BY DEF ManagedInv, Working, InUse, Vaulted, history
<1>8. AcceptedBytesKept'
  BY <1>2, RequestKeepsBytes DEF ManagedInv, WentOn, history
<1>9. IndexNeverDangles'
  <2>1. \A o \in accepted : ops[o].key # req[r].key
    BY <1>1 DEF ManagedInv, IndexNeverDangles, ManagedTypeOK
  <2>2. \A o \in accepted : ops[o].key \in Keys
    BY DEF ManagedInv, Known, ManagedTypeOK, OperationRecords
  <2>q. QED
    BY <1>1, <1>3, <2>1, <2>2 DEF ManagedInv, IndexNeverDangles, history
<1>10. Known'
  BY DEF ManagedInv, Known, history
<1>11. (vaultMeta \subseteq vaultObj)' /\ ActiveIsVaulted'
  BY VaultKept
<1>q. QED
  BY <1>4, <1>5, <1>6, <1>7, <1>8, <1>9, <1>10, <1>11 DEF ManagedInv

LEMMA FreezeStep ==
    ASSUME ManagedInv, NEW r \in Requests, Freeze(r)
    PROVE  ManagedInv'
<1>. DEFINE o == req[r].op
<1>. USE DEF Freeze
<1>1. /\ o \in OpIds /\ ops[o] # Nobody /\ ops[o].key = req[r].key
      /\ ops[o].env = req[r].env /\ ops[o].status = "PENDING"
      /\ o \notin launched /\ o \in locator /\ idem[req[r].key] = o /\ lease = r
  BY DEF ManagedInv, Reserved, Reserving
<1>. HIDE DEF o
<1>2. ops[o] \in OperationRecords
  BY <1>1 DEF ManagedInv, ManagedTypeOK
<1>. DEFINE y == [ops[o] EXCEPT !.frozen = TRUE]
<1>3. /\ y \in OperationRecords /\ y.key = ops[o].key /\ y.env = ops[o].env
      /\ y.status = ops[o].status /\ y.frozen
  BY <1>2 DEF OperationRecords
<1>4. ops' = [ops EXCEPT ![o] = y]
  BY DEF o
<1>. HIDE DEF y
<1>5. /\ ops' \in [OpIds -> OperationRecords \cup {Nobody}]
      /\ \A p \in OpIds : p # o => ops'[p] = ops[p]
      /\ ops'[o] # Nobody /\ ops'[o].key = ops[o].key /\ ops'[o].env = ops[o].env
      /\ ops'[o].status = "PENDING" /\ ops'[o].frozen
  <2>1. ManagedTypeOK /\ o \in OpIds /\ y \in OperationRecords
    BY <1>1, <1>3 DEF ManagedInv
  <2>2. /\ ops' \in [OpIds -> OperationRecords \cup {Nobody}]
        /\ \A p \in OpIds : p # o => ops'[p] = ops[p]
        /\ ops'[o] = y /\ ops'[o] # Nobody
    BY ONLY <1>4, <2>1, RecordWritten
  <2>q. QED
    BY <1>1, <1>3, <2>2
<1>6. WentOn(r, "admit", o)
  BY <1>1, Proceeded DEF ManagedInv, RequestSteps, o
<1>7. ManagedTypeOK'
  BY <1>5, <1>6 DEF ManagedInv, ManagedTypeOK, RequestRecords, WentOn, history, Active
<1>8. Asking'
  BY <1>6 DEF ManagedInv, Asking, WentOn
<1>9. Reserved'
  <2>1. \A x \in Requests : x # r => req[x].pc \notin {"holding"} \cup Reserving
    BY <1>1 DEF ManagedInv, Reserved
  <2>q. QED
    BY <1>1, <1>5, <1>6, <2>1 DEF ManagedInv, Reserved, Reserving, WentOn, history
<1>10. Working'
  BY <1>1, <1>5 DEF ManagedInv, Working, InUse, Vaulted, history
<1>11. AcceptedBytesKept'
  <2>1. launched \subseteq OpIds
    BY DEF ManagedInv, ManagedTypeOK
  <2>2. \A p \in launched : ops'[p] = ops[p]
    BY <1>1, <1>5, <2>1
  <2>q. QED
    BY <1>6, <2>2, RequestKeepsBytes DEF ManagedInv, WentOn, history
<1>12. Known' /\ IndexNeverDangles'
  BY <1>5, IndexKept DEF ManagedInv, Known, history
<1>13. (vaultMeta \subseteq vaultObj)' /\ ActiveIsVaulted'
  BY VaultKept
<1>q. QED
  BY <1>7, <1>8, <1>9, <1>10, <1>11, <1>12, <1>13 DEF ManagedInv

LEMMA OverloadedStep ==
    ASSUME ManagedInv, NEW r \in Requests, Overloaded(r)
    PROVE  ManagedInv'
<1>. DEFINE o == req[r].op
<1>. USE DEF Overloaded
<1>1. o \in OpIds /\ ops[o] # Nobody /\ o \notin launched
  BY DEF ManagedInv, Reserved, Reserving
<1>2. ops[o] \in OperationRecords
  BY <1>1 DEF ManagedInv, ManagedTypeOK
<1>. HIDE DEF o
<1>. DEFINE y == [ops[o] EXCEPT !.status = "FAILED"]
<1>3. y \in OperationRecords /\ y.key = ops[o].key /\ y.frozen = ops[o].frozen
  BY <1>2 DEF OperationRecords, OperationStatuses
<1>4. ops' = [ops EXCEPT ![o] = y]
  BY DEF o
<1>. HIDE DEF y
<1>5. /\ ops' \in [OpIds -> OperationRecords \cup {Nobody}]
      /\ \A p \in OpIds : p # o => ops'[p] = ops[p]
      /\ ops'[o] # Nobody /\ ops'[o].key = ops[o].key /\ ops'[o].frozen = ops[o].frozen
  BY <1>1, <1>3, <1>4, RecordWritten DEF ManagedInv
<1>6. /\ req' \in [Requests -> RequestRecords]
      /\ spool' \in [Requests -> {"none", "staged", "quarantined"}]
      /\ Asking' /\ Reserved' /\ Working' /\ AcceptedBytesKept'
  BY <1>5, Ended DEF Reserving, history, o
<1>7. ManagedTypeOK'
  BY <1>5, <1>6 DEF ManagedInv, ManagedTypeOK, RequestRecords, EndWithoutWorker, End, history, Active
<1>8. Known' /\ IndexNeverDangles'
  BY <1>5, IndexKept DEF ManagedInv, Known, history
<1>9. (vaultMeta \subseteq vaultObj)' /\ ActiveIsVaulted'
  BY VaultKept
<1>q. QED
  BY <1>6, <1>7, <1>8, <1>9 DEF ManagedInv

\* The operation was frozen and is in both indexes; its upload is still staged.
LEMMA LaunchStep ==
    ASSUME ManagedInv, NEW r \in Requests, Launch(r)
    PROVE  ManagedInv'
<1>. DEFINE o == req[r].op
<1>. USE DEF Launch
<1>1. /\ o \in OpIds /\ ops[o] # Nobody /\ ops[o].key = req[r].key
      /\ ops[o].env = req[r].env /\ ops[o].status = "PENDING"
      /\ o \notin launched /\ o \in locator /\ idem[ops[o].key] = o /\ ops[o].frozen
      /\ lease = r /\ up = "serving"
  BY DEF ManagedInv, Reserved, Reserving, Asking
<1>2. WentOn(r, "done", o)
  BY <1>1, Proceeded DEF ManagedInv, RequestSteps, End
<1>3. /\ work' \in [OpIds -> {"none", "queued", "leased", "plan", "vault", "publish", "ending"}]
      /\ work'[o] = "queued" /\ \A p \in OpIds : p # o => work'[p] = work[p]
  BY <1>1 DEF ManagedInv, ManagedTypeOK
<1>4. accepted' = accepted \cup {o} /\ launched' = launched \cup {o}
  OBVIOUS
<1>. HIDE DEF o
<1>5. ManagedTypeOK'
  BY <1>1, <1>2, <1>3, <1>4 DEF ManagedInv, ManagedTypeOK, RequestRecords, WentOn, End, disk, Active
<1>6. Asking'
  BY <1>2 DEF ManagedInv, Asking, WentOn
<1>7. Reserved'
  <2>1. \A x \in Requests : x # r => req[x].pc \notin {"holding"} \cup Reserving
    BY <1>1 DEF ManagedInv, Reserved
  <2>q. QED
    BY <1>2, <2>1 DEF Reserved, Reserving, WentOn
<1>8. Working'
  <2>1. \A p \in OpIds : work[p] \notin {"leased", "plan", "vault", "publish"}
    BY <1>1 DEF ManagedInv, Working, InUse
  <2>q. QED
    BY <1>1, <1>3, <1>4, <2>1 DEF ManagedInv, Working, InUse, Vaulted, disk
<1>9. AcceptedBytesKept'
  <2>. SUFFICES ASSUME NEW p \in launched' \ refused, ops[p].status \in Live, ~Vaulted(p)
                PROVE  (\E x \in UploadOf(p) : spool[x] # "none")'
    BY DEF AcceptedBytesKept, Live, Vaulted, disk
  <2>1. CASE p = o
    <3>1. ops[o].env = req[r].env
      BY DEF ManagedInv, Reserved, Reserving, o
    <3>2. req[r].env.new # {}
      BY <2>1, <3>1 DEF Vaulted
    <3>3. spool[r] # "none"
      BY <3>2 DEF ManagedInv, Asking
    <3>q. QED
      BY <1>2, <2>1, <3>2, <3>3 DEF WentOn, UploadOf
  <2>2. CASE p \in launched
    <3>1. PICK x \in UploadOf(p) : spool[x] # "none"
      BY <2>2 DEF ManagedInv, AcceptedBytesKept, Live
    <3>2. x \in Requests /\ x # r
      BY <3>1 DEF UploadOf
    <3>q. QED
      BY <1>2, <3>1, <3>2 DEF WentOn, UploadOf
  <2>q. QED
    BY <1>4, <2>1, <2>2
<1>10. Known'
  BY <1>1, <1>4 DEF ManagedInv, Known, disk
<1>11. IndexNeverDangles'
  BY <1>1, <1>4 DEF ManagedInv, IndexNeverDangles, disk
<1>12. (vaultMeta \subseteq vaultObj)' /\ ActiveIsVaulted'
  BY VaultKept DEF disk
<1>q. QED
  BY <1>5, <1>6, <1>7, <1>8, <1>9, <1>10, <1>11, <1>12 DEF ManagedInv

-----------------------------------------------------------------------------
(* The steps of a worker                                                   *)

\* A step that moves the status of one operation keeps what is known of it.
LEMMA StatusStep ==
    ASSUME ManagedInv, NEW o \in OpIds, ops[o] # Nobody, NEW s \in OperationStatuses,
           MoveStatus(o, s) \/ UNCHANGED ops,
           UNCHANGED <<locator, idem, spool, loop, req, up, accepted, launched, refused>>,
           ran' \subseteq launched, vaultMeta' = vaultMeta
    PROVE  /\ ops' \in [OpIds -> OperationRecords \cup {Nobody}]
           /\ \A p \in OpIds : p # o => ops'[p] = ops[p]
           /\ ops'[o].env = ops[o].env
           /\ Asking' /\ Known' /\ IndexNeverDangles' /\ AcceptedBytesKept'
<1>1. /\ ops' \in [OpIds -> OperationRecords \cup {Nobody}]
      /\ \A p \in OpIds : p # o => ops'[p] = ops[p]
      /\ ops'[o] # Nobody /\ ops'[o].key = ops[o].key /\ ops'[o].env = ops[o].env
      /\ ops'[o].frozen = ops[o].frozen
      /\ ops'[o].status # ops[o].status => ops[o].status \notin TerminalStatuses
      /\ ops[o] \in OperationRecords
  BY StatusMoved DEF ManagedInv, ManagedTypeOK
<1>2. ops'[o].status \in Live => ops[o].status \in Live
  BY <1>1 DEF OperationRecords, OperationStatuses, TerminalStatuses, Live
<1>3. Asking'
  BY DEF ManagedInv, Asking
<1>4. Known' /\ IndexNeverDangles'
  BY <1>1, IndexKept
<1>5. launched \subseteq OpIds
  BY DEF ManagedInv, ManagedTypeOK
<1>6. AcceptedBytesKept'
  BY <1>1, <1>2, <1>5, WorkerKeepsBytes
<1>q. QED
  BY <1>1, <1>3, <1>4, <1>6

\* A request that holds the lease holds it against every worker: it stays
\* reserved while a worker of another operation moves on.
LEMMA WorkerReserves ==
    ASSUME ManagedInv, NEW o \in InUse, UNCHANGED <<locator, idem, req, launched>>,
           lease \in Requests => lease' = lease,
           \A p \in OpIds : p # o => ops'[p] = ops[p]
    PROVE  Reserved'
<1>1. o \in launched
  BY DEF ManagedInv, Working
<1>2. ASSUME NEW r \in Requests, req[r].pc \in Reserving
      PROVE  req[r].op \in OpIds /\ ops'[req[r].op] = ops[req[r].op]
  BY <1>1, <1>2 DEF ManagedInv, Reserved
<1>q. QED
  BY <1>2 DEF ManagedInv, Reserved, Reserving

\* A worker ends: nobody else had the lease.
LEMMA WorkerEnds ==
    ASSUME ManagedInv, NEW o \in InUse, lease = o, Finish(o),
           UNCHANGED <<up, launched, refused, vaultMeta>>,
           \A p \in OpIds : p # o => ops'[p] = ops[p],
           ops'[o].status \in {"SUCCEEDED", "FAILED"}
    PROVE  /\ work' \in [OpIds -> {"none", "queued", "leased", "plan", "vault", "publish", "ending"}]
           /\ Working'
<1>1. o \in OpIds
  BY DEF InUse
<1>2. /\ work' \in [OpIds -> {"none", "queued", "leased", "plan", "vault", "publish", "ending"}]
      /\ work'[o] = "ending" /\ \A p \in OpIds : p # o => work'[p] = work[p]
  BY <1>1 DEF ManagedInv, ManagedTypeOK, Finish
<1>3. \A p \in OpIds : p # o => work[p] \notin {"leased", "plan", "vault", "publish"}
  BY DEF ManagedInv, Working, InUse
<1>4. Working'
  <2>. SUFFICES ASSUME NEW p \in OpIds, work'[p] # "none"
                PROVE  /\ up = "serving" /\ p \in launched
                       /\ work'[p] \in {"queued", "leased"} => ops'[p].status = "PENDING"
                       /\ work'[p] = "ending" => ops'[p].status \in {"SUCCEEDED", "FAILED"} \/ p \in refused
                       /\ work'[p] \notin {"leased", "plan", "vault", "publish"}
    BY DEF Working, InUse
  <2>1. CASE p = o
    BY <1>2, <2>1 DEF ManagedInv, Working
  <2>2. CASE p # o
    BY <1>2, <1>3, <2>2 DEF ManagedInv, Working, InUse
  <2>q. QED
    BY <2>1, <2>2
<1>q. QED
  BY <1>2, <1>4

\* An operation that fails: its worker ends with nothing published.
LEMMA FailStep ==
    ASSUME ManagedInv, NEW o \in OpIds, work[o] \in {"plan", "vault", "publish"},
           FailOperation(o), UNCHANGED <<record, vaultMeta>>,
           vaultObj' \subseteq vaultObj, vaultMeta \subseteq vaultObj',
           UNCHANGED <<locator, idem, spool, loop, req, up, history>>
    PROVE  ManagedInv'
<1>1. o \in InUse /\ lease = o /\ o \in launched /\ ops[o] # Nobody
  BY DEF ManagedInv, Working, InUse, Known
<1>2. /\ MoveStatus(o, "FAILED") /\ Finish(o) /\ lease' = Nobody
      /\ ran' \subseteq launched /\ UNCHANGED <<ran, accepted, launched, refused>>
  BY DEF FailOperation, Finish, history, ManagedInv, Known
<1>3. "FAILED" \in Legal(ops[o].status)
  BY <1>1 DEF ManagedInv, Working, Legal, OperationStatuses, TerminalStatuses
<1>4. ops'[o].status = "FAILED"
  BY <1>1, <1>2, <1>3, StatusMoved DEF ManagedInv, OperationStatuses
<1>5. /\ ops' \in [OpIds -> OperationRecords \cup {Nobody}]
      /\ \A p \in OpIds : p # o => ops'[p] = ops[p]
      /\ Asking' /\ Known' /\ IndexNeverDangles' /\ AcceptedBytesKept'
  BY <1>1, <1>2, StatusStep DEF OperationStatuses
<1>6. Reserved'
  BY <1>1, <1>2, <1>5, WorkerReserves
<1>7. /\ work' \in [OpIds -> {"none", "queued", "leased", "plan", "vault", "publish", "ending"}]
      /\ Working'
  BY <1>1, <1>2, <1>4, <1>5, WorkerEnds
<1>8. ManagedTypeOK'
  BY <1>2, <1>5, <1>7 DEF ManagedInv, ManagedTypeOK, Active
<1>9. (vaultMeta \subseteq vaultObj)' /\ ActiveIsVaulted'
  BY DEF ManagedInv, ActiveIsVaulted, Active
<1>q. QED
  BY <1>5, <1>6, <1>7, <1>8, <1>9 DEF ManagedInv

\* The lease was free or the worker gives up: then its upload may go.
LEMMA WorkerLeaseStep ==
    ASSUME ManagedInv, NEW o \in OpIds, WorkerLease(o)
    PROVE  ManagedInv'
<1>. USE DEF WorkerLease
<1>1. o \in InUse
  BY DEF InUse
<1>2. /\ work' \in [OpIds -> {"none", "queued", "leased", "plan", "vault", "publish", "ending"}]
      /\ \A p \in OpIds : p # o => work'[p] = work[p]
      /\ \/ work'[o] = "leased" /\ lease' = o /\ lease = Nobody /\ refused' = refused
         \/ work'[o] = "ending" /\ lease' = lease /\ refused' = refused \cup {o}
  BY DEF ManagedInv, ManagedTypeOK
<1>3. ManagedTypeOK'
  BY <1>2 DEF ManagedInv, ManagedTypeOK, disk, Active
<1>4. Asking'
  BY DEF ManagedInv, Asking
<1>5. Reserved'
  BY <1>1, <1>2, WorkerReserves DEF disk
<1>6. Working'
  BY <1>2 DEF ManagedInv, Working, InUse, Vaulted, disk
<1>7. AcceptedBytesKept'
  BY <1>2, WorkerKeepsBytes DEF disk
<1>q. QED
  BY <1>3, <1>4, <1>5, <1>6, <1>7, DiskKept DEF ManagedInv

\* A worker that has the lease finds its operation as it was admitted.
LEMMA BeginStep ==
    ASSUME ManagedInv, NEW o \in OpIds, Begin(o)
    PROVE  ManagedInv'
<1>1. o \in InUse /\ lease = o /\ o \in launched /\ ops[o] # Nobody /\ ops[o].status = "PENDING"
  BY DEF Begin, ManagedInv, Working, InUse, Known
<1>2. /\ MoveStatus(o, "PREPARING") /\ ran' = ran \cup {o}
      /\ work' = [work EXCEPT ![o] = "plan"] /\ UNCHANGED lease
      /\ UNCHANGED <<locator, idem, record, vaultObj, vaultMeta, spool, loop, req, up, accepted,
                     launched, refused>>
  BY <1>1 DEF Begin, TerminalStatuses
<1>3. "PREPARING" \in Legal("PENDING")
  BY DEF Legal, OperationStatuses
<1>4. ops'[o].status = "PREPARING"
  BY <1>1, <1>2, <1>3, StatusMoved DEF ManagedInv, OperationStatuses
<1>5. ran' \subseteq launched
  BY <1>1, <1>2 DEF ManagedInv, Known
<1>6. /\ ops' \in [OpIds -> OperationRecords \cup {Nobody}]
      /\ \A p \in OpIds : p # o => ops'[p] = ops[p]
      /\ Asking' /\ Known' /\ IndexNeverDangles' /\ AcceptedBytesKept'
  BY <1>1, <1>2, <1>5, StatusStep DEF OperationStatuses
<1>7. Reserved'
  BY <1>1, <1>2, <1>6, WorkerReserves
<1>8. /\ work' \in [OpIds -> {"none", "queued", "leased", "plan", "vault", "publish", "ending"}]
      /\ work'[o] = "plan" /\ \A p \in OpIds : p # o => work'[p] = work[p]
  BY <1>2 DEF ManagedInv, ManagedTypeOK
<1>9. Working'
  BY <1>1, <1>2, <1>4, <1>6, <1>8 DEF ManagedInv, Working, InUse, Vaulted
<1>10. ManagedTypeOK'
  BY <1>1, <1>2, <1>6, <1>8 DEF ManagedInv, ManagedTypeOK, Active
<1>11. (vaultMeta \subseteq vaultObj)' /\ ActiveIsVaulted'
  BY <1>2, VaultKept
<1>q. QED
  BY <1>6, <1>7, <1>9, <1>10, <1>11 DEF ManagedInv

LEMMA PlanStep ==
    ASSUME ManagedInv, NEW o \in OpIds, Plan(o)
    PROVE  ManagedInv'
<1>. USE DEF Plan
<1>1. CASE ~Planned(o)
  <2>1. FailOperation(o) /\ work[o] \in {"plan", "vault", "publish"}
    BY <1>1
  <2>q. QED
    BY <2>1, FailStep DEF ManagedInv
<1>2. CASE Planned(o)
  <2>1. /\ work' \in [OpIds -> {"none", "queued", "leased", "plan", "vault", "publish", "ending"}]
        /\ work'[o] = "vault" /\ \A p \in OpIds : p # o => work'[p] = work[p]
        /\ UNCHANGED <<ops, lease>>
    BY <1>2 DEF ManagedInv, ManagedTypeOK
  <2>2. ManagedTypeOK'
    BY <2>1 DEF ManagedInv, ManagedTypeOK, history, Active
  <2>3. Asking' /\ Reserved'
    BY <2>1 DEF ManagedInv, Asking, Reserved, history
  <2>4. Working'
    BY <2>1 DEF ManagedInv, Working, InUse, Vaulted, history
  <2>5. AcceptedBytesKept'
    BY <2>1, WorkerKeepsBytes DEF history
  <2>6. UNCHANGED <<disk, ran, accepted, launched>>
    BY <2>1 DEF disk, history
  <2>q. QED
    BY <2>2, <2>3, <2>4, <2>5, <2>6, DiskKept DEF ManagedInv
<1>q. QED
  BY <1>1, <1>2

\* The vault only grows under a worker that does not fail.
LEMMA VaultGrows ==
    ASSUME ManagedInv, vaultObj \subseteq vaultObj', vaultMeta \subseteq vaultMeta',
           vaultMeta' \subseteq vaultObj', vaultObj' \subseteq OpIds \X Docs,
           UNCHANGED <<ops, locator, idem, record, spool, lease, loop, req, work, up, history>>
    PROVE  ManagedInv'
<1>1. ManagedTypeOK'
  BY DEF ManagedInv, ManagedTypeOK, history, Active
<1>2. Asking' /\ Reserved' /\ Known'
  BY DEF ManagedInv, Asking, Reserved, Known, history
<1>3. Working'
  BY DEF ManagedInv, Working, InUse, Vaulted, history
<1>4. IndexNeverDangles' /\ ActiveIsVaulted'
  BY DEF ManagedInv, IndexNeverDangles, ActiveIsVaulted, Active, history
<1>5. AcceptedBytesKept'
  BY WorkerKeepsBytes DEF history
<1>q. QED
  BY <1>1, <1>2, <1>3, <1>4, <1>5 DEF ManagedInv

LEMMA PutObjectStep ==
    ASSUME ManagedInv, NEW o \in OpIds, PutObject(o)
    PROVE  ManagedInv'
<1>1. o \in InUse /\ o \in launched /\ ops[o] # Nobody
  BY DEF PutObject, ManagedInv, Working, InUse, Known
<1>2. PICK d \in ops[o].env.new : vaultObj' = vaultObj \cup {<<o, d>>}
  BY DEF PutObject
<1>3. ops[o].env.new \subseteq Docs
  BY <1>1 DEF ManagedInv, ManagedTypeOK, OperationRecords, Envelopes
<1>4. vaultObj' \subseteq OpIds \X Docs
  BY <1>2, <1>3 DEF ManagedInv, ManagedTypeOK
<1>q. QED
  BY <1>2, <1>4, VaultGrows DEF PutObject, ManagedInv

LEMMA PutMetaStep ==
    ASSUME ManagedInv, NEW o \in OpIds, PutMeta(o)
    PROVE  ManagedInv'
BY VaultGrows DEF PutMeta, ManagedInv, ManagedTypeOK

LEMMA WorkerFaultStep ==
    ASSUME ManagedInv, NEW o \in OpIds, WorkerFault(o)
    PROVE  ManagedInv'
BY FailStep DEF WorkerFault, ManagedInv

LEMMA BeginPublicationStep ==
    ASSUME ManagedInv, NEW o \in OpIds, BeginPublication(o)
    PROVE  ManagedInv'
<1>1. o \in InUse /\ lease = o /\ o \in launched /\ ops[o] # Nobody /\ ops[o].status = "PREPARING"
  BY DEF BeginPublication, ManagedInv, Working, InUse, Known
<1>2. /\ MoveStatus(o, "RUNNING") /\ Vaulted(o)
      /\ work' = [work EXCEPT ![o] = "publish"] /\ UNCHANGED lease
      /\ UNCHANGED <<locator, idem, record, vaultObj, vaultMeta, spool, loop, req, up, ran,
                     accepted, launched, refused>>
  BY DEF BeginPublication, history
<1>3. "RUNNING" \in Legal("PREPARING")
  BY DEF Legal, OperationStatuses
<1>4. ops'[o].status = "RUNNING"
  BY <1>1, <1>2, <1>3, StatusMoved DEF ManagedInv, OperationStatuses
<1>5. /\ ops' \in [OpIds -> OperationRecords \cup {Nobody}]
      /\ \A p \in OpIds : p # o => ops'[p] = ops[p]
      /\ ops'[o].env = ops[o].env
      /\ Asking' /\ Known' /\ IndexNeverDangles' /\ AcceptedBytesKept'
  BY <1>1, <1>2, StatusStep DEF OperationStatuses, ManagedInv, Known
<1>6. Reserved'
  BY <1>1, <1>2, <1>5, WorkerReserves
<1>7. /\ work' \in [OpIds -> {"none", "queued", "leased", "plan", "vault", "publish", "ending"}]
      /\ work'[o] = "publish" /\ \A p \in OpIds : p # o => work'[p] = work[p]
  BY <1>2 DEF ManagedInv, ManagedTypeOK
<1>8. Working'
  BY <1>1, <1>2, <1>4, <1>5, <1>7 DEF ManagedInv, Working, InUse, Vaulted
<1>9. ManagedTypeOK'
  BY <1>2, <1>5, <1>7 DEF ManagedInv, ManagedTypeOK, Active
<1>10. (vaultMeta \subseteq vaultObj)' /\ ActiveIsVaulted'
  BY <1>2, VaultKept
<1>q. QED
  BY <1>5, <1>6, <1>8, <1>9, <1>10 DEF ManagedInv

\* A publication serves what was verified in the vault and what the worker put
\* there.
LEMMA PublishStep ==
    ASSUME ManagedInv, NEW o \in OpIds, Publish(o)
    PROVE  ManagedInv'
<1>. USE DEF Publish
<1>1. CASE FailOperation(o) /\ UNCHANGED record
  <2>1. work[o] \in {"plan", "vault", "publish"}
    OBVIOUS
  <2>q. QED
    BY <1>1, <2>1, FailStep DEF ManagedInv
<1>2. CASE /\ \A d \in Active \ {ops[o].env.old} : <<record.src[d], d>> \in vaultMeta
           /\ record' = [rev |-> record.rev + 1,
                         src |-> [d \in Desired(o) |-> IF d \in ops[o].env.new THEN o ELSE record.src[d]]]
           /\ MoveStatus(o, "SUCCEEDED") /\ Finish(o)
  <2>1. /\ o \in InUse /\ lease = o /\ o \in launched /\ ops[o] # Nobody
        /\ ops[o].status = "RUNNING" /\ Vaulted(o)
    BY DEF ManagedInv, Working, InUse, Known
  <2>2. "SUCCEEDED" \in Legal("RUNNING")
    BY DEF Legal, OperationStatuses, TerminalStatuses
  <2>3. ops'[o].status = "SUCCEEDED"
    BY <1>2, <2>1, <2>2, StatusMoved DEF ManagedInv, OperationStatuses
  <2>4. UNCHANGED <<ran, accepted, launched, refused>> /\ ran' \subseteq launched
    BY DEF history, ManagedInv, Known
  <2>5. /\ ops' \in [OpIds -> OperationRecords \cup {Nobody}]
        /\ \A p \in OpIds : p # o => ops'[p] = ops[p]
        /\ Asking' /\ Known' /\ IndexNeverDangles' /\ AcceptedBytesKept'
    BY <1>2, <2>1, <2>4, StatusStep DEF OperationStatuses
  <2>6. lease' = Nobody
    BY <1>2 DEF Finish
  <2>7. Reserved'
    BY <2>1, <2>4, <2>5, WorkerReserves
  <2>8. /\ work' \in [OpIds -> {"none", "queued", "leased", "plan", "vault", "publish", "ending"}]
        /\ Working'
    BY <1>2, <2>1, <2>3, <2>4, <2>5, WorkerEnds
  <2>9. ops[o].env.new \subseteq Docs
    BY <2>1 DEF ManagedInv, ManagedTypeOK, OperationRecords, Envelopes
  <2>10. Desired(o) \subseteq Docs
    BY <2>9 DEF Desired, ManagedInv, ManagedTypeOK
  <2>11. /\ record'.rev \in Nat /\ Active' = Desired(o)
         /\ record' = [rev |-> record'.rev, src |-> record'.src]
         /\ \A d \in Desired(o) : record'.src[d] = IF d \in ops[o].env.new THEN o ELSE record.src[d]
    BY <1>2 DEF Active, ManagedInv, ManagedTypeOK
  <2>12. record'.src \in [Active' -> OpIds]
    <3>1. \A d \in Desired(o) : (IF d \in ops[o].env.new THEN o ELSE record.src[d]) \in OpIds
      BY DEF Desired, ManagedInv, ManagedTypeOK
    <3>q. QED
      BY <1>2, <2>11, <3>1
  <2>13. ManagedTypeOK'
    BY <2>4, <2>5, <2>6, <2>8, <2>10, <2>11, <2>12 DEF ManagedInv, ManagedTypeOK
  <2>14. ActiveIsVaulted' /\ (vaultMeta \subseteq vaultObj)'
    <3>1. \A d \in Desired(o) : <<record'.src[d], d>> \in vaultMeta
      BY <1>2, <2>1, <2>11 DEF Desired, Vaulted
    <3>q. QED
      BY <2>11, <3>1 DEF ActiveIsVaulted, ManagedInv
  <2>q. QED
    BY <2>5, <2>7, <2>8, <2>13, <2>14 DEF ManagedInv
<1>q. QED
  BY <1>1, <1>2

\* The upload goes when its operation has ended or its worker was refused.
LEMMA WorkerExitStep ==
    ASSUME ManagedInv, NEW o \in OpIds, WorkerExit(o)
    PROVE  ManagedInv'
<1>. USE DEF WorkerExit
<1>1. o \in InUse /\ (ops[o].status \in {"SUCCEEDED", "FAILED"} \/ o \in refused)
  BY DEF ManagedInv, Working, InUse
<1>2. /\ spool' \in [Requests -> {"none", "staged", "quarantined"}]
      /\ \A r \in Requests : r \notin UploadOf(o) => spool'[r] = spool[r]
  BY DEF ManagedInv, ManagedTypeOK, Discard
<1>3. /\ work' \in [OpIds -> {"none", "queued", "leased", "plan", "vault", "publish", "ending"}]
      /\ work'[o] = "none" /\ \A p \in OpIds : p # o => work'[p] = work[p]
  BY DEF ManagedInv, ManagedTypeOK
<1>4. ManagedTypeOK'
  BY <1>2, <1>3 DEF ManagedInv, ManagedTypeOK, disk, history, Active
<1>5. Asking'
  BY <1>2 DEF ManagedInv, Asking, UploadOf
<1>6. Reserved'
  BY DEF ManagedInv, Reserved, disk, history
<1>7. Working'
  BY <1>3 DEF ManagedInv, Working, InUse, Vaulted, disk, history
<1>8. AcceptedBytesKept'
  <2>. SUFFICES ASSUME NEW p \in launched \ refused, ops[p].status \in Live, ~Vaulted(p)
                PROVE  \E x \in UploadOf(p) : spool'[x] # "none"
    <3>1. UNCHANGED <<ops, vaultMeta, req, launched, refused>>
      BY DEF disk, history
    <3>2. \A p \in launched : Vaulted(p)' = Vaulted(p) /\ UploadOf(p)' = UploadOf(p)
      BY <3>1 DEF Vaulted, UploadOf
    <3>q. QED
      BY <3>1, <3>2 DEF AcceptedBytesKept, Live
  <2>1. PICK x \in UploadOf(p) : spool[x] # "none"
    BY DEF ManagedInv, AcceptedBytesKept, Live
  <2>2. p # o
    BY <1>1 DEF Live
  <2>3. x \in Requests /\ x \notin UploadOf(o)
    BY <2>1, <2>2 DEF UploadOf
  <2>q. QED
    BY <1>2, <2>1, <2>3
<1>9. UNCHANGED <<disk, ran, accepted, launched>>
  BY DEF history
<1>q. QED
  BY <1>4, <1>5, <1>6, <1>7, <1>8, <1>9, DiskKept DEF ManagedInv

-----------------------------------------------------------------------------
(* The rest of the world                                                   *)

LEMMA PatchStep ==
    ASSUME ManagedInv, Patch
    PROVE  ManagedInv'
<1>. USE DEF Patch
<1>1. record' = [rev |-> record.rev + 1, src |-> record.src]
  <2>1. record = [rev |-> record.rev, src |-> record.src]
    BY DEF ManagedInv, ManagedTypeOK
  <2>q. QED
    BY <2>1
<1>2. ManagedTypeOK'
  BY <1>1 DEF ManagedInv, ManagedTypeOK, history, Active
<1>3. Asking' /\ Reserved' /\ Known' /\ IndexNeverDangles'
  BY DEF ManagedInv, Asking, Reserved, Known, IndexNeverDangles, history
<1>4. Working'
  BY DEF ManagedInv, Working, InUse, Vaulted, history
<1>5. AcceptedBytesKept'
  BY WorkerKeepsBytes DEF history
<1>6. ActiveIsVaulted'
  BY <1>1 DEF ManagedInv, ActiveIsVaulted, Active
<1>q. QED
  BY <1>2, <1>3, <1>4, <1>5, <1>6 DEF ManagedInv

\* A crash ends every request and every worker; uploads stay where they are.
LEMMA ManagedCrashStep ==
    ASSUME ManagedInv, ManagedCrash
    PROVE  ManagedInv'
<1>. USE DEF ManagedCrash
<1>1. /\ req' \in [Requests -> RequestRecords]
      /\ \A r \in Requests : /\ req'[r].pc \in {"idle", "done"}
                             /\ req[r].pc \in {"idle", "done"} => req'[r] = req[r]
                             /\ req'[r].key = req[r].key /\ req'[r].env = req[r].env
                             /\ req'[r].pc = "idle" => req[r].pc = "idle"
  <2>1. req \in [Requests -> RequestRecords]
    BY DEF ManagedInv, ManagedTypeOK, RequestRecords
  <2>2. ASSUME NEW r \in Requests
        PROVE  /\ req'[r] \in RequestRecords /\ req'[r].pc \in {"idle", "done"}
               /\ req[r].pc \in {"idle", "done"} => req'[r] = req[r]
               /\ req'[r].key = req[r].key /\ req'[r].env = req[r].env
               /\ req'[r].pc = "idle" => req[r].pc = "idle"
    <3>. DEFINE old == req[r]
                new == [old EXCEPT !.pc = "done"]
    <3>1. old \in RequestRecords
      BY <2>1
    <3>2. req'[r] = IF old.pc \in {"idle", "done"} THEN old ELSE new
      OBVIOUS
    <3>3. new \in RequestRecords /\ new.pc = "done" /\ new.key = old.key /\ new.env = old.env
      <4>. HIDE DEF old
      <4>q. QED
        BY <3>1 DEF RequestRecords, RequestSteps
    <3>. HIDE DEF old, new
    <3>4. /\ req'[r] \in RequestRecords /\ req'[r].pc \in {"idle", "done"}
          /\ old.pc \in {"idle", "done"} => req'[r] = old
          /\ req'[r].key = old.key /\ req'[r].env = old.env
          /\ req'[r].pc = "idle" => old.pc = "idle"
      BY <3>1, <3>2, <3>3
    <3>q. QED
      BY <3>4 DEF old
  <2>3. req' = [r \in Requests |-> req'[r]]
    OBVIOUS
  <2>q. QED
    BY <2>2, <2>3
<1>2. ManagedTypeOK'
  BY <1>1 DEF ManagedInv, ManagedTypeOK, RequestRecords, disk, history, Active
<1>3. Asking' /\ Reserved'
  BY <1>1 DEF ManagedInv, Asking, Reserved, Reserving
<1>4. Working'
  BY DEF Working, InUse
<1>5. AcceptedBytesKept'
  <2>1. UNCHANGED <<ops, vaultMeta, spool, launched, refused>>
    BY DEF disk, history
  <2>2. \A o \in launched : (Vaulted(o) => Vaulted(o)') /\ UploadOf(o) \subseteq UploadOf(o)'
    BY <1>1, <2>1 DEF Vaulted, UploadOf
  <2>q. QED
    BY <2>1, <2>2 DEF ManagedInv, AcceptedBytesKept
<1>6. UNCHANGED <<disk, ran, accepted, launched>>
  BY DEF history
<1>q. QED
  BY <1>2, <1>3, <1>4, <1>5, <1>6, DiskKept DEF ManagedInv

\* No request is under way and no worker runs in a process that does not serve.
LEMMA NotServing ==
    ASSUME ManagedInv, up # "serving"
    PROVE  InUse = {} /\ \A r \in Requests : req[r].pc \in {"idle", "done"}
BY DEF ManagedInv, Asking, Working

LEMMA QuarantineStep ==
    ASSUME ManagedInv, Quarantine
    PROVE  ManagedInv'
<1>. USE DEF Quarantine
<1>1. InUse = {} /\ \A r \in Requests : req[r].pc \in {"idle", "done"}
  BY NotServing
<1>2. /\ spool' \in [Requests -> {"none", "staged", "quarantined"}]
      /\ \A r \in Requests : spool[r] # "none" => spool'[r] # "none"
  BY DEF ManagedInv, ManagedTypeOK
<1>3. ManagedTypeOK'
  BY <1>2 DEF ManagedInv, ManagedTypeOK, disk, history, Active
<1>4. Asking' /\ Reserved' /\ Working'
  BY <1>1 DEF ManagedInv, Asking, Reserved, Reserving, Working, InUse
<1>5. AcceptedBytesKept'
  <2>1. UNCHANGED <<ops, vaultMeta, req, launched, refused>>
    BY DEF disk, history
  <2>2. \A o \in launched : Vaulted(o)' = Vaulted(o) /\ UploadOf(o)' = UploadOf(o)
    BY <2>1 DEF Vaulted, UploadOf
  <2>3. \A o \in launched : UploadOf(o) \subseteq Requests
    BY DEF UploadOf
  <2>q. QED
    BY <1>2, <2>1, <2>2, <2>3 DEF ManagedInv, AcceptedBytesKept
<1>6. UNCHANGED <<disk, ran, accepted, launched>>
  BY DEF history
<1>q. QED
  BY <1>3, <1>4, <1>5, <1>6, DiskKept DEF ManagedInv

\* What a restart interrupts has no worker and no request.
LEMMA InterruptOneStep ==
    ASSUME ManagedInv, NEW o \in OpIds, InterruptOne(o)
    PROVE  ManagedInv'
<1>1. InUse = {} /\ \A r \in Requests : req[r].pc \in {"idle", "done"}
  BY NotServing DEF InterruptOne
<1>2. /\ ops[o] # Nobody /\ MoveStatus(o, "INTERRUPTED")
      /\ UNCHANGED <<locator, idem, record, vaultObj, vaultMeta, spool, lease, loop, req, work,
                     up, ran, accepted, launched, refused>>
  BY DEF InterruptOne, history
<1>3. /\ ops' \in [OpIds -> OperationRecords \cup {Nobody}]
      /\ Asking' /\ Known' /\ IndexNeverDangles' /\ AcceptedBytesKept'
  BY <1>2, StatusStep DEF OperationStatuses, ManagedInv, Known
<1>4. ManagedTypeOK'
  BY <1>2, <1>3 DEF ManagedInv, ManagedTypeOK, Active
<1>5. Reserved' /\ Working'
  BY <1>1, <1>2 DEF Reserved, Reserving, Working, InUse
<1>6. (vaultMeta \subseteq vaultObj)' /\ ActiveIsVaulted'
  BY <1>2, VaultKept
<1>q. QED
  BY <1>3, <1>4, <1>5, <1>6 DEF ManagedInv

LEMMA ManagedReadyStep ==
    ASSUME ManagedInv, ManagedReady
    PROVE  ManagedInv'
<1>. USE DEF ManagedReady
<1>1. InUse = {} /\ \A r \in Requests : req[r].pc \in {"idle", "done"}
  BY NotServing
<1>2. ManagedTypeOK'
  BY DEF ManagedInv, ManagedTypeOK, disk, history, Active
<1>3. Asking' /\ Reserved' /\ Working'
  BY <1>1 DEF ManagedInv, Asking, Reserved, Reserving, Working, InUse
<1>4. AcceptedBytesKept'
  BY WorkerKeepsBytes DEF disk, history
<1>5. UNCHANGED <<disk, ran, accepted, launched>>
  BY DEF history
<1>q. QED
  BY <1>2, <1>3, <1>4, <1>5, DiskKept DEF ManagedInv

LEMMA ManagedStutter ==
    ASSUME ManagedInv, UNCHANGED managedVars
    PROVE  ManagedInv'
<1>. USE DEF managedVars
<1>1. ManagedTypeOK' /\ Asking' /\ Reserved'
  BY DEF ManagedInv, ManagedTypeOK, Asking, Reserved, disk, history, Active
<1>2. Working'
  BY DEF ManagedInv, Working, InUse, Vaulted, disk, history
<1>3. AcceptedBytesKept'
  BY WorkerKeepsBytes DEF disk, history
<1>4. UNCHANGED <<disk, ran, accepted, launched>>
  BY DEF history
<1>q. QED
  BY <1>1, <1>2, <1>3, <1>4, DiskKept DEF ManagedInv

-----------------------------------------------------------------------------
(* The theorems                                                            *)

LEMMA ManagedInitially ==
    ASSUME ManagedInit
    PROVE  ManagedInv
<1>. USE DEF ManagedInit
<1>1. Idle \in RequestRecords
  BY DEF Idle, RequestRecords, RequestSteps
<1>2. ManagedTypeOK
  BY <1>1 DEF ManagedTypeOK, RequestRecords, Active
<1>3. Asking /\ Reserved /\ Known /\ Working
  BY DEF Asking, Reserved, Reserving, Known, Working, InUse, Idle
<1>4. IndexNeverDangles /\ AcceptedBytesKept
  BY DEF IndexNeverDangles, AcceptedBytesKept
<1>5. ActiveIsVaulted
  BY DEF ActiveIsVaulted, Active
<1>q. QED
  BY <1>2, <1>3, <1>4, <1>5 DEF ManagedInv

LEMMA RequestStepHolds ==
    ASSUME ManagedInv, NEW r \in Requests, RequestStep(r) \/ Enter(r) \/ RequestFault(r)
    PROVE  ManagedInv'
<1>1. CASE RejectExisting(r)
  BY <1>1, RefusedStep DEF RejectExisting
<1>2. CASE RejectNew(r)
  BY <1>2, RefusedStep DEF RejectNew
<1>3. CASE RequestFault(r)
  BY <1>3, RefusedStep DEF RequestFault, Reserving
<1>q. QED
  BY <1>1, <1>2, <1>3, EnterStep, AcquireStep, ReturnExistingStep, RepairStep, WriteRecordStep,
     WriteLocatorStep, WriteIndexStep, FreezeStep, OverloadedStep, LaunchStep DEF RequestStep

LEMMA WorkerStepHolds ==
    ASSUME ManagedInv, NEW o \in OpIds, WorkerStep(o) \/ WorkerFault(o)
    PROVE  ManagedInv'
BY WorkerLeaseStep, BeginStep, PlanStep, PutObjectStep, PutMetaStep, WorkerFaultStep,
   BeginPublicationStep, PublishStep, WorkerExitStep DEF WorkerStep

\* What a client may ask for is an envelope.
LEMMA AskedStep ==
    ASSUME ManagedInv, NEW r \in Requests, NEW k \in Keys, NEW kind \in Kinds,
           NEW new \in SUBSET Docs, NEW old \in Docs \cup {Nobody}, NEW rev \in AskedRevisions,
           Spool(r, k, [kind |-> kind, new |-> new, old |-> old, rev |-> rev])
    PROVE  ManagedInv'
<1>1. rev \in Nat
  BY DEF AskedRevisions, ManagedInv, ManagedTypeOK
<1>2. [kind |-> kind, new |-> new, old |-> old, rev |-> rev] \in Envelopes
  BY <1>1 DEF Envelopes
<1>q. QED
  BY <1>2, SpoolStep

\* The inductive invariant holds: the lease, the order of the three writes of a
\* reservation and the status of the operation together fix who owns what.
THEOREM ManagedInvariant == ManagedSpec => []ManagedInv
<1>1. ManagedInit => ManagedInv
  BY ManagedInitially
<1>2. ManagedInv /\ [ManagedNext]_managedVars => ManagedInv'
  <2>. SUFFICES ASSUME ManagedInv, [ManagedNext]_managedVars PROVE ManagedInv'
    OBVIOUS
  <2>1. ASSUME NEW r \in Requests, RequestStep(r) \/ Enter(r) \/ RequestFault(r)
        PROVE  ManagedInv'
    BY <2>1, RequestStepHolds
  <2>2. ASSUME NEW r \in Requests, NEW k \in Keys, NEW kind \in Kinds, NEW new \in SUBSET Docs,
               NEW old \in Docs \cup {Nobody}, NEW rev \in AskedRevisions,
               Spool(r, k, [kind |-> kind, new |-> new, old |-> old, rev |-> rev])
        PROVE  ManagedInv'
    BY <2>2, AskedStep
  <2>3. ASSUME NEW o \in OpIds, WorkerStep(o) \/ WorkerFault(o)
        PROVE  ManagedInv'
    BY <2>3, WorkerStepHolds
  <2>4. CASE StartupStep
    BY <2>4, QuarantineStep, ManagedReadyStep, InterruptOneStep DEF StartupStep
  <2>q. QED
    BY <2>1, <2>2, <2>3, <2>4, PatchStep, ManagedCrashStep, ManagedStutter DEF ManagedNext
<1>q. QED
  BY <1>1, <1>2, PTL DEF ManagedSpec

\* Admission is exact for any number of requests, keys and crashes: at most one
\* operation of a key is ever begun (the coordinator's begin), the indexes lead
\* to every operation a client was told of, and workers run for those only.
THEOREM AdmissionHolds == ManagedSpec => []AdmissionIsExact
<1>1. ManagedInv => AdmissionIsExact
  <2>. SUFFICES ASSUME ManagedInv PROVE AdmissionIsExact
    OBVIOUS
  <2>1. OneRunPerKey
    BY DEF ManagedInv, OneRunPerKey, IndexNeverDangles, Known
  <2>2. WorkersAreAdmitted
    BY DEF ManagedInv, WorkersAreAdmitted, Working, Known
  <2>q. QED
    BY <2>1, <2>2 DEF ManagedInv, AdmissionIsExact
<1>q. QED
  BY <1>1, ManagedInvariant, PTL

\* No bytes are lost: those of an accepted upload are in the spool, in quarantine
\* or in the vault while its operation may need them, and every document the
\* workspace serves is in the vault with its metadata.
THEOREM BytesHold == ManagedSpec => []BytesAreKept
<1>1. ManagedInv => BytesAreKept
  BY DEF ManagedInv, BytesAreKept
<1>q. QED
  BY <1>1, ManagedInvariant, PTL

\* Which steps write records, and that each leaves a terminal one as it is.
LEMMA TerminalKept ==
    ASSUME ManagedInv, [ManagedNext]_managedVars,
           NEW o \in OpIds, ops[o] # Nobody, ops[o].status \in TerminalStatuses
    PROVE  ops'[o] = ops[o]
<1>1. ASSUME NEW p \in OpIds, ops[p] # Nobody, NEW s \in OperationStatuses, MoveStatus(p, s)
      PROVE  ops'[o] = ops[o]
  BY <1>1, StatusMoved DEF ManagedInv
<1>2. ASSUME NEW r \in Requests, WriteRecord(r)
      PROVE  ops'[o] = ops[o]
  <2>1. new_operation_id # o
    BY <1>2 DEF WriteRecord, Fresh, new_operation_id
  <2>q. QED
    BY <1>2, <2>1 DEF WriteRecord, ManagedInv, ManagedTypeOK
<1>3. ASSUME NEW r \in Requests, Freeze(r) \/ Overloaded(r)
      PROVE  ops'[o] = ops[o]
  <2>1. req[r].op # o
    BY <1>3 DEF Freeze, Overloaded, ManagedInv, Reserved, Reserving, TerminalStatuses
  <2>2. CASE Freeze(r)
    BY <2>1, <2>2 DEF Freeze, ManagedInv, ManagedTypeOK
  <2>3. CASE Overloaded(r)
    BY <2>1, <2>3 DEF Overloaded, ManagedInv, ManagedTypeOK
  <2>q. QED
    BY <1>3, <2>2, <2>3
<1>4. ASSUME NEW p \in OpIds, WorkerStep(p) \/ WorkerFault(p)
      PROVE  UNCHANGED ops \/ \E s \in OperationStatuses : MoveStatus(p, s) /\ ops[p] # Nobody
  <2>1. work[p] # "none" => ops[p] # Nobody
    BY DEF ManagedInv, Working, InUse, Known
  <2>2. CASE Begin(p)
    BY <2>1, <2>2 DEF Begin, OperationStatuses
  <2>3. CASE Plan(p) \/ WorkerFault(p)
    BY <2>1, <2>3 DEF Plan, WorkerFault, FailOperation, OperationStatuses
  <2>4. CASE BeginPublication(p) \/ Publish(p)
    BY <2>1, <2>4 DEF BeginPublication, Publish, FailOperation, OperationStatuses
  <2>5. CASE WorkerLease(p) \/ PutObject(p) \/ PutMeta(p) \/ WorkerExit(p)
    BY <2>5 DEF WorkerLease, PutObject, PutMeta, WorkerExit, disk
  <2>q. QED
    BY <1>4, <2>2, <2>3, <2>4, <2>5 DEF WorkerStep
<1>5. ASSUME NEW r \in Requests, RequestStep(r) \/ Enter(r) \/ RequestFault(r)
      PROVE  UNCHANGED ops \/ WriteRecord(r) \/ Freeze(r) \/ Overloaded(r)
  BY <1>5 DEF RequestStep, Enter, RequestFault, Acquire, ReturnExisting, RejectExisting, Repair,
     RejectNew, WriteLocator, WriteIndex, Launch, disk
<1>6. ASSUME NEW r \in Requests, NEW k \in Keys, NEW e, Spool(r, k, e)
      PROVE  UNCHANGED ops
  BY <1>6 DEF Spool, disk
<1>7. ASSUME NEW p \in OpIds, InterruptOne(p)
      PROVE  ops'[o] = ops[o]
  BY <1>1, <1>7 DEF InterruptOne, OperationStatuses
<1>8. Patch \/ ManagedCrash \/ Quarantine \/ ManagedReady \/ UNCHANGED managedVars => UNCHANGED ops
  BY DEF Patch, ManagedCrash, Quarantine, ManagedReady, managedVars, disk
<1>q. QED
  BY <1>1, <1>2, <1>3, <1>4, <1>5, <1>6, <1>7, <1>8 DEF ManagedNext, StartupStep

\* No operation ends twice: the record of one that ended is never written again,
\* whatever workers, retries and restarts do.
THEOREM TerminalHolds == ManagedSpec => TerminalStays
<1>1. ManagedInv /\ [ManagedNext]_managedVars
        => [\A o \in OpIds : (ops[o] # Nobody /\ ops[o].status \in TerminalStatuses)
                                => ops'[o] = ops[o]]_managedVars
  BY TerminalKept
<1>q. QED
  BY <1>1, ManagedInvariant, PTL DEF ManagedSpec, TerminalStays

(* --- The three together ---------------------------------------------------- *)

\* What the run checks of the workspace API: each protocol, in the behaviours
\* chosen for it, applies what it records, creates one workspace per key, admits
\* one operation per key and keeps the bytes of what it accepted.
THEOREM WorkspaceApiHolds ==
    AllSpec => [](AppliedAsRecorded /\ CreateIsIdempotent /\ AdmissionIsExact /\ BytesAreKept)
<1>1. AllSpec => Spec
  <2>1. AllInit => Init
    BY DEF AllInit
  <2>2. [AllNext]_<<part, vars, createVars, managedVars>> => [Next]_vars
    BY DEF AllNext
  <2>q. QED
    BY <2>1, <2>2, PTL DEF AllSpec, Spec
<1>2. AllSpec => CreateSpec
  <2>1. AllInit => CreateInit
    BY DEF AllInit
  <2>2. [AllNext]_<<part, vars, createVars, managedVars>> => [CreateNext]_createVars
    BY DEF AllNext
  <2>q. QED
    BY <2>1, <2>2, PTL DEF AllSpec, CreateSpec
<1>3. AllSpec => ManagedSpec
  <2>1. AllInit => ManagedInit
    BY DEF AllInit
  <2>2. [AllNext]_<<part, vars, createVars, managedVars>> => [ManagedNext]_managedVars
    BY DEF AllNext
  <2>q. QED
    BY <2>1, <2>2, PTL DEF AllSpec, ManagedSpec
<1>q. QED
  BY <1>1, <1>2, <1>3, SyncIsRecorded, CreateHolds, AdmissionHolds, BytesHold, PTL
=============================================================================
