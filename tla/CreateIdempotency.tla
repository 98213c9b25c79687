-------------------------- MODULE CreateIdempotency --------------------------
(***************************************************************************)
(* Creation of a workspace under one idempotency key: the reservation file *)
(* workspaces/_create_index/crt_<key>.json, then workspace.json under the  *)
(* lease of the reserved id.  Requests run in threads of the server's pool *)
(* and a client may repeat a request at any time.                          *)
(*                                                                         *)
(* Sources: app/workspace/create_idempotency.py, lifecycle.py              *)
(* (create_workspace), store.py (create), leases.py.  Keys do not share    *)
(* anything, so one key is modelled.                                       *)
(***************************************************************************)
EXTENDS Naturals, FiniteSets

CONSTANTS
    Threads,        \* threads of the server
    Titles,         \* request bodies that a client sends with the key
    Ids,            \* workspace ids
    Absent, Blank,  \* no reservation file; one that is still empty
    MaxCreateCrashes,     \* bound on process createCrashes
    MaxCreateFaults       \* bound on failing writes

ASSUME CreateAssumption ==
    /\ IsFiniteSet(Threads) /\ IsFiniteSet(Ids) /\ Titles # {}
    /\ MaxCreateCrashes \in Nat /\ MaxCreateFaults \in Nat

NoOne == "no_one"
ASSUME NoOneAssumption == NoOne \notin Threads

VARIABLES
    index,      \* the reservation file
    created,    \* workspace.json files: a set of [id, title]
    lock,       \* holder of the lease of each id
    at, title,  \* of each thread: its step and its request body
    res,        \* of each thread: the reservation it works with
    answer,     \* what the thread last answered
    createCrashes, createFaults

createBudget == <<createCrashes, createFaults>>
createVars == <<index, created, lock, at, title, res, answer, createBudget>>

Reservation == [id : Ids, title : Titles]
Errors == {"none", "conflict", "unreadable", "busy", "fault"}
CreateSteps == {"idle", "read", "reserve", "raced", "opened", "reserved", "leased"}

ASSUME AbsentAssumption ==
    /\ Absent # Blank
    /\ {Absent, Blank} \cap Reservation = {}

\* new_workspace_id makes ids with a prefix of their own.
ASSUME IdsAssumption == Ids \cap Errors = {}

CreateInit ==
    /\ index = Absent
    /\ created = {}
    /\ lock = [i \in Ids |-> NoOne]
    /\ at = [t \in Threads |-> "idle"]
    /\ title = [t \in Threads |-> CHOOSE x \in Titles : TRUE]
    /\ res = [t \in Threads |-> Absent]
    /\ answer = [t \in Threads |-> "none"]
    /\ createCrashes = 0 /\ createFaults = 0

-----------------------------------------------------------------------------

StepTo(t, from, to) == at[t] = from /\ at' = [at EXCEPT ![t] = to]

Reply(t, what) ==
    /\ at' = [at EXCEPT ![t] = "idle"]
    /\ answer' = [answer EXCEPT ![t] = what]
    /\ res' = [res EXCEPT ![t] = Absent]

CreateRequest(t) ==
    /\ StepTo(t, "idle", "read")
    /\ \E x \in Titles : title' = [title EXCEPT ![t] = x]
    /\ UNCHANGED <<index, created, lock, res, answer, createBudget>>

\* _read and _assert_match of a file that exists, at the start of reserve and
\* again when O_EXCL lost the race.
UseExisting(t) ==
    /\ at[t] \in {"read", "raced"}
    /\ index # Absent
    /\ \/ index = Blank /\ Reply(t, "unreadable")
       \/ index # Blank /\ index.title # title[t] /\ Reply(t, "conflict")
       \/ /\ index # Blank /\ index.title = title[t]
          /\ at' = [at EXCEPT ![t] = "reserved"]
          /\ res' = [res EXCEPT ![t] = index]
          /\ UNCHANGED answer
    /\ UNCHANGED <<index, created, lock, title, createBudget>>

\* new_workspace_id: one that nobody knows.
FreshIds ==
    LET known == created \cup {index} \cup {res[t] : t \in Threads}
    IN Ids \ {r.id : r \in known \cap Reservation}

\* No file yet: a new id is drawn.
Allocate(t) ==
    /\ index = Absent
    /\ StepTo(t, "read", "reserve")
    /\ \E i \in FreshIds :
            res' = [res EXCEPT ![t] = [id |-> i, title |-> title[t]]]
    /\ UNCHANGED <<index, created, lock, title, answer, createBudget>>

\* Mutant: the file is opened without O_EXCL.
OpenShared(t) ==
    /\ StepTo(t, "reserve", "opened")
    /\ index' = Blank
    /\ UNCHANGED <<created, lock, title, res, answer, createBudget>>

\* os.open with O_CREAT | O_EXCL: the file exists and is empty.
OpenExclusive(t) ==
    /\ IF index = Absent
       THEN StepTo(t, "reserve", "opened") /\ index' = Blank
       ELSE StepTo(t, "reserve", "raced") /\ UNCHANGED index
    /\ UNCHANGED <<created, lock, title, res, answer, createBudget>>

WriteReservation(t) ==
    /\ StepTo(t, "opened", "reserved")
    /\ index' = res[t]
    /\ UNCHANGED <<created, lock, title, res, answer, createBudget>>

\* os.write fails: the file stays as it is.
WriteFails(t) ==
    /\ createFaults < MaxCreateFaults
    /\ at[t] = "opened"
    /\ createFaults' = createFaults + 1
    /\ Reply(t, "fault")
    /\ UNCHANGED <<index, created, lock, title, createCrashes>>

\* The lease of the reserved id, without waiting.
AcquireLease(t) ==
    /\ at[t] = "reserved"
    /\ IF lock[res[t].id] = NoOne
       THEN /\ StepTo(t, "reserved", "leased")
            /\ lock' = [lock EXCEPT ![res[t].id] = t]
            /\ UNCHANGED <<res, answer>>
       ELSE Reply(t, "busy") /\ UNCHANGED lock
    /\ UNCHANGED <<index, created, title, createBudget>>

\* An existing workspace is returned, else the record of the reservation is
\* written; then the lease is released.
CreateWorkspace(t) ==
    /\ at[t] = "leased"
    /\ IF \E w \in created : w.id = res[t].id
       THEN UNCHANGED created
       ELSE created' = created \cup {res[t]}
    /\ lock' = [lock EXCEPT ![res[t].id] = NoOne]
    /\ Reply(t, res[t].id)
    /\ UNCHANGED <<index, title, createBudget>>

CreateCrash ==
    /\ createCrashes < MaxCreateCrashes
    /\ createCrashes' = createCrashes + 1
    /\ at' = [t \in Threads |-> "idle"]
    /\ lock' = [i \in Ids |-> NoOne]
    /\ res' = [t \in Threads |-> Absent]
    /\ UNCHANGED <<index, created, title, answer, createFaults>>

CreateNext ==
    \/ \E t \in Threads :
            \/ CreateRequest(t) \/ UseExisting(t) \/ Allocate(t) \/ OpenExclusive(t)
            \/ WriteReservation(t) \/ WriteFails(t) \/ AcquireLease(t)
            \/ CreateWorkspace(t)
    \/ CreateCrash

CreateSpec == CreateInit /\ [][CreateNext]_createVars

-----------------------------------------------------------------------------
(* Properties.                                                               *)

\* Every variable keeps its shape.
CreateTypeOK ==
    /\ index \in Reservation \cup {Absent, Blank}
    /\ created \subseteq Reservation
    /\ lock \in [Ids -> Threads \cup {NoOne}]
    /\ at \in [Threads -> CreateSteps]
    /\ title \in [Threads -> Titles]
    /\ res \in [Threads -> Reservation \cup {Absent}]
    /\ answer \in [Threads -> Ids \cup Errors]
    /\ createCrashes \in 0..MaxCreateCrashes /\ createFaults \in 0..MaxCreateFaults

\* One key makes one workspace: racing and repeated requests never leave a twin,
\* and what exists is what the reservation says.
OneWorkspacePerKey ==
    \A w \in created : w = index

\* A workspace id that was answered is the id of a workspace that exists, so any
\* two successful answers agree.
AnswerIsCreated ==
    \A t \in Threads : answer[t] \in Ids => \E w \in created : w.id = answer[t]

\* "A retry after a crash in between finds the reservation, reuses the same
\* workspace id, and finishes the create" (create_idempotency.py): a file that is
\* still empty always has a thread about to fill it.
ReservationIsReadable ==
    index = Blank => \E t \in Threads : at[t] = "opened"

\* Racing, repeated and interrupted requests of one key make at most one
\* workspace, and every id they answer is the id of that workspace.
CreateIsIdempotent == CreateTypeOK /\ OneWorkspacePerKey /\ AnswerIsCreated
=============================================================================
