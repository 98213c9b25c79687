--------------------------- MODULE AtomicWorkspace ---------------------------
(***************************************************************************)
(* What the journals of a workspace promise: a mutation changes the        *)
(* workspace record and the publication that is served in one step, or     *)
(* neither; an operation succeeds only after that step and is given up     *)
(* only if it never took it.                                               *)
(***************************************************************************)
EXTENDS Naturals

CONSTANTS Ops, Versions, Snapshots, NoSnapshot

VARIABLES
    content,    \* the workspace record
    published,  \* the snapshot that queries are answered from
    outcome     \* of each operation

avars == <<content, published, outcome>>

Init ==
    /\ content.revision = 1 /\ content.effects = {}
    /\ published = content.snapshot
    /\ outcome = [op \in Ops |-> "new"]

Accept(op) ==
    /\ outcome[op] = "new"
    /\ \E to \in {"accepted", "aborted"} : outcome' = [outcome EXCEPT ![op] = to]
    /\ UNCHANGED <<content, published>>

\* The record and the publication move together, by one revision; a workspace
\* without sources is EMPTY and serves nothing.
Commit(op) ==
    /\ outcome[op] = "accepted"
    /\ op \notin content.effects
    /\ content.status # "TOMBSTONED"
    /\ \E sources \in SUBSET Versions, s \in Snapshots \cup {NoSnapshot} :
            /\ sources # content.sources
            /\ sources = {} <=> s = NoSnapshot
            /\ content' = [revision |-> content.revision + 1,
                           status |-> IF sources = {} THEN "EMPTY" ELSE "ACTIVE",
                           snapshot |-> s, sources |-> sources,
                           effects |-> content.effects \cup {op}]
            /\ published' = s
    /\ UNCHANGED outcome

Succeed(op) ==
    /\ outcome[op] = "accepted"
    /\ op \in content.effects
    /\ outcome' = [outcome EXCEPT ![op] = "succeeded"]
    /\ UNCHANGED <<content, published>>

GiveUp(op) ==
    /\ outcome[op] = "accepted"
    /\ op \notin content.effects
    /\ outcome' = [outcome EXCEPT ![op] = "aborted"]
    /\ UNCHANGED <<content, published>>

Patch ==
    /\ content.status # "TOMBSTONED"
    /\ content' = [content EXCEPT !.revision = @ + 1]
    /\ UNCHANGED <<published, outcome>>

Tombstone ==
    /\ content.status # "TOMBSTONED"
    /\ content' = [revision |-> content.revision + 1, status |-> "TOMBSTONED",
                   snapshot |-> NoSnapshot, sources |-> content.sources,
                   effects |-> content.effects]
    /\ UNCHANGED <<published, outcome>>

Next ==
    \/ \E op \in Ops : Accept(op) \/ Commit(op) \/ Succeed(op) \/ GiveUp(op)
    \/ Patch \/ Tombstone

Spec == Init /\ [][Next]_avars

=============================================================================
