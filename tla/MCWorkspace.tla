----------------------------- MODULE MCWorkspace -----------------------------
(***************************************************************************)
(* Three protocols of the workspace API in one run: synchronous mutations, *)
(* creation under an idempotency key, and managed source mutations.        *)
(* "part" says which one this behaviour is about; they share no state, and *)
(* what is not chosen stays in its initial state.                          *)
(***************************************************************************)
EXTENDS SyncMutation, CreateIdempotency, ManagedOperations, TLC

CONSTANTS p1, p2, d1, a, b

VARIABLE part

\* Two patches and one delete.
MCOps == {p1, p2, d1}
MCDeletes == {d1}
MCSize == (a :> 1) @@ (b :> 2)

AllInit ==
    /\ part \in {"sync", "create", "managed"}
    /\ Init /\ CreateInit /\ ManagedInit

AllNext ==
    /\ UNCHANGED part
    /\ \/ part = "sync" /\ Next /\ UNCHANGED <<createVars, managedVars>>
       \/ part = "create" /\ CreateNext /\ UNCHANGED <<vars, managedVars>>
       \/ part = "managed" /\ ManagedNext /\ UNCHANGED <<vars, createVars>>

\* In the initial state of a part none of its fair steps is enabled, so the
\* fairness of the parts that are not chosen asks for nothing.
AllSpec ==
    /\ AllInit /\ [][AllNext]_<<part, vars, createVars, managedVars>>
    /\ Fairness /\ ManagedFairness

\* Nobody waits for ever: a synchronous request gives the lease back and a
\* startup comes to its end, and the coroutine that blocks the event loop on the
\* lease of a managed workspace gets it.
WaitsEnd == LeaseIsReturned /\ LoopIsFreed
=============================================================================
