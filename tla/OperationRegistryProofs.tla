---------------------- MODULE OperationRegistryProofs ----------------------
(***************************************************************************)
(* Proofs about OperationRegistry, for every set of request slots and      *)
(* every capacity.  The safety properties are not inductive on their own;  *)
(* the strengthening is layered: types, then what a step of a request says *)
(* about its handle (HandleInv), then the drain (DrainInv).                *)
(***************************************************************************)
EXTENDS OperationRegistry, Integers, FiniteSetTheorems, TLAPS

\* The type invariant before the gates are known to count right: a count might
\* still be negative.
Shape ==
    /\ active \subseteq Ops
    /\ held \in [Classes -> Int]
    /\ draining \in BOOLEAN
    /\ graceExhausted \in BOOLEAN
    /\ lifecycle \in [Ops -> Lifecycles]
    /\ reason \in [Ops -> Reasons]
    /\ expired \in [Ops -> BOOLEAN]
    /\ pc \in [Ops -> Steps]
    /\ outcome \in [Ops -> Outcomes]
    /\ lease \in Ops \cup {NoOp}
    /\ runtime \in RuntimeStates
    /\ resources \in BOOLEAN
    /\ drainPc \in DrainSteps
    /\ toCancel \subseteq Ops

\* What the position of a request says about its handle.
HandleInv ==
    \A op \in Ops :
        /\ op \in active <=> pc[op] \notin {"new", "checked"}
        /\ pc[op] \in {"new", "checked"} => reason[op] = "NONE"
        /\ op \in Query => pc[op] \notin {"leased", "staging", "publishing"}
        /\ op \in Managed \cup Bootstrap => reason[op] # "CLIENT_DISCONNECT"
        /\ (op \notin Query /\ pc[op] \in {"admitted", "validated", "leased"})
                => lifecycle[op] = "PRE_LEASE"
        /\ (op \notin Query /\ pc[op] = "staging") => lifecycle[op] = "POST_LEASE"

\* The corpus lease belongs to a mutation, and only while it works.
LeaseInv ==
    /\ lease \in Ingest \cup Managed \cup {NoOp}
    /\ LeaseOwnerWorks

\* Where the drain is, against the registry and the runtime.
DrainInv ==
    /\ drainPc # "idle" => draining
    /\ drainPc = "signalling" => runtime \in {"READY", "NOT_READY"}
    /\ drainPc \in {"waiting", "closing"} <=> runtime = "DRAINING"
    /\ drainPc = "closing" => active = {}
    /\ runtime = "STOPPED" => draining
    /\ runtime = "READY" => resources
    /\ runtime \in {"NOT_STARTED", "STARTING", "STOPPED"} => ~resources
    /\ drainPc = "signalling" =>
            \A op \in active : \/ op \in toCancel
                               \/ reason[op] # "NONE"
                               \/ lifecycle[op] = "PUBLICATION"

-----------------------------------------------------------------------------

\* Every kind of request slot is a slot, and every slot belongs to a capacity
\* class: the dictionary of gates has an entry for whatever _admit looks up.
LEMMA SlotClasses ==
    /\ Query \subseteq Ops /\ Ingest \subseteq Ops
    /\ Managed \subseteq Ops /\ Bootstrap \subseteq Ops
    /\ \A op \in Ops : Class(op) \in Classes
BY DEF Ops, Class, Classes

\* Registry, handles, workers and runtime keep their types in every behaviour,
\* up to the sign of a gate's count.
THEOREM ShapeInvariant == Spec => []Shape
<1>1. Init => Shape
  <2>. SUFFICES ASSUME Init PROVE Shape
    OBVIOUS
  <2>1. held \in [Classes -> Int] /\ lease \in Ops \cup {NoOp}
    BY DEF Init
  <2>2. lifecycle \in [Ops -> Lifecycles] /\ reason \in [Ops -> Reasons]
    BY DEF Init, Lifecycles, Reasons
  <2>3. /\ expired \in [Ops -> BOOLEAN] /\ pc \in [Ops -> Steps]
        /\ outcome \in [Ops -> Outcomes]
    BY DEF Init, Steps, Outcomes
  <2>4. /\ runtime \in RuntimeStates /\ drainPc \in DrainSteps
        /\ active \subseteq Ops /\ toCancel \subseteq Ops
    BY DEF Init, RuntimeStates, DrainSteps
  <2>5. draining \in BOOLEAN /\ graceExhausted \in BOOLEAN /\ resources \in BOOLEAN
    BY DEF Init
  <2>q. QED
    BY <2>1, <2>2, <2>3, <2>4, <2>5 DEF Shape
<1>2. Shape /\ [Next]_vars => Shape'
  <2>. SUFFICES ASSUME Shape, [Next]_vars PROVE Shape'
    OBVIOUS
  <2>. USE SlotClasses
       DEF Shape, Lifecycles, Reasons, Outcomes, RuntimeStates, Steps,
           DrainSteps, registryVars, handleVars, workerVars, runtimeVars
  <2>1. ASSUME NEW op \in Ops, CheckReady(op) PROVE Shape'
    BY <2>1 DEF CheckReady
  <2>2. ASSUME NEW op \in Ops, Admit(op) PROVE Shape'
    BY <2>2 DEF Admit
  <2>3. ASSUME NEW op \in Ops, Reject(op) PROVE Shape'
    BY <2>3 DEF Reject
  <2>4. ASSUME NEW op \in Ops, StartWorker(op) PROVE Shape'
    BY <2>4 DEF StartWorker, Goto
  <2>5. ASSUME NEW op \in Ops, AcquireCorpusLease(op) PROVE Shape'
    BY <2>5 DEF AcquireCorpusLease, Goto
  <2>6. ASSUME NEW op \in Ops, BeginCandidate(op) PROVE Shape'
    BY <2>6 DEF BeginCandidate, Goto, CompleteLeaseAcquire
  <2>7. ASSUME NEW op \in Ops, BeginPublication(op) PROVE Shape'
    BY <2>7 DEF BeginPublication, Goto, EnterPublication
  <2>8. ASSUME NEW op \in Ops, BeginRetirement(op) PROVE Shape'
    BY <2>8 DEF BeginRetirement, Goto, EnterPublication
  <2>9. ASSUME NEW op \in Ops, Publish(op) PROVE Shape'
    BY <2>9 DEF Publish, Goto
  <2>10. ASSUME NEW op \in Ops, FinishQuery(op) PROVE Shape'
    BY <2>10 DEF FinishQuery, Goto
  <2>11. ASSUME NEW op \in Ops, Abort(op) PROVE Shape'
    BY <2>11 DEF Abort, Unwinds
  <2>12. ASSUME NEW op \in Ops, Fail(op) PROVE Shape'
    BY <2>12 DEF Fail, Unwinds
  <2>13. ASSUME NEW op \in Ops, Unwind(op) PROVE Shape'
    BY <2>13 DEF Unwind, Goto
  <2>14. ASSUME NEW op \in Ops, Release(op) PROVE Shape'
    BY <2>14 DEF Release
  <2>15. ASSUME NEW op \in Ops, Disconnect(op) PROVE Shape'
    BY <2>15 DEF Disconnect, SignalCancel
  <2>16. ASSUME NEW op \in Ops, DeadlinePasses(op) PROVE Shape'
    BY <2>16 DEF DeadlinePasses
  <2>17. ASSUME NEW op \in Ops, SignalShutdown(op) PROVE Shape'
    BY <2>17 DEF SignalShutdown, SignalCancel
  <2>18. CASE StartBegin
    BY <2>18 DEF StartBegin
  <2>19. CASE StartReady
    BY <2>19 DEF StartReady
  <2>20. CASE StartFail
    BY <2>20 DEF StartFail
  <2>21. CASE BeginDrain
    BY <2>21 DEF BeginDrain
  <2>22. CASE EnterDraining
    BY <2>22 DEF EnterDraining
  <2>23. CASE GraceExpires
    BY <2>23 DEF GraceExpires
  <2>24. CASE FinalizeCheck
    BY <2>24 DEF FinalizeCheck
  <2>25. CASE FinalizeClose
    BY <2>25 DEF FinalizeClose
  <2>26. CASE UNCHANGED vars
    BY <2>26 DEF vars
  <2>q. QED
    BY <2>1, <2>2, <2>3, <2>4, <2>5, <2>6, <2>7, <2>8, <2>9, <2>10, <2>11,
       <2>12, <2>13, <2>14, <2>15, <2>16, <2>17, <2>18, <2>19, <2>20, <2>21,
       <2>22, <2>23, <2>24, <2>25, <2>26
    DEF Next, RequestStep, WorkerStep, DrainStep
<1>3. QED
  BY <1>1, <1>2, PTL DEF Spec

\* What the position of a request in its route and worker says about its handle:
\* registered exactly between _admit and release, PRE_LEASE until
\* complete_lease_acquire, POST_LEASE while it stages a candidate.
THEOREM HandleInvariant == Spec => []HandleInv
<1>1. Init => HandleInv
  BY DEF Init, HandleInv
<1>2. Shape /\ HandleInv /\ [Next]_vars => HandleInv'
  <2>. SUFFICES ASSUME Shape, HandleInv, [Next]_vars PROVE HandleInv'
    OBVIOUS
  <2>. USE SlotsAssumption, SlotClasses
       DEF Shape, HandleInv, Lifecycles, Reasons, Steps, registryVars,
           handleVars, workerVars, runtimeVars
  <2>1. ASSUME NEW op \in Ops, CheckReady(op) PROVE HandleInv'
    BY <2>1 DEF CheckReady
  <2>2. ASSUME NEW op \in Ops, Admit(op) PROVE HandleInv'
    BY <2>2 DEF Admit
  <2>3. ASSUME NEW op \in Ops, Reject(op) PROVE HandleInv'
    BY <2>3 DEF Reject
  <2>4. ASSUME NEW op \in Ops, StartWorker(op) PROVE HandleInv'
    BY <2>4 DEF StartWorker, Goto
  <2>5. ASSUME NEW op \in Ops, AcquireCorpusLease(op) PROVE HandleInv'
    BY <2>5 DEF AcquireCorpusLease, Goto
  <2>6. ASSUME NEW op \in Ops, BeginCandidate(op) PROVE HandleInv'
    BY <2>6 DEF BeginCandidate, Goto, CompleteLeaseAcquire
  <2>7. ASSUME NEW op \in Ops, BeginPublication(op) PROVE HandleInv'
    BY <2>7 DEF BeginPublication, Goto, EnterPublication
  <2>8. ASSUME NEW op \in Ops, BeginRetirement(op) PROVE HandleInv'
    BY <2>8 DEF BeginRetirement, Goto, EnterPublication
  <2>9. ASSUME NEW op \in Ops, Publish(op) PROVE HandleInv'
    BY <2>9 DEF Publish, Goto
  <2>10. ASSUME NEW op \in Ops, FinishQuery(op) PROVE HandleInv'
    BY <2>10 DEF FinishQuery, Goto
  <2>11. ASSUME NEW op \in Ops, Abort(op) PROVE HandleInv'
    BY <2>11 DEF Abort, Unwinds
  <2>12. ASSUME NEW op \in Ops, Fail(op) PROVE HandleInv'
    BY <2>12 DEF Fail, Unwinds
  <2>13. ASSUME NEW op \in Ops, Unwind(op) PROVE HandleInv'
    BY <2>13 DEF Unwind, Goto
  <2>14. ASSUME NEW op \in Ops, Release(op) PROVE HandleInv'
    BY <2>14 DEF Release
  <2>15. ASSUME NEW op \in Ops, Disconnect(op) PROVE HandleInv'
    BY <2>15 DEF Disconnect, SignalCancel, SignalIgnored
  <2>16. ASSUME NEW op \in Ops, DeadlinePasses(op) PROVE HandleInv'
    BY <2>16 DEF DeadlinePasses
  <2>17. ASSUME NEW op \in Ops, SignalShutdown(op) PROVE HandleInv'
    BY <2>17 DEF SignalShutdown, SignalCancel, SignalIgnored
  <2>18. CASE StartBegin
    BY <2>18 DEF StartBegin
  <2>19. CASE StartReady
    BY <2>19 DEF StartReady
  <2>20. CASE StartFail
    BY <2>20 DEF StartFail
  <2>21. CASE BeginDrain
    BY <2>21 DEF BeginDrain
  <2>22. CASE EnterDraining
    BY <2>22 DEF EnterDraining
  <2>23. CASE GraceExpires
    BY <2>23 DEF GraceExpires
  <2>24. CASE FinalizeCheck
    BY <2>24 DEF FinalizeCheck
  <2>25. CASE FinalizeClose
    BY <2>25 DEF FinalizeClose
  <2>26. CASE UNCHANGED vars
    BY <2>26 DEF vars
  <2>q. QED
    BY <2>1, <2>2, <2>3, <2>4, <2>5, <2>6, <2>7, <2>8, <2>9, <2>10, <2>11,
       <2>12, <2>13, <2>14, <2>15, <2>16, <2>17, <2>18, <2>19, <2>20, <2>21,
       <2>22, <2>23, <2>24, <2>25, <2>26
    DEF Next, RequestStep, WorkerStep, DrainStep
<1>3. QED
  BY <1>1, <1>2, ShapeInvariant, PTL DEF Spec

\* The corpus lease (app/leases.py) is held by a mutation that works, and whoever
\* writes holds it.
THEOREM LeaseInvariant == Spec => []LeaseInv
<1>1. Init => LeaseInv
  BY NoOpAssumption, SlotClasses DEF Init, LeaseInv, LeaseOwnerWorks
<1>2. Shape /\ HandleInv /\ LeaseInv /\ [Next]_vars => LeaseInv'
  <2>. SUFFICES ASSUME Shape, HandleInv, LeaseInv, [Next]_vars PROVE LeaseInv'
    OBVIOUS
  <2>. USE NoOpAssumption, SlotsAssumption, SlotClasses
       DEF Shape, HandleInv, LeaseInv, LeaseOwnerWorks, Steps, registryVars,
           handleVars, workerVars, runtimeVars
  <2>1. ASSUME NEW op \in Ops, CheckReady(op) PROVE LeaseInv'
    BY <2>1 DEF CheckReady
  <2>2. ASSUME NEW op \in Ops, Admit(op) PROVE LeaseInv'
    BY <2>2 DEF Admit
  <2>3. ASSUME NEW op \in Ops, Reject(op) PROVE LeaseInv'
    BY <2>3 DEF Reject
  <2>4. ASSUME NEW op \in Ops, StartWorker(op) PROVE LeaseInv'
    BY <2>4 DEF StartWorker, Goto
  <2>5. ASSUME NEW op \in Ops, AcquireCorpusLease(op) PROVE LeaseInv'
    BY <2>5 DEF AcquireCorpusLease, Goto
  <2>6. ASSUME NEW op \in Ops, BeginCandidate(op) PROVE LeaseInv'
    BY <2>6 DEF BeginCandidate, Goto, CompleteLeaseAcquire
  <2>7. ASSUME NEW op \in Ops, BeginPublication(op) PROVE LeaseInv'
    BY <2>7 DEF BeginPublication, Goto, EnterPublication
  <2>8. ASSUME NEW op \in Ops, BeginRetirement(op) PROVE LeaseInv'
    BY <2>8 DEF BeginRetirement, Goto, EnterPublication
  <2>9. ASSUME NEW op \in Ops, Publish(op) PROVE LeaseInv'
    BY <2>9 DEF Publish, Goto
  <2>10. ASSUME NEW op \in Ops, FinishQuery(op) PROVE LeaseInv'
    BY <2>10 DEF FinishQuery, Goto
  <2>11. ASSUME NEW op \in Ops, Abort(op) PROVE LeaseInv'
    BY <2>11 DEF Abort, Unwinds
  <2>12. ASSUME NEW op \in Ops, Fail(op) PROVE LeaseInv'
    BY <2>12 DEF Fail, Unwinds
  <2>13. ASSUME NEW op \in Ops, Unwind(op) PROVE LeaseInv'
    BY <2>13 DEF Unwind, Goto
  <2>14. ASSUME NEW op \in Ops, Release(op) PROVE LeaseInv'
    BY <2>14 DEF Release
  <2>15. ASSUME NEW op \in Ops, Disconnect(op) PROVE LeaseInv'
    BY <2>15 DEF Disconnect, SignalCancel, SignalIgnored
  <2>16. ASSUME NEW op \in Ops, DeadlinePasses(op) PROVE LeaseInv'
    BY <2>16 DEF DeadlinePasses
  <2>17. ASSUME NEW op \in Ops, SignalShutdown(op) PROVE LeaseInv'
    BY <2>17 DEF SignalShutdown, SignalCancel, SignalIgnored
  <2>18. CASE StartBegin
    BY <2>18 DEF StartBegin
  <2>19. CASE StartReady
    BY <2>19 DEF StartReady
  <2>20. CASE StartFail
    BY <2>20 DEF StartFail
  <2>21. CASE BeginDrain
    BY <2>21 DEF BeginDrain
  <2>22. CASE EnterDraining
    BY <2>22 DEF EnterDraining
  <2>23. CASE GraceExpires
    BY <2>23 DEF GraceExpires
  <2>24. CASE FinalizeCheck
    BY <2>24 DEF FinalizeCheck
  <2>25. CASE FinalizeClose
    BY <2>25 DEF FinalizeClose
  <2>26. CASE UNCHANGED vars
    BY <2>26 DEF vars
  <2>q. QED
    BY <2>1, <2>2, <2>3, <2>4, <2>5, <2>6, <2>7, <2>8, <2>9, <2>10, <2>11,
       <2>12, <2>13, <2>14, <2>15, <2>16, <2>17, <2>18, <2>19, <2>20, <2>21,
       <2>22, <2>23, <2>24, <2>25, <2>26
    DEF Next, RequestStep, WorkerStep, DrainStep
<1>3. QED
  BY <1>1, <1>2, ShapeInvariant, HandleInvariant, PTL DEF Spec

\* The steps of begin_drain, wait_for_drain and finalize_shutdown agree with the
\* registry's drain flag, the runtime state and the resources.
THEOREM DrainInvariant == Spec => []DrainInv
<1>1. Init => DrainInv
  BY DEF Init, DrainInv
<1>2. Shape /\ HandleInv /\ DrainInv /\ [Next]_vars => DrainInv'
  <2>. SUFFICES ASSUME Shape, HandleInv, DrainInv, [Next]_vars PROVE DrainInv'
    OBVIOUS
  <2>. USE SlotsAssumption, SlotClasses
       DEF Shape, HandleInv, DrainInv, Lifecycles, Reasons, Steps,
           RuntimeStates, DrainSteps, registryVars, handleVars, workerVars,
           runtimeVars
  <2>1. ASSUME NEW op \in Ops, CheckReady(op) PROVE DrainInv'
    BY <2>1 DEF CheckReady
  <2>2. ASSUME NEW op \in Ops, Admit(op) PROVE DrainInv'
    BY <2>2 DEF Admit
  <2>3. ASSUME NEW op \in Ops, Reject(op) PROVE DrainInv'
    BY <2>3 DEF Reject
  <2>4. ASSUME NEW op \in Ops, StartWorker(op) PROVE DrainInv'
    BY <2>4 DEF StartWorker, Goto
  <2>5. ASSUME NEW op \in Ops, AcquireCorpusLease(op) PROVE DrainInv'
    BY <2>5 DEF AcquireCorpusLease, Goto
  <2>6. ASSUME NEW op \in Ops, BeginCandidate(op) PROVE DrainInv'
    BY <2>6 DEF BeginCandidate, Goto, CompleteLeaseAcquire
  <2>7. ASSUME NEW op \in Ops, BeginPublication(op) PROVE DrainInv'
    BY <2>7 DEF BeginPublication, Goto, EnterPublication
  <2>8. ASSUME NEW op \in Ops, BeginRetirement(op) PROVE DrainInv'
    BY <2>8 DEF BeginRetirement, Goto, EnterPublication
  <2>9. ASSUME NEW op \in Ops, Publish(op) PROVE DrainInv'
    BY <2>9 DEF Publish, Goto
  <2>10. ASSUME NEW op \in Ops, FinishQuery(op) PROVE DrainInv'
    BY <2>10 DEF FinishQuery, Goto
  <2>11. ASSUME NEW op \in Ops, Abort(op) PROVE DrainInv'
    BY <2>11 DEF Abort, Unwinds
  <2>12. ASSUME NEW op \in Ops, Fail(op) PROVE DrainInv'
    BY <2>12 DEF Fail, Unwinds
  <2>13. ASSUME NEW op \in Ops, Unwind(op) PROVE DrainInv'
    BY <2>13 DEF Unwind, Goto
  <2>14. ASSUME NEW op \in Ops, Release(op) PROVE DrainInv'
    BY <2>14 DEF Release
  <2>15. ASSUME NEW op \in Ops, Disconnect(op) PROVE DrainInv'
    BY <2>15 DEF Disconnect, SignalCancel, SignalIgnored
  <2>16. ASSUME NEW op \in Ops, DeadlinePasses(op) PROVE DrainInv'
    BY <2>16 DEF DeadlinePasses
  <2>17. ASSUME NEW op \in Ops, SignalShutdown(op) PROVE DrainInv'
    BY <2>17 DEF SignalShutdown, SignalCancel, SignalIgnored
  <2>18. CASE StartBegin
    BY <2>18 DEF StartBegin
  <2>19. CASE StartReady
    BY <2>19 DEF StartReady
  <2>20. CASE StartFail
    BY <2>20 DEF StartFail
  <2>21. CASE BeginDrain
    BY <2>21 DEF BeginDrain
  <2>22. CASE EnterDraining
    BY <2>22 DEF EnterDraining
  <2>23. CASE GraceExpires
    BY <2>23 DEF GraceExpires
  <2>24. CASE FinalizeCheck
    BY <2>24 DEF FinalizeCheck
  <2>25. CASE FinalizeClose
    BY <2>25 DEF FinalizeClose
  <2>26. CASE UNCHANGED vars
    BY <2>26 DEF vars
  <2>q. QED
    BY <2>1, <2>2, <2>3, <2>4, <2>5, <2>6, <2>7, <2>8, <2>9, <2>10, <2>11,
       <2>12, <2>13, <2>14, <2>15, <2>16, <2>17, <2>18, <2>19, <2>20, <2>21,
       <2>22, <2>23, <2>24, <2>25, <2>26
    DEF Next, RequestStep, WorkerStep, DrainStep
<1>3. QED
  BY <1>1, <1>2, ShapeInvariant, HandleInvariant, PTL DEF Spec

\* signal_cancel racing enter_publication and complete_lease_acquire: nothing in
\* the publication critical section has accepted a cancel, and no accepted
\* disconnect masks a shutdown past the lease.
THEOREM UncancelledInvariant == Spec => []PublicationIsUncancelled
<1>1. Init => PublicationIsUncancelled
  BY DEF Init, PublicationIsUncancelled
<1>2. /\ Shape /\ HandleInv /\ PublicationIsUncancelled /\ [Next]_vars
      => PublicationIsUncancelled'
  <2>. SUFFICES ASSUME Shape, HandleInv, PublicationIsUncancelled, [Next]_vars
                PROVE  PublicationIsUncancelled'
    OBVIOUS
  <2>. USE SlotsAssumption, SlotClasses
       DEF Shape, HandleInv, PublicationIsUncancelled, Ops, Lifecycles,
           Reasons, Steps, registryVars, handleVars, workerVars, runtimeVars
  <2>1. ASSUME NEW op \in Ops, CheckReady(op) PROVE PublicationIsUncancelled'
    BY <2>1 DEF CheckReady
  <2>2. ASSUME NEW op \in Ops, Admit(op) PROVE PublicationIsUncancelled'
    BY <2>2 DEF Admit
  <2>3. ASSUME NEW op \in Ops, Reject(op) PROVE PublicationIsUncancelled'
    BY <2>3 DEF Reject
  <2>4. ASSUME NEW op \in Ops, StartWorker(op) PROVE PublicationIsUncancelled'
    BY <2>4 DEF StartWorker, Goto
  <2>5. ASSUME NEW op \in Ops, AcquireCorpusLease(op)
       PROVE PublicationIsUncancelled'
    BY <2>5 DEF AcquireCorpusLease, Goto
  <2>6. ASSUME NEW op \in Ops, BeginCandidate(op)
       PROVE PublicationIsUncancelled'
    BY <2>6 DEF BeginCandidate, Goto, CompleteLeaseAcquire, LeaseAcquireRaises
  <2>7. ASSUME NEW op \in Ops, BeginPublication(op)
       PROVE PublicationIsUncancelled'
    BY <2>7 DEF BeginPublication, Goto, EnterPublication, EnterPublicationRaises
  <2>8. ASSUME NEW op \in Ops, BeginRetirement(op)
       PROVE PublicationIsUncancelled'
    BY <2>8 DEF BeginRetirement, Goto, EnterPublication, EnterPublicationRaises
  <2>9. ASSUME NEW op \in Ops, Publish(op) PROVE PublicationIsUncancelled'
    BY <2>9 DEF Publish, Goto
  <2>10. ASSUME NEW op \in Ops, FinishQuery(op) PROVE PublicationIsUncancelled'
    BY <2>10 DEF FinishQuery, Goto
  <2>11. ASSUME NEW op \in Ops, Abort(op) PROVE PublicationIsUncancelled'
    BY <2>11 DEF Abort, Unwinds
  <2>12. ASSUME NEW op \in Ops, Fail(op) PROVE PublicationIsUncancelled'
    BY <2>12 DEF Fail, Unwinds
  <2>13. ASSUME NEW op \in Ops, Unwind(op) PROVE PublicationIsUncancelled'
    BY <2>13 DEF Unwind, Goto
  <2>14. ASSUME NEW op \in Ops, Release(op) PROVE PublicationIsUncancelled'
    BY <2>14 DEF Release
  <2>15. ASSUME NEW op \in Ops, Disconnect(op) PROVE PublicationIsUncancelled'
    BY <2>15 DEF Disconnect, SignalCancel, SignalIgnored
  <2>16. ASSUME NEW op \in Ops, DeadlinePasses(op)
       PROVE PublicationIsUncancelled'
    BY <2>16 DEF DeadlinePasses
  <2>17. ASSUME NEW op \in Ops, SignalShutdown(op)
       PROVE PublicationIsUncancelled'
    BY <2>17 DEF SignalShutdown, SignalCancel, SignalIgnored
  <2>18. CASE StartBegin
    BY <2>18 DEF StartBegin
  <2>19. CASE StartReady
    BY <2>19 DEF StartReady
  <2>20. CASE StartFail
    BY <2>20 DEF StartFail
  <2>21. CASE BeginDrain
    BY <2>21 DEF BeginDrain
  <2>22. CASE EnterDraining
    BY <2>22 DEF EnterDraining
  <2>23. CASE GraceExpires
    BY <2>23 DEF GraceExpires
  <2>24. CASE FinalizeCheck
    BY <2>24 DEF FinalizeCheck
  <2>25. CASE FinalizeClose
    BY <2>25 DEF FinalizeClose
  <2>26. CASE UNCHANGED vars
    BY <2>26 DEF vars
  <2>q. QED
    BY <2>1, <2>2, <2>3, <2>4, <2>5, <2>6, <2>7, <2>8, <2>9, <2>10, <2>11,
       <2>12, <2>13, <2>14, <2>15, <2>16, <2>17, <2>18, <2>19, <2>20, <2>21,
       <2>22, <2>23, <2>24, <2>25, <2>26
    DEF Next, RequestStep, WorkerStep, DrainStep
<1>3. QED
  BY <1>1, <1>2, ShapeInvariant, HandleInvariant, PTL DEF Spec

\* signal_shutdown against _admit: whatever is live once the snapshot of handles
\* is signalled has accepted a cancel or is publishing.
THEOREM EscapeInvariant == Spec => []NothingEscapesDrain
<1>1. Init => NothingEscapesDrain
  BY DEF Init, NothingEscapesDrain
<1>2. Shape /\ HandleInv /\ DrainInv /\ NothingEscapesDrain /\ [Next]_vars
      => NothingEscapesDrain'
  <2>. SUFFICES ASSUME Shape, HandleInv, DrainInv, NothingEscapesDrain,
                       [Next]_vars
                PROVE  NothingEscapesDrain'
    OBVIOUS
  <2>. USE SlotsAssumption, SlotClasses
       DEF Shape, HandleInv, DrainInv, NothingEscapesDrain, Lifecycles,
           Reasons, Steps, DrainSteps, registryVars, handleVars, workerVars,
           runtimeVars
  <2>1. ASSUME NEW op \in Ops, CheckReady(op) PROVE NothingEscapesDrain'
    BY <2>1 DEF CheckReady
  <2>2. ASSUME NEW op \in Ops, Admit(op) PROVE NothingEscapesDrain'
    BY <2>2 DEF Admit
  <2>3. ASSUME NEW op \in Ops, Reject(op) PROVE NothingEscapesDrain'
    BY <2>3 DEF Reject
  <2>4. ASSUME NEW op \in Ops, StartWorker(op) PROVE NothingEscapesDrain'
    BY <2>4 DEF StartWorker, Goto
  <2>5. ASSUME NEW op \in Ops, AcquireCorpusLease(op) PROVE NothingEscapesDrain'
    BY <2>5 DEF AcquireCorpusLease, Goto
  <2>6. ASSUME NEW op \in Ops, BeginCandidate(op) PROVE NothingEscapesDrain'
    BY <2>6 DEF BeginCandidate, Goto, CompleteLeaseAcquire
  <2>7. ASSUME NEW op \in Ops, BeginPublication(op) PROVE NothingEscapesDrain'
    BY <2>7 DEF BeginPublication, Goto, EnterPublication
  <2>8. ASSUME NEW op \in Ops, BeginRetirement(op) PROVE NothingEscapesDrain'
    BY <2>8 DEF BeginRetirement, Goto, EnterPublication
  <2>9. ASSUME NEW op \in Ops, Publish(op) PROVE NothingEscapesDrain'
    BY <2>9 DEF Publish, Goto
  <2>10. ASSUME NEW op \in Ops, FinishQuery(op) PROVE NothingEscapesDrain'
    BY <2>10 DEF FinishQuery, Goto
  <2>11. ASSUME NEW op \in Ops, Abort(op) PROVE NothingEscapesDrain'
    BY <2>11 DEF Abort, Unwinds
  <2>12. ASSUME NEW op \in Ops, Fail(op) PROVE NothingEscapesDrain'
    BY <2>12 DEF Fail, Unwinds
  <2>13. ASSUME NEW op \in Ops, Unwind(op) PROVE NothingEscapesDrain'
    BY <2>13 DEF Unwind, Goto
  <2>14. ASSUME NEW op \in Ops, Release(op) PROVE NothingEscapesDrain'
    BY <2>14 DEF Release
  <2>15. ASSUME NEW op \in Ops, Disconnect(op) PROVE NothingEscapesDrain'
    BY <2>15 DEF Disconnect, SignalCancel, SignalIgnored
  <2>16. ASSUME NEW op \in Ops, DeadlinePasses(op) PROVE NothingEscapesDrain'
    BY <2>16 DEF DeadlinePasses
  <2>17. ASSUME NEW op \in Ops, SignalShutdown(op) PROVE NothingEscapesDrain'
    BY <2>17 DEF SignalShutdown, SignalCancel, SignalIgnored
  <2>18. CASE StartBegin
    BY <2>18 DEF StartBegin
  <2>19. CASE StartReady
    BY <2>19 DEF StartReady
  <2>20. CASE StartFail
    BY <2>20 DEF StartFail
  <2>21. CASE BeginDrain
    BY <2>21 DEF BeginDrain
  <2>22. CASE EnterDraining
    BY <2>22 DEF EnterDraining
  <2>23. CASE GraceExpires
    BY <2>23 DEF GraceExpires
  <2>24. CASE FinalizeCheck
    BY <2>24 DEF FinalizeCheck
  <2>25. CASE FinalizeClose
    BY <2>25 DEF FinalizeClose
  <2>26. CASE UNCHANGED vars
    BY <2>26 DEF vars
  <2>q. QED
    BY <2>1, <2>2, <2>3, <2>4, <2>5, <2>6, <2>7, <2>8, <2>9, <2>10, <2>11,
       <2>12, <2>13, <2>14, <2>15, <2>16, <2>17, <2>18, <2>19, <2>20, <2>21,
       <2>22, <2>23, <2>24, <2>25, <2>26
    DEF Next, RequestStep, WorkerStep, DrainStep
<1>3. QED
  BY <1>1, <1>2, ShapeInvariant, HandleInvariant, DrainInvariant, PTL DEF Spec

\* finalize_shutdown never closes the shared resources under a worker that has
\* passed its readiness check, across any number of restarts.
THEOREM ResourcesInvariant == Spec => []ResourcesUnderWork
<1>1. Init => ResourcesUnderWork
  BY DEF Init, ResourcesUnderWork
<1>2. Shape /\ HandleInv /\ DrainInv /\ ResourcesUnderWork /\ [Next]_vars
      => ResourcesUnderWork'
  <2>. SUFFICES ASSUME Shape, HandleInv, DrainInv, ResourcesUnderWork,
                       [Next]_vars
                PROVE  ResourcesUnderWork'
    OBVIOUS
  <2>. USE SlotsAssumption, SlotClasses
       DEF Shape, HandleInv, DrainInv, ResourcesUnderWork, Steps, DrainSteps,
           RuntimeStates, registryVars, handleVars, workerVars, runtimeVars
  <2>1. ASSUME NEW op \in Ops, CheckReady(op) PROVE ResourcesUnderWork'
    BY <2>1 DEF CheckReady
  <2>2. ASSUME NEW op \in Ops, Admit(op) PROVE ResourcesUnderWork'
    BY <2>2 DEF Admit
  <2>3. ASSUME NEW op \in Ops, Reject(op) PROVE ResourcesUnderWork'
    BY <2>3 DEF Reject
  <2>4. ASSUME NEW op \in Ops, StartWorker(op) PROVE ResourcesUnderWork'
    BY <2>4 DEF StartWorker, Goto, IsReady
  <2>5. ASSUME NEW op \in Ops, AcquireCorpusLease(op) PROVE ResourcesUnderWork'
    BY <2>5 DEF AcquireCorpusLease, Goto
  <2>6. ASSUME NEW op \in Ops, BeginCandidate(op) PROVE ResourcesUnderWork'
    BY <2>6 DEF BeginCandidate, Goto, CompleteLeaseAcquire
  <2>7. ASSUME NEW op \in Ops, BeginPublication(op) PROVE ResourcesUnderWork'
    BY <2>7 DEF BeginPublication, Goto, EnterPublication
  <2>8. ASSUME NEW op \in Ops, BeginRetirement(op) PROVE ResourcesUnderWork'
    BY <2>8 DEF BeginRetirement, Goto, EnterPublication
  <2>9. ASSUME NEW op \in Ops, Publish(op) PROVE ResourcesUnderWork'
    BY <2>9 DEF Publish, Goto
  <2>10. ASSUME NEW op \in Ops, FinishQuery(op) PROVE ResourcesUnderWork'
    BY <2>10 DEF FinishQuery, Goto
  <2>11. ASSUME NEW op \in Ops, Abort(op) PROVE ResourcesUnderWork'
    BY <2>11 DEF Abort, Unwinds
  <2>12. ASSUME NEW op \in Ops, Fail(op) PROVE ResourcesUnderWork'
    BY <2>12 DEF Fail, Unwinds
  <2>13. ASSUME NEW op \in Ops, Unwind(op) PROVE ResourcesUnderWork'
    BY <2>13 DEF Unwind, Goto
  <2>14. ASSUME NEW op \in Ops, Release(op) PROVE ResourcesUnderWork'
    BY <2>14 DEF Release
  <2>15. ASSUME NEW op \in Ops, Disconnect(op) PROVE ResourcesUnderWork'
    BY <2>15 DEF Disconnect, SignalCancel
  <2>16. ASSUME NEW op \in Ops, DeadlinePasses(op) PROVE ResourcesUnderWork'
    BY <2>16 DEF DeadlinePasses
  <2>17. ASSUME NEW op \in Ops, SignalShutdown(op) PROVE ResourcesUnderWork'
    BY <2>17 DEF SignalShutdown, SignalCancel
  <2>18. CASE StartBegin
    BY <2>18 DEF StartBegin
  <2>19. CASE StartReady
    BY <2>19 DEF StartReady
  <2>20. CASE StartFail
    BY <2>20 DEF StartFail
  <2>21. CASE BeginDrain
    BY <2>21 DEF BeginDrain
  <2>22. CASE EnterDraining
    BY <2>22 DEF EnterDraining
  <2>23. CASE GraceExpires
    BY <2>23 DEF GraceExpires
  <2>24. CASE FinalizeCheck
    BY <2>24 DEF FinalizeCheck
  <2>25. CASE FinalizeClose
    BY <2>25 DEF FinalizeClose
  <2>26. CASE UNCHANGED vars
    BY <2>26 DEF vars
  <2>q. QED
    BY <2>1, <2>2, <2>3, <2>4, <2>5, <2>6, <2>7, <2>8, <2>9, <2>10, <2>11,
       <2>12, <2>13, <2>14, <2>15, <2>16, <2>17, <2>18, <2>19, <2>20, <2>21,
       <2>22, <2>23, <2>24, <2>25, <2>26
    DEF Next, RequestStep, WorkerStep, DrainStep
<1>3. QED
  BY <1>1, <1>2, ShapeInvariant, HandleInvariant, DrainInvariant, PTL DEF Spec

\* The live operations of a class can be counted.
LEMMA InClassFinite ==
    ASSUME Shape, NEW c \in Classes
    PROVE  IsFiniteSet(InClass(c)) /\ Cardinality(InClass(c)) \in Nat
<1>1. InClass(c) \subseteq Ops
  BY DEF Shape, InClass
<1>2. IsFiniteSet(InClass(c))
  BY <1>1, SlotsAssumption, FS_Subset
<1>3. QED
  BY <1>2, FS_CardinalityType

\* _admit takes one slot of the gate of the class whose population it raises.
LEMMA AdmitCounts ==
    ASSUME Shape, HandleInv, CapacityExact, NEW op \in Ops, Admit(op)
    PROVE  CapacityExact'
<1>. SUFFICES ASSUME NEW c \in Classes
              PROVE  /\ held'[c] = Cardinality(InClass(c)')
                     /\ held'[c] <= MaxConcurrent[c]
  BY DEF CapacityExact
<1>1. held[c] = Cardinality(InClass(c)) /\ held[c] <= MaxConcurrent[c]
  BY DEF CapacityExact
<1>2. CASE c = Class(op)
  <2>1. op \notin InClass(c) /\ InClass(c)' = InClass(c) \cup {op}
    BY <1>2 DEF HandleInv, Admit, InClass
  <2>2. Cardinality(InClass(c)') = Cardinality(InClass(c)) + 1
    BY <2>1, InClassFinite, FS_AddElement
  <2>3. held'[c] = held[c] + 1 /\ held[c] < MaxConcurrent[c]
    BY <1>2 DEF Admit, Shape
  <2>q. QED
    BY <1>1, <2>2, <2>3, InClassFinite, CapacityAssumption
<1>3. CASE c # Class(op)
  <2>1. InClass(c)' = InClass(c)
    BY <1>3 DEF Admit, InClass
  <2>2. held'[c] = held[c]
    BY <1>3 DEF Admit, Shape
  <2>q. QED
    BY <1>1, <2>1, <2>2
<1>q. QED
  BY <1>2, <1>3

\* release gives back one slot of the gate of the class whose population it
\* lowers, and the operation was in that population.
LEMMA ReleaseCounts ==
    ASSUME Shape, HandleInv, CapacityExact, NEW op \in Ops, Release(op)
    PROVE  CapacityExact'
<1>. SUFFICES ASSUME NEW c \in Classes
              PROVE  /\ held'[c] = Cardinality(InClass(c)')
                     /\ held'[c] <= MaxConcurrent[c]
  BY DEF CapacityExact
<1>1. held[c] = Cardinality(InClass(c)) /\ held[c] <= MaxConcurrent[c]
  BY DEF CapacityExact
<1>2. CASE c = Class(op)
  <2>1. op \in InClass(c) /\ InClass(c)' = InClass(c) \ {op}
    BY <1>2 DEF HandleInv, Release, InClass
  <2>2. Cardinality(InClass(c)') = Cardinality(InClass(c)) - 1
    BY <2>1, InClassFinite, FS_RemoveElement
  <2>3. held'[c] = held[c] - 1
    BY <1>2 DEF Release, Shape
  <2>q. QED
    BY <1>1, <2>2, <2>3, InClassFinite, CapacityAssumption
<1>3. CASE c # Class(op)
  <2>1. InClass(c)' = InClass(c)
    BY <1>3 DEF Release, InClass
  <2>2. held'[c] = held[c]
    BY <1>3 DEF Release, Shape
  <2>q. QED
    BY <1>1, <2>1, <2>2
<1>q. QED
  BY <1>2, <1>3

\* CapacityGate counts exactly the live operations of its class and stays within
\* its limit: no path through admit, abort, fault and release leaks a slot or
\* releases one twice.
THEOREM CapacityInvariant == Spec => []CapacityExact
<1>1. Init => CapacityExact
  <2>. SUFFICES ASSUME Init, NEW c \in Classes
                PROVE  /\ held[c] = Cardinality(InClass(c))
                       /\ held[c] <= MaxConcurrent[c]
    BY DEF CapacityExact
  <2>1. InClass(c) = {} /\ held[c] = 0
    BY DEF Init, InClass
  <2>q. QED
    BY <2>1, FS_EmptySet, CapacityAssumption
<1>2. Shape /\ HandleInv /\ CapacityExact /\ [Next]_vars => CapacityExact'
  <2>. SUFFICES ASSUME Shape, HandleInv, CapacityExact, [Next]_vars
                PROVE  CapacityExact'
    OBVIOUS
  <2>0. ASSUME active' = active, held' = held PROVE CapacityExact'
    BY <2>0 DEF CapacityExact, InClass
  <2>. USE DEF registryVars
  <2>1. ASSUME NEW op \in Ops, CheckReady(op) PROVE CapacityExact'
    BY <2>0, <2>1 DEF CheckReady
  <2>2. ASSUME NEW op \in Ops, Admit(op) PROVE CapacityExact'
    BY <2>2, AdmitCounts
  <2>3. ASSUME NEW op \in Ops, Reject(op) PROVE CapacityExact'
    BY <2>0, <2>3 DEF Reject
  <2>4. ASSUME NEW op \in Ops, StartWorker(op) PROVE CapacityExact'
    BY <2>0, <2>4 DEF StartWorker, Goto
  <2>5. ASSUME NEW op \in Ops, AcquireCorpusLease(op) PROVE CapacityExact'
    BY <2>0, <2>5 DEF AcquireCorpusLease, Goto
  <2>6. ASSUME NEW op \in Ops, BeginCandidate(op) PROVE CapacityExact'
    BY <2>0, <2>6 DEF BeginCandidate, Goto, CompleteLeaseAcquire
  <2>7. ASSUME NEW op \in Ops, BeginPublication(op) PROVE CapacityExact'
    BY <2>0, <2>7 DEF BeginPublication, Goto, EnterPublication
  <2>8. ASSUME NEW op \in Ops, BeginRetirement(op) PROVE CapacityExact'
    BY <2>0, <2>8 DEF BeginRetirement, Goto, EnterPublication
  <2>9. ASSUME NEW op \in Ops, Publish(op) PROVE CapacityExact'
    BY <2>0, <2>9 DEF Publish, Goto
  <2>10. ASSUME NEW op \in Ops, FinishQuery(op) PROVE CapacityExact'
    BY <2>0, <2>10 DEF FinishQuery, Goto
  <2>11. ASSUME NEW op \in Ops, Abort(op) PROVE CapacityExact'
    BY <2>0, <2>11 DEF Abort, Unwinds
  <2>12. ASSUME NEW op \in Ops, Fail(op) PROVE CapacityExact'
    BY <2>0, <2>12 DEF Fail, Unwinds
  <2>13. ASSUME NEW op \in Ops, Unwind(op) PROVE CapacityExact'
    BY <2>0, <2>13 DEF Unwind, Goto
  <2>14. ASSUME NEW op \in Ops, Release(op) PROVE CapacityExact'
    BY <2>14, ReleaseCounts
  <2>15. ASSUME NEW op \in Ops, Disconnect(op) PROVE CapacityExact'
    BY <2>0, <2>15 DEF Disconnect, SignalCancel
  <2>16. ASSUME NEW op \in Ops, DeadlinePasses(op) PROVE CapacityExact'
    BY <2>0, <2>16 DEF DeadlinePasses
  <2>17. ASSUME NEW op \in Ops, SignalShutdown(op) PROVE CapacityExact'
    BY <2>0, <2>17 DEF SignalShutdown, SignalCancel
  <2>18. CASE StartBegin
    BY <2>0, <2>18 DEF StartBegin
  <2>19. CASE StartReady
    BY <2>0, <2>19 DEF StartReady
  <2>20. CASE StartFail
    BY <2>0, <2>20 DEF StartFail
  <2>21. CASE BeginDrain
    BY <2>0, <2>21 DEF BeginDrain
  <2>22. CASE EnterDraining
    BY <2>0, <2>22 DEF EnterDraining
  <2>23. CASE GraceExpires
    BY <2>0, <2>23 DEF GraceExpires
  <2>24. CASE FinalizeCheck
    BY <2>0, <2>24 DEF FinalizeCheck
  <2>25. CASE FinalizeClose
    BY <2>0, <2>25 DEF FinalizeClose
  <2>26. CASE UNCHANGED vars
    BY <2>0, <2>26 DEF vars
  <2>q. QED
    BY <2>1, <2>2, <2>3, <2>4, <2>5, <2>6, <2>7, <2>8, <2>9, <2>10, <2>11,
       <2>12, <2>13, <2>14, <2>15, <2>16, <2>17, <2>18, <2>19, <2>20, <2>21,
       <2>22, <2>23, <2>24, <2>25, <2>26
    DEF Next, RequestStep, WorkerStep, DrainStep
<1>3. QED
  BY <1>1, <1>2, ShapeInvariant, HandleInvariant, PTL DEF Spec

\* The type invariant of OperationRegistry; that a gate's count never becomes
\* negative (CapacityGate.release) rests on its being a cardinality.
THEOREM TypeCorrect == Spec => []TypeOK
<1>1. Shape /\ CapacityExact => TypeOK
  <2>. SUFFICES ASSUME Shape, CapacityExact PROVE TypeOK
    OBVIOUS
  <2>1. \A c \in Classes : held[c] \in Nat
    BY InClassFinite DEF CapacityExact
  <2>2. held \in [Classes -> Nat]
    BY <2>1 DEF Shape
  <2>q. QED
    BY <2>2 DEF Shape, TypeOK
<1>2. QED
  BY <1>1, ShapeInvariant, CapacityInvariant, PTL

\* One writer per corpus (app/leases.py): at most one mutation stages or
\* publishes at a time, and nobody keeps the lease after its work.
THEOREM LeaseOwner == Spec => []LeaseOwnerWorks
<1>1. LeaseInv => LeaseOwnerWorks
  BY DEF LeaseInv
<1>2. QED
  BY <1>1, LeaseInvariant, PTL

=============================================================================
