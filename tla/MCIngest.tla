------------------------------ MODULE MCIngest ------------------------------
(***************************************************************************)
(* The batch side of the corpus in one run: the four stages over shared    *)
(* stores, the chunker on small documents, the record an operation shows   *)
(* of its stages, and uploads into workspaces.  "part" says which of the   *)
(* four this behaviour is about; they share no state.                      *)
(***************************************************************************)
EXTENDS IngestPipeline, StructureChunking, OperationObservability, UploadSpool, TLC

VARIABLE part

Block(type, section, text) == [type |-> type, section |-> section, text |-> text]
MCBlocks ==
  {Block("heading", s, t) : s \in {"none", "s"}, t \in {<<<<1>>>>, <<<<4>>>>}}
    \cup {Block("text", s, t) : s \in {"none", "s", "t"},
            t \in {<<<<1, 1>>>>, <<<<2>>, <<2, 2>>>>, <<<<1>>, <<1, 2, 1>>, <<1>>>>}}
    \cup {Block(ty, "s", t) : ty \in {"table", "code"},
            t \in {<<<<1>>, <<1>>>>, <<<<1>>, <<2>>, <<2>>, <<3>>>>}}

MCChunks == "t" :> <<1, 1>> @@ "p" :> <<2, 1>> @@ "x" :> <<2, 1>> @@ "e" :> <<>>

Sym == Permutations(Procs) \cup Permutations(Paths) \cup Permutations(Uploads)

Init == /\ PipeInit /\ ChunkInit /\ ObsInit /\ UploadInit
        /\ part \in {"pipeline", "chunker", "record", "upload"}
        /\ part # "pipeline" => files = [p \in Paths |-> CHOOSE c \in Contents : TRUE]
        /\ part # "upload" => upHost.qualified = CHOOSE q \in LargePdfEligibility : TRUE
Next == \/ part = "pipeline" /\ PipeNext /\ UNCHANGED <<document, obsVars, uploadVars, part>>
        \/ part = "chunker" /\ ChunkNext /\ UNCHANGED <<pipeVars, obsVars, uploadVars, part>>
        \/ part = "record" /\ ObsNext /\ UNCHANGED <<pipeVars, document, uploadVars, part>>
        \/ part = "upload" /\ UploadNext /\ UNCHANGED <<pipeVars, document, obsVars, part>>
Spec == Init /\ [][Next]_<<pipeVars, document, obsVars, uploadVars, part>>
=============================================================================
