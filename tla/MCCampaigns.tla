---------------------------- MODULE MCCampaigns ----------------------------
(***************************************************************************)
(* The measurement campaigns under scripts/, in one run: the dense cells,  *)
(* the CPU lanes, the embedding memory cells and the corpus acceptance     *)
(* harness.  "part" says which of them this behaviour is about; they share *)
(* no state.  The preparation of a corpus is checked on every corpus, the  *)
(* cells on the one the source pins.                                       *)
(***************************************************************************)
EXTENDS DenseCampaign, CpuQualification, MemoryCampaign, CorpusAcceptance, TLC

VARIABLE part

MCMinutes == {10, 12, 13}
MCProj == {15, 20, 25, 26}
MCAuth == {{"M3_A", "M3_B"}, {"M3_A"}}
MCPaths == <<"a", "b", "c", "d", "e">>
MCSize == "t" :> 2 @@ "u" :> 1 @@ "o" :> 3 @@ "n" :> 2
MCText == "t" :> "native" @@ "u" :> "absent" @@ "o" :> "absent" @@ "n" :> "none"
MCPrepared == "a" :> "t" @@ "b" :> "t" @@ "c" :> "u" @@ "d" :> "n" @@ "e" :> "o"
MCCorpora == [{"a", "b", "c", "d", "e"} -> {"t", "u", "o", "n"}]
MCEdits == {<<"c", "t">>, <<"a", "n">>}
MCSym == Permutations(Outputs)

Init ==
  /\ part \in {"dense", "cpu", "memory", "preparation", "acceptance"}
  /\ CampaignInit /\ LadderInit /\ MemoryInit /\ AcceptanceInit
  /\ served = "d1"
  /\ part # "cpu" => lane = "ov"
  /\ part # "memory" =>
       memBench.cache = "active" /\ ~ memBench.forward /\ ~ memBench.skewed /\ memBench.authority = {"M3_A"}
  /\ memBench.authority = {"M3_A"} => memBench.cache = "active" /\ ~ memBench.skewed
  /\ memBench.cache # "active" => memBench.forward = memBench.skewed
  /\ part # "preparation" => corpus = Prepared
Next ==
  \/ part = "dense" /\ CampaignNext /\ UNCHANGED <<ladderVars, memoryVars, accVars, part>>
  \/ part = "cpu" /\ LadderNext /\ UNCHANGED <<campaignVars, memoryVars, accVars, part>>
  \/ part = "memory" /\ MemoryNext /\ UNCHANGED <<campaignVars, ladderVars, accVars, part>>
  \/ /\ part = "preparation" /\ (inventory_directory \/ write_manifest)
     /\ UNCHANGED <<campaignVars, ladderVars, memoryVars, part>>
  \/ /\ part = "acceptance" /\ AcceptanceNext
     /\ UNCHANGED <<campaignVars, ladderVars, memoryVars, part>>
Spec == Init /\ [][Next]_<<campaignVars, ladderVars, memoryVars, accVars, part>>
=============================================================================
