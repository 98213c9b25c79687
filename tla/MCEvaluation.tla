---------------------------- MODULE MCEvaluation ----------------------------
(***************************************************************************)
(* The offline evaluations in one run: of recovery, of sufficiency and of  *)
(* generation.  "part" says which of them this behaviour is about; they    *)
(* share no state, and a part that is not chosen stays in one initial      *)
(* state.                                                                  *)
(***************************************************************************)
EXTENDS RecoveryEvaluation, SufficiencyEvidence, GenerationEvaluation, TLC

VARIABLE part

MCStacks == {[chunks |-> "g", index |-> "i1"], [chunks |-> "g", index |-> "i2"],
             [chunks |-> "o", index |-> "i1"]}
MCEvalCases == <<"h1", "h2">>

Anc(c, s, d, x) == [chunk |-> c, score |-> s, dense |-> d, lexical |-> x]
Unit(i, d, c) == [id |-> i, doc |-> d, section |-> d, chunk |-> c]
MCSuffContexts ==
  {[anchors |-> <<>>, units |-> <<>>],
   [anchors |-> <<Anc("g", 3, TRUE, TRUE), Anc("o", 1, TRUE, FALSE)>>,
    units |-> <<Unit(1, "d", "g"), Unit(2, "e", "o")>>],
   [anchors |-> <<Anc("o", 1, TRUE, FALSE), Anc("g", 2, TRUE, TRUE)>>, units |-> <<>>]}
MCIndexes == {[chunks |-> "k", index |-> "i"], [chunks |-> "z", index |-> "j"]}
MCSuffCases == <<"c1", "c2", "c3">>
MCPositives == [c \in {"c1", "c2", "c3"} |-> {"g"}]
Art(k, l, w, cs) == [kind |-> k, lineage |-> l, whole |-> w, cases |-> cs]
On(cs, q) == [c \in cs |-> q]
MCArtifacts ==
  {Art("eval", l, FALSE, On({"c1", "c2", "c3"}, q)) : l \in {"L1", "L2"}, q \in {"intended", "other"}}
  \cup {Art("dump", "L1", TRUE, On(cs, "intended")) : cs \in {{"c1"}, {"c2", "c3"}, {"c1", "c2"}}}
  \cup {Art("dump", "L1", w, On({"c1"}, q)) : w \in BOOLEAN, q \in {"other", "none"}}
  \cup {Art("dump", "L2", TRUE, On({"c1", "c2", "c3"}, "intended")),
        Art("dump", "partial", TRUE, On({"c1"}, "intended")),
        Art("unsupported", "partial", FALSE, <<>>)}

MCGenCases == <<"a", "b">>
MCRank == "p" :> 1 @@ "x" :> 2 @@ "y" :> 3
MCGrades == "p" :> 1 @@ "x" :> 0 @@ "y" :> 0
GenSet(p, m, j) == [prompt |-> p, model |-> m, judge |-> j]
MCGenSettings == {GenSet("v1", "m", "j"), GenSet("v2", "m", "j"), GenSet("v2", "n", "k")}

MCSym == Permutations(EvalRuns)

Init ==
  /\ part \in {"recovery", "sufficiency", "generation"}
  /\ RecoveryInit /\ SuffInit /\ GenInit
  /\ part # "recovery" => live = [chunks |-> "g", index |-> "i1"]
  /\ suffIndex.chunks = "k"
Next ==
  /\ UNCHANGED part
  /\ \/ part = "recovery" /\ RecoveryNext /\ UNCHANGED <<suffVars, genVars>>
     \/ part = "sufficiency" /\ SuffNext /\ UNCHANGED <<recoveryVars, genVars>>
     \/ part = "generation" /\ GenNext /\ UNCHANGED <<recoveryVars, suffVars>>
vars == <<part, recoveryVars, suffVars, genVars>>
Spec == Init /\ [][Next]_vars
=============================================================================
