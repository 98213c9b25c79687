----------------------------- MODULE MCGoldLab -------------------------------
(***************************************************************************)
(* The Gold Lab in one run; "part" says whether this behaviour is about    *)
(* reviewing campaigns or about setting them up.                           *)
(***************************************************************************)
EXTENDS GoldLedger, GoldSetup, TLC

VARIABLE part

QC(case, decision, values) == [kind |-> "question_check", case |-> case, decision |-> decision, values |-> values]
Abs(case, cand, grade) == [kind |-> "absolute_relevance", case |-> case, cand |-> cand, grade |-> grade]
Values(q, m) == [query |-> q, meta |-> m]
MCCandidates == [x |-> {"a", "b"}, y |-> {"a"}]
MCReviewed ==
  LET start(n) == <<[id |-> n + 1, key |-> "s1", req |-> QC("x", "accept", Proposal), query |-> "none", supersedes |-> 0],
                    [id |-> n + 2, key |-> "s2", req |-> Abs("x", "a", 1), query |-> "P", supersedes |-> 0],
                    [id |-> n + 3, key |-> "s3", req |-> Abs("x", "b", 0), query |-> "P", supersedes |-> 0]>>
  IN [c1 |-> start(0), c2 |-> start(3)]
MCRequests ==
  [c1 |-> {QC("x", "reject", Proposal), QC("x", "edit", Values("E", "P")), QC("y", "accept", Proposal),
           Abs("x", "a", 0), Abs("x", "b", 1),
           [kind |-> "auxiliary_preference", case |-> "x", cand |-> "a", other |-> "b"]},
   c2 |-> {}]
MCHard == {<<"x", "b">>}
MCChunks == [S1 |-> "A", S2 |-> "B"]
(* Players are clients and bootstrap keys are keys: one symmetry serves both. *)
Sym == Permutations(Clients) \cup Permutations(Keys)
Init == /\ GoldInit /\ SetupInit /\ part \in {"review", "setup"}
        /\ ws.snap = "S1"
Next == \/ part = "review" /\ GoldNext /\ UNCHANGED <<setupVars, part>>
        \/ part = "setup" /\ SetupNext /\ UNCHANGED <<goldVars, part>>
Spec == Init /\ [][Next]_<<goldVars, setupVars, part>>

(* No step of the lab does what its moment forbids: judge in a closed       *)
(* campaign, earn by judging again, publish a deck or a baseline of a       *)
(* workspace that has moved on.                                             *)
StepsAreTimely ==
  [][ClosedIsFrozen /\ CorrectionEarnsNothing /\ DeckIsOfCurrent /\ SucceedsUndrifted]_<<goldVars, setupVars>>
=============================================================================
