----------------------------- MODULE MCServing ------------------------------
(***************************************************************************)
(* The serving side in one run: questions over the shared caches and trace *)
(* stores, and the settings a user edits.  "part" says which of the two    *)
(* this behaviour is about; they share no state.                           *)
(***************************************************************************)
EXTENDS QueryServing, ProductSettings, TLC

VARIABLE part

Rec(status, snapshot, a, b) ==
  [status |-> status, snapshot |-> snapshot, sources |-> [s1 |-> a, s2 |-> b]]
MCHistory == <<Rec("empty", "none", "none", "none"), Rec("active", "A", "d", "d"),
               Rec("active", "B", "none", "d")>>

Env(mode, strict, url, timeout, key, policy, appr) ==
  [mode |-> mode, strict |-> strict, appr |-> appr, key |-> key, policy |-> policy,
   sel |-> [f \in {"base_url", "model"} |-> IF f = "base_url" THEN url ELSE "none"],
   plain |-> [enabled |-> "none", timeout |-> timeout]]
MCEnvs ==
  {Env("user", FALSE, "none", "none", "none", "none", {}),
   Env("user", TRUE, "E", "E", "E", "E", {"model"}),
   Env("operator", FALSE, "E", "E", "E", "none", {}),
   Env("operator", TRUE, "none", "none", "none", "E", {"base_url"}),
   Env("operator", TRUE, "E", "none", "none", "none", {"base_url", "model"})}
Req(url, model, enabled, timeout, action) ==
  [sel |-> [f \in {"base_url", "model"} |-> IF f = "base_url" THEN url ELSE model],
   plain |-> [enabled |-> enabled, timeout |-> timeout], action |-> action]
MCRequests ==
  {Req("P", "P", "on", "Y", "keep"), Req("P", "P", "Y", "Y", "set"), Req("E", "P", "on", "E", "keep"),
   Req("X", "Y", "Y", "Y", "keep"), Req("Y", "Y", "Y", "Y", "clear"), Req("E", "Y", "Y", "Y", "keep")}

Sym == Permutations(Queries) \cup Permutations(Clients)
Init == /\ ServeInit /\ SettingsInit /\ part \in {"serving", "settings"}
        /\ part = "serving" => group = "generation" /\ env = CHOOSE e \in MCEnvs : e.strict
Next == \/ part = "serving" /\ ServeNext /\ UNCHANGED <<settingsVars, part>>
        \/ part = "settings" /\ SettingsNext /\ UNCHANGED <<serveVars, part>>
Spec == Init /\ [][Next]_<<serveVars, settingsVars, part>>

(* What was read before the decisive step still holds in it: the revision a *)
(* question is bound to, the key a save keeps, the locks a save respects.   *)
DecidedWhileCurrent ==
  [][BoundWhileCurrent /\ KeepKeepsKey /\ LockedIsNotOwned]_<<serveVars, settingsVars>>
=============================================================================
