--------------------------- MODULE ProductSettings ---------------------------
(***************************************************************************)
(* The settings a user edits in the product: a file between the operator's *)
(* YAML and the operator's environment, written by the settings routes and *)
(* read at the next start.  One group of settings is modelled, generation  *)
(* or authoring (they differ in the network policy, which only authoring   *)
(* stores).  Routes run in a thread pool, so two saves may overlap.        *)
(***************************************************************************)
CONSTANTS
  Selections, \* the fields with an approval list: base_url, model
  Texts,      \* what a field may hold; "none" when it is unset
  Envs,       \* the environments an operator may start the process with
  Clients,
  Requests    \* what a client may send: sel, plain, action on the key

Plain   == {"enabled", "timeout"}
Unowned == "none"

(* An environment: mode, strict_offline, the values it sets (sel, timeout, key, *)
(* policy; "none" when unset) and the fields whose approval list it sets.  A    *)
(* request gives every field a value (its schema has no optional one).          *)
Environments == [mode : {"user", "operator"}, strict : BOOLEAN, appr : SUBSET Selections,
                 sel : [Selections -> Texts], plain : [Plain -> Texts],
                 key : Texts, policy : Texts]
Actions == {"keep", "clear", "set"}
SaveRequests == [sel : [Selections -> Texts \ {Unowned}], plain : [Plain -> Texts \ {Unowned}],
                 action : Actions]
ASSUME SettingsAssumption ==
  /\ "base_url" \in Selections
  /\ {"none", "Y", "E", "P", "K", "omitted", "null", "local", "private", "forbidden"} \subseteq Texts
  /\ Envs \subseteq Environments /\ Requests \subseteq SaveRequests

NoKey   == "omitted"     \* the file leaves api_key to the layers below

VARIABLES
  group,  \* "generation" or "authoring"
  env,    \* the environment of the running process
  file,   \* the product settings file
  active, \* the settings the process loaded, or what stopped it
  save    \* each client's request

settingsVars == <<group, env, file, active, save>>

NoFile == [saved |-> FALSE, sel |-> [f \in Selections |-> Unowned], policy |-> Unowned,
           plain |-> [f \in Plain |-> Unowned], key |-> NoKey]

Over(low, high) == IF high = "none" THEN low ELSE high

(* --- config/loader.py ----------------------------------------------------- *)

(* The operator's YAML approves its own selections and the environment's. *)
Yaml == [sel |-> [f \in Selections |-> "Y"], approved |-> [f \in Selections |-> {"Y", "E"}],
         plain |-> [f \in Plain |-> "Y"], key |-> "Y", policy |-> "local"]

(* env_overrides, merged over the lower layers. *)
WithEnv(s, e) ==
  [s EXCEPT !.sel = [f \in Selections |-> Over(s.sel[f], e.sel[f])],
            !.approved = [f \in Selections |-> IF f \in e.appr THEN {"E", "P"} ELSE s.approved[f]],
            !.plain = [f \in Plain |-> Over(s.plain[f], e.plain[f])],
            !.key = Over(s.key, e.key), !.policy = Over(s.policy, e.policy)]

(* infer_authoring_network_policy: a public address has none. *)
infer_authoring_network_policy(url) == IF url = "P" THEN "private" ELSE "forbidden"

(* generation_overlay_from_product_settings: a present selection brings its *)
(* approval list along; an omitted api_key is left to the lower layers.      *)
generation_overlay(s, fl) ==
  IF ~fl.saved THEN s
  ELSE [s EXCEPT !.sel = [f \in Selections |-> Over(s.sel[f], fl.sel[f])],
                 !.approved = [f \in Selections |-> IF fl.sel[f] = Unowned THEN s.approved[f]
                                                    ELSE {fl.sel[f]}],
                 !.plain = [f \in Plain |-> Over(s.plain[f], fl.plain[f])],
                 !.key = IF fl.key = NoKey THEN s.key ELSE fl.key]

(* authoring_overlay_from_product_settings: the network policy too. *)
authoring_overlay(s, fl) ==
  [generation_overlay(s, fl) EXCEPT
     !.policy = IF fl.policy # Unowned THEN fl.policy
                ELSE IF fl.saved /\ fl.sel["base_url"] # Unowned
                THEN infer_authoring_network_policy(fl.sel["base_url"]) ELSE s.policy]

Overlay(g, s, fl) == IF g = "generation" THEN generation_overlay(s, fl) ELSE authoring_overlay(s, fl)

(* validate_endpoint_network_policy: a strict process takes no public endpoint (X). *)
PolicyAllows(strict, url) == ~(strict /\ url = "X")

(* load_settings: YAML < product < environment for an operator; the environment *)
(* only seeds the first start for a user.                                       *)
load_settings(g, e, fl) ==
  IF e.mode = "user" THEN Overlay(g, WithEnv(Yaml, e), fl)
  ELSE WithEnv(Overlay(g, Yaml, fl), e)
LoadFails(e, fl) == ~PolicyAllows(e.strict, fl.sel["base_url"])

(* generation_field_locks, authoring_field_locks. *)
Locks(e) ==
  IF e.mode = "user" THEN [sel |-> {}, plain |-> {}, key |-> FALSE, policy |-> FALSE]
  ELSE [sel |-> {f \in Selections : e.sel[f] # "none"} \cup e.appr,
        plain |-> {f \in Plain : e.plain[f] # "none"},
        key |-> e.key # "none", policy |-> e.policy # "none"]

(* --- api/settings.py, api/authoring_settings.py ---------------------------- *)

NoSave == [pc |-> "idle", action |-> "keep", record |-> NoFile, probed |-> FALSE,
           keySeen |-> NoKey, pending |-> Yaml]

SettingsInit ==
  /\ group \in {"generation", "authoring"} /\ env \in Envs /\ file = NoFile
  /\ active = [state |-> "up", s |-> load_settings(group, env, NoFile)]
  /\ save = [c \in Clients |-> NoSave]

(* Mutant: a kept bootstrap key is written down. *)
KeyPersisted(action, fl, act) ==
  CASE action = "keep"  -> IF fl.key # NoKey THEN fl.key ELSE act.key
    [] action = "clear" -> "null"
    [] action = "set"   -> "K"

(* _resolve_api_key_for_write with manage_api_key: keep leaves what the file *)
(* manages and writes no key the product does not manage.                    *)
KeyToWrite(action, fl, act) ==
  CASE action = "keep"  -> fl.key
    [] action = "clear" -> "null"
    [] action = "set"   -> "K"

(* _assert_unlocked: a locked field must be sent with its active value. *)
Unlocked(locks, req) ==
  /\ \A f \in locks.sel : req.sel[f] = active.s.sel[f]
  /\ \A f \in locks.plain : req.plain[f] = active.s.plain[f]
  /\ locks.key => req.action = "keep"

(* persist_base_url, persist_model: a locked selection is never written. *)
OwnedSelection(locks, req) == [f \in Selections |-> IF f \in locks.sel THEN Unowned ELSE req.sel[f]]

PersistPolicy(locks, sel) ==
  IF group = "generation" \/ locks.policy \/ sel["base_url"] = Unowned THEN Unowned
  ELSE infer_authoring_network_policy(sel["base_url"])

(* build_validated_product_record, build_validated_authoring_product_record. *)
Record(locks, req) ==
  LET sel == OwnedSelection(locks, req) IN
  [saved |-> TRUE, sel |-> sel, policy |-> PersistPolicy(locks, sel),
   plain |-> [f \in Plain |-> IF f \in locks.plain THEN active.s.plain[f] ELSE req.plain[f]],
   key |-> KeyToWrite(req.action, file, active.s)]

(* save_*_settings up to the probe: the locks, the existing key, the record. *)
BeginSave(c, req) ==
  LET locks == Locks(env)
      record == Record(locks, req) IN
  /\ active.state = "up" /\ save[c].pc = "idle"
  /\ \/ /\ Unlocked(locks, req) /\ PolicyAllows(env.strict, record.sel["base_url"])
        /\ record.policy # "forbidden"
        /\ save' = [save EXCEPT ![c] =
             [NoSave EXCEPT !.pc = "checked", !.action = req.action, !.record = record,
                            !.keySeen = file.key,
                            !.probed = req.plain["enabled"] = "on"
                                         /\ \E f \in Selections : record.sel[f] # Unowned]]
     \/ /\ ~Unlocked(locks, req) \/ ~PolicyAllows(env.strict, record.sel["base_url"])
             \/ record.policy = "forbidden"
        /\ save' = [save EXCEPT ![c] = [NoSave EXCEPT !.pc = "refused"]]
  /\ UNCHANGED <<group, env, file, active>>

(* _probe_approvals: a locked selection is probed against the operator's list. *)
ProbeApproved(c) ==
  \A f \in Selections : save[c].record.sel[f] = Unowned
                          => active.s.sel[f] \in active.s.approved[f]

(* _pending_effective_view: what the next start is announced to load. *)
_pending_effective_view(record) ==
  LET locks == Locks(env) IN
  [active.s EXCEPT
     !.sel = [f \in Selections |-> IF f \in locks.sel \/ record.sel[f] = Unowned
                                   THEN active.s.sel[f] ELSE record.sel[f]],
     !.plain = [f \in Plain |-> IF f \in locks.plain THEN active.s.plain[f] ELSE record.plain[f]],
     !.key = IF locks.key \/ record.key = NoKey THEN active.s.key ELSE record.key,
     !.policy = IF locks.policy \/ record.policy = Unowned THEN active.s.policy ELSE record.policy]

(* probe_*_settings of the record to be written: only when it enables a selection *)
(* of the product.                                                                *)
ProbePasses(c, ok) == ~save[c].probed \/ (ok /\ ProbeApproved(c))

(* The probe of the saved values, then the atomic write and the answer. *)
FinishSave(c, ok) ==
  /\ active.state = "up" /\ save[c].pc = "checked"
  /\ IF ~ProbePasses(c, ok)
     THEN /\ save' = [save EXCEPT ![c] = [NoSave EXCEPT !.pc = "refused"]]
          /\ UNCHANGED file
     ELSE /\ file' = save[c].record
          /\ save' = [save EXCEPT ![c].pc = "saved",
                                  ![c].pending = _pending_effective_view(save[c].record)]
  /\ UNCHANGED <<group, env, active>>

Answered(c) == /\ save[c].pc \in {"saved", "refused"}
               /\ save' = [save EXCEPT ![c] = NoSave]
               /\ UNCHANGED <<group, env, file, active>>

(* The operator restarts the process, with the same environment or another. *)
Restart(e) ==
  /\ env' = e /\ save' = [c \in Clients |-> NoSave]
  /\ active' = IF LoadFails(e, file) THEN [state |-> "config_error", s |-> Yaml]
               ELSE [state |-> "up", s |-> load_settings(group, e, file)]
  /\ UNCHANGED <<group, file>>

SettingsNext ==
  \/ \E c \in Clients : \/ \E req \in Requests : BeginSave(c, req)
                        \/ \E ok \in BOOLEAN : FinishSave(c, ok)
                        \/ Answered(c)
  \/ \E e \in Envs : Restart(e)

SettingsSpec == SettingsInit /\ [][SettingsNext]_settingsVars

-----------------------------------------------------------------------------

(* The operator locks a field without giving it a value (an approval list), or   *)
(* locks the endpoint and not the policy stored with it: the active value may be *)
(* one an earlier save left in the file.                                         *)
ApprovalOnly(f) == env.mode = "operator" /\ f \in env.appr /\ env.sel[f] = "none"
PolicyOrphaned == "base_url" \in Locks(env).sel /\ ~Locks(env).policy

(* A save announces exactly what the next start with this environment loads:    *)
(* values, key and policy ("shadowed product values are never presented *)
(* as becoming active").  The exception are values of the file under a lock that *)
(* came later: the save drops them from the file and announces them as staying. *)
PendingIsLoaded ==
  \A c \in Clients : save[c].pc = "saved" =>
    LET next == load_settings(group, env, save[c].record)
        told == save[c].pending IN
    /\ next.plain = told.plain /\ next.key = told.key
    /\ \A f \in Selections : ApprovalOnly(f) \/ next.sel[f] = told.sel[f]
    /\ PolicyOrphaned \/ next.policy = told.policy

(* A selection that passed the probe is one the next start approves, whoever *)
(* owns the other selection (_probe_approvals).                              *)
ProbedIsApproved ==
  \A c \in Clients : save[c].pc = "saved" /\ save[c].probed =>
    LET next == load_settings(group, env, save[c].record) IN
    \A f \in Selections : \/ ApprovalOnly(f) \/ next.sel[f] \in next.approved[f]
                          \/ save[c].record.sel[f] = Unowned

(* A file written by the product stops the process only under a stricter policy *)
(* than the one it was written under, and then by no other way than the operator *)
(* (ConfigError of load_settings).                                               *)
OwnFileLoads ==
  (active.state = "config_error") = (env.strict /\ file.sel["base_url"] = "X")

(* The operator's keys never reach the product file. *)
BootstrapKeyNotWritten == file.key \in {NoKey, "null", "K"}

(* A save that keeps the key changes the managed key only if another save was  *)
(* written since it read the file.                                             *)
KeepKeepsKey ==
  \A c \in Clients : save[c].pc = "checked" /\ save'[c].pc = "saved" /\ save[c].action = "keep"
    => (file.key = save[c].keySeen => file'.key = file.key)

(* A locked selection is decided by the operator alone: a save, even of the      *)
(* active value, leaves no claim of the product on it.                           *)
LockedIsNotOwned ==
  \A c \in Clients : save[c].pc = "checked" /\ save'[c].pc = "saved"
    => \A f \in Locks(env).sel : file'.sel[f] = Unowned

(* What a save announces and what it probed is what the next start loads,   *)
(* under the operator's locks and keys, and a file the product wrote stops  *)
(* no start.                                                                *)
SettingsAreSound ==
  PendingIsLoaded /\ ProbedIsApproved /\ OwnFileLoads /\ BootstrapKeyNotWritten
=============================================================================
