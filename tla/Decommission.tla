---------------------------- MODULE Decommission ----------------------------
(* decommission_lpar (operations/lpar/decommission.py): inventory one        *)
(* partition, authorize its removal, power it off, detach its vSCSI mappings *)
(* and its adapters and delete it, while other agents of the HMC own,        *)
(* activate, rename, rewire and map what they please between two requests.   *)
(*                                                                           *)
(* Every request of the workflow is one step.  A write that is not answered  *)
(* may or may not have been carried out.  Mappings and adapters are worked   *)
(* off in any order: the code sorts them, and no property depends on it.     *)
EXTENDS Naturals, FiniteSets

CONSTANTS
  Adapter,   \* adapter UUIDs the partition may have
  Mapping,   \* vSCSI mapping identities, <server adapter>/<target device>
  Turns      \* bound: changes that other agents make

ASSUME TurnsAssumption == Turns \in Nat

\* UUIDs, mapping identities and step names are told apart.
Step == {"power_off", "detach_storage_mappings", "detach_adapters", "delete_lpar"}

ASSUME NamesAssumption ==
  /\ Adapter \cap Mapping = {} /\ (Adapter \cup Mapping) \cap Step = {}
  /\ "none" \notin Mapping

VARIABLES
  (* the call *)
  dryRun, override,  \* dry_run and ownership_override
  pc,                \* the request to make next
  inv,               \* _Inventory: state, adapters, vscsi_detaches
  todo,              \* what the current loop has left to remove
  cur, view,         \* the mapping being detached, the mappings its GET returned
  detached, failed,  \* the records of _detach_storage_mappings
  unplugged,         \* the records of _detach_adapters
  steps, ending,     \* the step statuses and how the call ended
  (* the HMC *)
  power, owner, exists,  \* the partition: its state, the stamp in its description
  bearer,            \* who bears the name _inventory captured: the target, nobody, or
                     \* another partition, of which only its stamp matters
  adapters,          \* its adapters
  client,            \* the client of each mapping of the VIOS
  fresh,             \* the ETag of the last mapping GET still matches
  job,               \* the PowerOff job
  (* history *)
  sent,              \* the mappings, adapters and steps a write was sent for
  removed,           \* the mappings and adapters our writes removed
  collateral,        \* mappings our writes changed beside the one they name
  touched,           \* what other agents changed since it was inventoried
  seized, woken,     \* the phase in which another agent took or activated the partition
  bore,              \* the partition bore its name when the phase was authorized
  turns

call    == <<dryRun, override, pc, inv, todo, cur, view, detached, failed, unplugged, steps, ending>>
hmc     == <<power, owner, bearer, exists, adapters, client, fresh, job>>
history == <<sent, removed, collateral, touched, seized, woken, bore>>
vars    == <<call, hmc, history, turns>>

\* What a description says of its partition's owner.
Stamps == {"mine", "unstamped", "foreign", "malformed"}

Rank == [power_off |-> 1, detach_storage_mappings |-> 2, detach_adapters |-> 3, delete_lpar |-> 4]
Never == 9    \* no phase

\* The partition is resolved and its name read (resolve_lpar_ownership_names).
Init ==
  /\ dryRun \in BOOLEAN /\ override \in BOOLEAN
  /\ pc = "authorize" /\ inv = [state |-> "none", adapters |-> {}, detaches |-> {}]
  /\ todo = {} /\ cur = "none" /\ view = [m \in Mapping |-> "absent"]
  /\ detached = {} /\ failed = {} /\ unplugged = {}
  /\ steps = [s \in Step |-> "none"] /\ ending = "none"
  /\ power \in {"activated", "not activated"}
  /\ owner \in Stamps /\ bearer = "target" /\ exists = TRUE
  /\ adapters \in SUBSET Adapter /\ client \in [Mapping -> {"absent", "target", "other"}]
  /\ fresh = FALSE /\ job = "none"
  /\ sent = {} /\ removed = {} /\ collateral = {} /\ touched = {}
  /\ seized = (IF owner \in {"foreign", "malformed"} THEN 0 ELSE Never)
  /\ woken = (IF power = "activated" THEN 0 ELSE Never) /\ bore = TRUE
  /\ turns = 0

-----------------------------------------------------------------------------
(* How the call ends.                                                        *)

\* An exception leaves decommission_lpar: no result reaches the caller.
Raises == pc' = "done" /\ ending' = "raised" /\ UNCHANGED steps

\* Mutant: every step but the failed one is skipped.
StopsAll(s) ==
  /\ pc' = "done" /\ ending' = "incomplete"
  /\ steps' = [t \in Step |-> IF t = s THEN "error" ELSE "skipped"]

\* _incomplete_result: step s failed and every later one is skipped.
Stops(s) ==
  /\ pc' = "done" /\ ending' = "incomplete"
  /\ steps' = [t \in Step |-> IF Rank[t] < Rank[s] THEN steps[t]
                              ELSE IF t = s THEN "error" ELSE "skipped"]

\* Mutant: a status the workflow does not have.
PassesOther(s, next) ==
  /\ pc' = next /\ steps' = [steps EXCEPT ![s] = "completed"] /\ UNCHANGED ending

Passes(s, next) ==
  /\ pc' = next /\ steps' = [steps EXCEPT ![s] = "ok"] /\ UNCHANGED ending

Goes(next) == pc' = next /\ UNCHANGED <<steps, ending>>

-----------------------------------------------------------------------------
(* The reads.  Each may fail.                                                *)

\* authorize_decommission_lpar_ownership_snapshot: the description is read of whatever
\* bears the captured name now; that nothing does is an error.
Description ==
  IF bearer = "target" THEN {s \in {owner} : exists} ELSE {bearer} \ {"nobody"}

\* authorize_lpar_ownership_description: a stamp of someone else or a malformed
\* one refuses, no stamp permits, an approved override permits everything.
Authorized == \E stamp \in Description : override \/ stamp \in {"mine", "unstamped"}

Looks == UNCHANGED <<dryRun, override, cur, detached, failed, unplugged, hmc,
                     sent, removed, collateral, touched, seized, woken, turns>>

\* _resolve_inventory_identity, and every authorization that may raise.
Authorize ==
  /\ pc \in {"authorize", "authorize_power", "authorize_mappings"}
  /\ \/ /\ Authorized
        /\ Goes(CASE pc = "authorize" -> "snapshot"
                  [] pc = "authorize_power" -> "submit"
                  [] pc = "authorize_mappings" -> "check_mappings")
     \/ Raises
  /\ bore' = (bearer = "target")
  /\ UNCHANGED <<inv, todo, view>> /\ Looks

\* _partition_snapshot
Snapshot ==
  /\ pc = "snapshot"
  /\ \/ exists /\ inv' = [inv EXCEPT !.state = power] /\ Goes("list_adapters")
     \/ Raises /\ UNCHANGED inv
  /\ UNCHANGED <<todo, view, bore>> /\ Looks

\* _inventory_adapters: complete, or an error.
ListAdapters ==
  /\ pc = "list_adapters"
  /\ \/ exists /\ inv' = [inv EXCEPT !.adapters = adapters] /\ Goes("list_mappings")
     \/ Raises /\ UNCHANGED inv
  /\ UNCHANGED <<todo, view, bore>> /\ Looks

Targets == {m \in Mapping : client[m] = "target"}

\* Mutant: what could not be read is ignored once something could.
StartsPartial(found, complete) ==
  IF dryRun
  THEN /\ pc' = "done" /\ ending' = "dry_run" /\ steps' = [s \in Step |-> "dry_run"]
  ELSE IF ~complete /\ found = {}
  THEN /\ pc' = "done" /\ ending' = "incomplete"
       /\ steps' = [s \in Step |-> IF s = "detach_storage_mappings" THEN "error" ELSE "skipped"]
  ELSE IF inv.state = "not activated" THEN Passes("power_off", "authorize_mappings")
  ELSE Goes("authorize_power")

\* decommission_lpar after the inventory: a preview, a refusal or the first step.
Starts(found, complete) ==
  IF dryRun
  THEN /\ pc' = "done" /\ ending' = "dry_run" /\ steps' = [s \in Step |-> "dry_run"]
  ELSE IF ~complete
  THEN /\ pc' = "done" /\ ending' = "incomplete"
       /\ steps' = [s \in Step |-> IF s = "detach_storage_mappings" THEN "error" ELSE "skipped"]
  ELSE IF inv.state = "not activated" THEN Passes("power_off", "authorize_mappings")
  ELSE Goes("authorize_power")

\* _inventory_storage_mappings: a VIOS that cannot be read or a mapping that
\* cannot be attributed leaves an error beside what was found.
ListMappings ==
  /\ pc = "list_mappings"
  /\ \E found \in SUBSET Targets, complete \in BOOLEAN :
       /\ complete => found = Targets
       /\ inv' = [inv EXCEPT !.detaches = found]
       /\ Starts(found, complete)
  /\ UNCHANGED <<todo, view, bore>> /\ Looks

\* _detach_state_error before the mappings and again before the adapters.
CheckState ==
  /\ pc \in {"check_mappings", "check_adapters"}
  /\ IF pc = "check_mappings"
     THEN \/ /\ exists /\ power = "not activated"
             /\ Goes("get") /\ todo' = inv.detaches
          \/ Stops("detach_storage_mappings") /\ UNCHANGED todo
     ELSE /\ UNCHANGED todo
          /\ \/ exists /\ power = "not activated" /\ Goes("authorize_adapters")
             \/ Stops("detach_adapters")
  /\ UNCHANGED <<inv, view, bore>> /\ Looks

\* Mutant: the authorization of the mappings is trusted for the adapters.
AuthorizeAdaptersOnce ==
  /\ pc = "authorize_adapters" /\ Goes("refresh")
  /\ UNCHANGED <<inv, todo, view, bore>> /\ Looks

\* The last authorization, whose refusal is reported as a failed step.
AuthorizeAdapters ==
  /\ pc = "authorize_adapters"
  /\ \/ Authorized /\ Goes("refresh")
     \/ Stops("detach_adapters")
  /\ bore' = (bearer = "target")
  /\ UNCHANGED <<inv, todo, view>> /\ Looks

\* The adapter inventory is read again; an adapter not in the first one refuses.
Refresh ==
  /\ pc = "refresh"
  /\ \/ exists /\ adapters \subseteq inv.adapters /\ todo' = adapters /\ Goes("unplug")
     \/ Stops("detach_adapters") /\ UNCHANGED todo
  /\ UNCHANGED <<inv, view, bore>> /\ Looks

-----------------------------------------------------------------------------
(* The writes.                                                               *)

\* _power_off: a submission that raises may have reached the HMC.
Submit ==
  /\ pc = "submit"
  /\ \/ exists /\ job' = "running" /\ Goes("await")
     \/ exists /\ job' = "running" /\ Stops("power_off")
     \/ UNCHANGED job /\ Stops("power_off")
  /\ sent' = sent \cup {"power_off"}
  /\ UNCHANGED <<dryRun, override, inv, todo, cur, view, detached, failed, unplugged,
                 power, owner, bearer, exists, adapters, client, fresh,
                 removed, collateral, touched, seized, woken, bore, turns>>

\* The wait ends with the job, with its deadline or with a failed read.
Await ==
  /\ pc = "await"
  /\ \/ job = "completed" /\ Passes("power_off", "authorize_mappings")
     \/ Stops("power_off")
  /\ UNCHANGED <<inv, todo, view, bore>> /\ Looks

\* delete_storage_mapping reads the VIOS: one mapping of that identity must be
\* there and belong to the partition.
GetMappings ==
  /\ pc = "get"
  /\ IF todo = {}
     THEN /\ Passes("detach_storage_mappings", "check_adapters")
          /\ UNCHANGED <<todo, cur, view, failed, fresh>>
     ELSE \E m \in todo :
            \/ /\ client[m] = "target"
               /\ cur' = m /\ view' = client /\ fresh' = TRUE /\ todo' = todo \ {m}
               /\ Goes("post") /\ UNCHANGED failed
            \/ /\ failed' = {m} /\ Stops("detach_storage_mappings")
               /\ UNCHANGED <<todo, cur, view, fresh>>
  /\ UNCHANGED <<dryRun, override, inv, detached, unplugged, power, owner, bearer, exists, adapters,
                 client, job, history, turns>>

\* Mutant: the document is posted without If-Match.
WritesUnconditional ==
  /\ client' = [view EXCEPT ![cur] = "absent"]
  /\ removed' = removed \cup {cur}
  /\ collateral' = collateral \cup {m \in Mapping \ {cur} : view[m] # client[m]}

\* _rmw_vios_mapping posts the whole collection it read, under If-Match.
Writes ==
  /\ fresh
  /\ client' = [view EXCEPT ![cur] = "absent"]
  /\ removed' = removed \cup {cur}
  /\ collateral' = collateral \cup {m \in Mapping \ {cur} : view[m] # client[m]}

PostMappings ==
  /\ pc = "post"
  /\ sent' = sent \cup {cur} /\ fresh' = FALSE
  /\ \/ /\ Writes
        /\ detached' = detached \cup {cur} /\ Goes("get") /\ UNCHANGED failed
     \/ /\ Writes \/ UNCHANGED <<client, removed, collateral>>
        /\ failed' = {cur} /\ Stops("detach_storage_mappings") /\ UNCHANGED detached
  /\ cur' = "none"
  /\ UNCHANGED <<dryRun, override, inv, todo, view, unplugged, power, owner, bearer, exists, adapters, job,
                 touched, seized, woken, bore, turns>>

\* _detach_adapters: the first deletion that fails ends the call.
Unplug ==
  /\ pc = "unplug"
  /\ IF todo = {}
     THEN Passes("detach_adapters", "delete") /\ UNCHANGED <<todo, adapters, unplugged, sent, removed>>
     ELSE \E a \in todo :
            /\ sent' = sent \cup {a} /\ todo' = todo \ {a}
            /\ \/ /\ a \in adapters /\ adapters' = adapters \ {a} /\ removed' = removed \cup {a}
                  /\ unplugged' = unplugged \cup {a} /\ Goes("unplug")
               \/ /\ \/ UNCHANGED <<adapters, removed>>
                     \/ adapters' = adapters \ {a} /\ removed' = removed \cup {a}
                  /\ Stops("detach_adapters") /\ UNCHANGED unplugged
  /\ UNCHANGED <<dryRun, override, inv, cur, view, detached, failed, power, owner, bearer, exists,
                 client, fresh, job, collateral, touched, seized, woken, bore, turns>>

\* _delete_lpar_step; the HMC refuses to delete an activated partition.
DeleteLpar ==
  /\ pc = "delete"
  /\ sent' = sent \cup {"delete_lpar"}
  /\ \/ /\ exists /\ power = "not activated" /\ exists' = FALSE
        /\ pc' = "done" /\ ending' = "complete" /\ steps' = [steps EXCEPT !["delete_lpar"] = "ok"]
     \/ /\ \/ UNCHANGED exists
           \/ power = "not activated" /\ exists' = FALSE
        /\ Stops("delete_lpar")
  /\ UNCHANGED <<dryRun, override, inv, todo, cur, view, detached, failed, unplugged, power, owner, bearer,
                 adapters, client, fresh, job, removed, collateral, touched, seized, woken, bore, turns>>

Work == \/ Authorize \/ Snapshot \/ ListAdapters \/ ListMappings \/ CheckState
        \/ AuthorizeAdapters \/ Refresh
        \/ Submit \/ Await \/ GetMappings \/ PostMappings \/ Unplug \/ DeleteLpar

-----------------------------------------------------------------------------
(* The HMC and its other users.                                              *)

\* The phase an authorization opens lasts until the next authorization.
OwnerPhase ==
  CASE pc \in {"authorize", "snapshot", "list_adapters", "list_mappings", "authorize_power"} -> 0
    [] pc \in {"submit", "await", "authorize_mappings"} -> 1
    [] pc \in {"check_mappings", "get", "post", "check_adapters", "authorize_adapters"} -> 2
    [] pc \in {"refresh", "unplug", "delete", "done"} -> 3

\* The phase a state check opens lasts until the next state check.
PowerPhase ==
  CASE pc \in {"get", "post", "check_adapters"} -> 2
    [] pc \in {"authorize_adapters", "refresh", "unplug", "delete", "done"} -> 3
    [] OTHER -> 1

Turn   == turns < Turns /\ turns' = turns + 1 /\ pc # "done"
Others == Turn /\ exists

Restamp ==
  /\ Others
  /\ owner' \in Stamps \ {owner}
  /\ seized' = IF owner' \in {"mine", "unstamped"} THEN Never
               ELSE IF seized = Never THEN OwnerPhase ELSE seized
  /\ UNCHANGED <<call, power, bearer, exists, adapters, client, fresh, job, sent, removed, collateral,
                 touched, woken, bore>>

\* Others rename the partition, give its name to another one or take it back, all
\* between two requests: no two partitions of a system have one name.
Rename ==
  /\ Turn
  /\ bearer' \in {"target", "nobody", "mine", "foreign"} \ {bearer}
  /\ UNCHANGED <<call, power, owner, exists, adapters, client, fresh, job, history>>

Activate ==
  /\ Others
  /\ power = "not activated" /\ power' = "activated" /\ woken' = PowerPhase
  /\ UNCHANGED <<call, owner, bearer, exists, adapters, client, fresh, job, sent, removed, collateral,
                 touched, seized, bore>>

Replug ==
  /\ Others
  /\ \E a \in Adapter :
       /\ adapters' = IF a \in adapters THEN adapters \ {a} ELSE adapters \cup {a}
       /\ touched' = IF pc \in {"authorize", "snapshot", "list_adapters"} THEN touched
                     ELSE touched \cup {a}
  /\ UNCHANGED <<call, power, owner, bearer, exists, client, fresh, job, sent, removed, collateral,
                 seized, woken, bore>>

Remap ==
  /\ Others
  /\ \E m \in Mapping, c \in {"absent", "target", "other"} :
       /\ client[m] # c /\ client' = [client EXCEPT ![m] = c]
       /\ touched' = IF pc \in {"authorize", "snapshot", "list_adapters", "list_mappings"} THEN touched
                     ELSE touched \cup {m}
  /\ fresh' = FALSE
  /\ UNCHANGED <<call, power, owner, bearer, exists, adapters, job, sent, removed, collateral,
                 seized, woken, bore>>

\* Someone else deletes the partition and with it its adapters.
Vanish ==
  /\ Others
  /\ power = "not activated" /\ exists' = FALSE /\ adapters' = {}
  /\ UNCHANGED <<call, power, owner, bearer, client, fresh, job, history>>

\* The PowerOff job ends, perhaps after the workflow stopped waiting for it.
JobEnds ==
  /\ job = "running"
  /\ \/ job' = "completed" /\ power' = "not activated" /\ woken' = Never
     \/ job' = "failed" /\ UNCHANGED <<power, woken>>
  /\ UNCHANGED <<call, owner, bearer, exists, adapters, client, fresh, sent, removed, collateral,
                 touched, seized, bore, turns>>

Next == Work \/ Restamp \/ Rename \/ Activate \/ Replug \/ Remap \/ Vanish \/ JobEnds

Spec == Init /\ [][Next]_vars

-----------------------------------------------------------------------------
(* Properties.                                                               *)

\* The variables of the call, of the HMC and of the history have their types.
PCs == {"authorize", "snapshot", "list_adapters", "list_mappings", "authorize_power", "submit",
        "await", "authorize_mappings", "check_mappings", "get", "post", "check_adapters",
        "authorize_adapters", "refresh", "unplug", "delete", "done"}

ResultType ==
  /\ pc \in PCs
  /\ steps \in [Step -> {"none", "ok", "error", "skipped", "dry_run"}]
  /\ ending \in {"none", "dry_run", "incomplete", "complete", "raised"}

CallType ==
  /\ dryRun \in BOOLEAN /\ override \in BOOLEAN
  /\ inv \in [state : {"none", "activated", "not activated"}, adapters : SUBSET Adapter,
              detaches : SUBSET Mapping]
  /\ todo \subseteq Adapter \cup Mapping /\ cur \in Mapping \cup {"none"}
  /\ view \in [Mapping -> {"absent", "target", "other"}]
  /\ detached \subseteq Mapping /\ failed \subseteq Mapping /\ unplugged \subseteq Adapter

HmcType ==
  /\ power \in {"activated", "not activated"} /\ exists \in BOOLEAN /\ fresh \in BOOLEAN
  /\ owner \in Stamps /\ bearer \in Stamps \cup {"target", "nobody"}
  /\ adapters \subseteq Adapter /\ client \in [Mapping -> {"absent", "target", "other"}]
  /\ job \in {"none", "running", "completed", "failed"}

HistoryType ==
  /\ sent \subseteq Mapping \cup Adapter \cup Step /\ removed \subseteq Mapping \cup Adapter
  /\ collateral \subseteq Mapping /\ touched \subseteq Mapping \cup Adapter

PhaseType ==
  seized \in {0, 1, 2, 3, Never} /\ woken \in {0, 1, 2, 3, Never} /\ bore \in BOOLEAN /\ turns \in 0..Turns

\* Every variable has its type.
TypeOK == ResultType /\ CallType /\ HmcType /\ HistoryType /\ PhaseType

\* A partition another agent stamped before a phase was authorized is not touched
\* in that phase: power-off, detach and deletion each look at the stamp anew.  They
\* look by name and write by UUID, so this is promised only to a partition that
\* bore its name when they looked.
StopsWhenSeized ==
  pc \in {"submit", "get", "post", "unplug", "delete"} /\ ~override /\ bore =>
    seized >= OwnerPhase

\* Nothing is detached from a partition that ran when the phase's state check was
\* made, however its power-off job ended or whoever activated it again.
StopsWhenWoken == pc \in {"get", "post", "unplug", "delete"} => woken >= PowerPhase

\* What happened to the partition before a phase looked at it stops the phase: a
\* seizure before it was authorized under its name, an activation before its state
\* check.
StopsInTime == StopsWhenSeized /\ StopsWhenWoken

\* The writes remove what the first inventory authorized and change nothing else:
\* no mapping of another client, made or changed meanwhile, and no new adapter.
OnlyInventoried ==
  collateral = {} /\ sent \subseteq inv.detaches \cup inv.adapters \cup Step

\* The partition is deleted bare: every mapping and adapter it had at the inventory
\* is gone before, unless another agent changed it since, so no VIOS keeps a
\* mapping whose client, the only authority to detach it, no longer exists.
BareWhenDeleted == pc = "delete" => Targets \cup adapters \subseteq touched

\* What the result of mapping m says (_build_decommission_result).
Disposition(m) ==
  IF m \in detached THEN "detached"
  ELSE IF m \in failed THEN "failed"
  ELSE IF dryRun THEN "planned detach"
  ELSE "retained"

\* What a skipped or previewed step would have sent.
Attempted(s) ==
  CASE s = "detach_storage_mappings" -> sent \cap Mapping # {}
    [] s = "detach_adapters" -> sent \cap Adapter # {}
    [] OTHER -> s \in sent

\* The report tells what happened: a mapping or adapter it calls detached was
\* removed, a mapping it calls retained or planned was not touched, and a skipped
\* or previewed step sent nothing.
Truthful ==
  ending \in {"dry_run", "incomplete", "complete"} =>
    /\ \A m \in inv.detaches :
         /\ Disposition(m) = "detached" => m \in removed
         /\ Disposition(m) \in {"retained", "planned detach"} => m \notin sent
    /\ unplugged \subseteq removed
    /\ \A s \in Step : steps[s] \in {"skipped", "dry_run"} => ~Attempted(s)

\* ADR 0027 (docs/adr/0027-safe-lpar-decommission-workflow.md): "Partial teardown
\* remains possible and is reported for manual recovery."
PartialReported == ending = "raised" => sent = {}
=============================================================================
