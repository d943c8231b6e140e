---------------------------- MODULE LparWorkflow ----------------------------
(* The workflows that create or change a partition in several steps and      *)
(* report each of them (operations/lpar/provision.py, workflows.py, dlpar.py *)
(* and assignments.py, over core.py's create_and_stamp_lpar): provision_lpar,*)
(* create_lpar, attach_disk_to_lpar, modify_lpar and                         *)
(* apply_lpar_pcie_assignments.  Nothing is rolled back, so the report is    *)
(* all a caller has to go on.                                                *)
(*                                                                           *)
(* Some steps name the partition by its UUID, others look its name up again; *)
(* meanwhile anybody else may rename, stamp or delete it.  A step's command  *)
(* may fail after it took effect.                                            *)
EXTENDS Naturals, Sequences, SequencesExt, FiniteSets

CONSTANTS
  MaxAssignments,  \* bound: PCIe assignments in a request
  Others           \* bound: changes made by anybody else

WorkflowAssumption == MaxAssignments \in Nat /\ Others \in Nat

VARIABLES
  (* the HMC *)
  exists,     \* the partition the workflow is about is there
  named,      \* whose the partition is that has the requested name: "it", "another", "none"
  stamp,      \* its ownership stamp: "none", "own", "foreign"
  done,       \* steps whose change was made
  (* the workflow *)
  req, pc, plan, steps,
  made,       \* _create_via_cli or the REST create made the partition
  body,       \* the create returned the partition with its UUID
  stamped,    \* ownership_stamped: "yes", "no", or "null"
  (* its end *)
  result,     \* "none", "returned", "dry_run", "refused", "raised"
  completed, created,
  others

hmc   == <<exists, named, stamp>>
state == <<done, req, plan, steps, made, body, stamped>>
ends  == <<result, completed, created>>
vars  == <<hmc, state, pc, ends, others>>

-----------------------------------------------------------------------------
(* Requests and their steps.                                                 *)

Request ==
  [op : {"provision", "create"}, assignments : 0..MaxAssignments, policy : BOOLEAN, power : BOOLEAN,
   assess : BOOLEAN, rest : BOOLEAN, apply : {"null", "yes", "no"},
   required : BOOLEAN, dry : BOOLEAN, rename : {FALSE}, resources : {FALSE}]
  \cup
  [op : {"attach", "modify", "assign"}, assignments : 0..MaxAssignments, policy : {FALSE}, power : {FALSE},
   assess : {FALSE}, rest : {FALSE}, apply : {"null"}, required : {FALSE}, dry : BOOLEAN,
   rename : BOOLEAN, resources : BOOLEAN]

\* What each operation's signature can ask for.
Askable(r) ==
  /\ r.op = "provision" => r.apply = "yes" /\ ~r.required
  /\ r.op = "create" => ~r.policy /\ ~r.power /\ ~r.assess /\ ~r.dry
  /\ r.op = "attach" => r.assignments = 0 /\ ~r.rename /\ ~r.resources
  /\ r.op = "modify" => ~r.dry
  /\ r.op = "assign" => ~r.rename /\ ~r.resources

assignment_step_names(r) == [i \in 1..r.assignments |-> <<"assignment", i>>]
Step(name) == <<name, 0>>

When(b, s) == IF b THEN <<s>> ELSE <<>>

\* _provision_step_names, attach_disk_to_lpar's step_names, and the order in which
\* create_lpar and modify_lpar append theirs.
_provision_step_names(r) ==
  <<Step("create")>> \o When(r.policy, Step("minimum_affinity_policy"))
    \o <<Step("network"), Step("storage")>> \o assignment_step_names(r)
    \o When(r.power, Step("power_on")) \o When(r.assess, Step("affinity_assessment"))

StepNames(r) ==
  CASE r.op = "provision" -> _provision_step_names(r)
    [] r.op = "create"    -> <<Step("create")>> \o assignment_step_names(r)
    [] r.op = "attach"    -> <<Step("create_disk"), Step("storage")>>
    [] r.op = "assign"    -> assignment_step_names(r)
    [] r.op = "modify"    -> When(r.rename, Step("rename")) \o When(r.resources, Step("resources"))
                               \o assignment_step_names(r)

Rec(s, status) == [step |-> s, status |-> status]
Marked(names, status) == [i \in 1..Len(names) |-> Rec(names[i], status)]
Rest(names, n) == SubSeq(names, n + 1, Len(names))

-----------------------------------------------------------------------------
(* How a workflow ends.                                                      *)

Ends(how, ok, made_) == pc' = "done" /\ result' = how /\ completed' = ok /\ created' = made_

\* _failed_provision_result, and the skips of the other workflows: what is left of
\* the plan is skipped.
Fails(recorded, names) ==
  /\ steps' = recorded \o Marked(Rest(names, Len(recorded)), "skipped")
  /\ Ends("returned", FALSE, made')

Raises == Ends("raised", FALSE, FALSE) /\ UNCHANGED steps

-----------------------------------------------------------------------------
(* Preflight.                                                                *)

\* Validation, name, VLAN, volume group, capability and PCIe inventory: read, and
\* refused where they do not fit.  A workflow on a partition that is there also
\* needs its owner's leave.
Refuse ==
  /\ pc = "preflight" /\ Ends("refused", FALSE, FALSE)
  /\ UNCHANGED <<hmc, state, others>>

DryRun ==
  /\ pc = "preflight" /\ req.dry
  /\ steps' = Marked(plan, "dry_run") /\ Ends("dry_run", FALSE, FALSE)
  /\ UNCHANGED <<hmc, done, req, plan, made, body, stamped, others>>

Creates == req.op \in {"provision", "create"}

Go ==
  /\ pc = "preflight" /\ ~req.dry
  /\ IF Creates THEN named = "none" /\ pc' = IF req.rest THEN "rest" ELSE "cli"
     ELSE pc' = "legs" /\ (req.op = "assign" \/ (exists /\ named = "it" /\ stamp # "foreign"))
  /\ UNCHANGED <<hmc, state, ends, others>>

-----------------------------------------------------------------------------
(* create_and_stamp_lpar.                                                    *)

Appears == exists' = TRUE /\ named' = (IF named = "none" THEN "it" ELSE named) /\ stamp' = "none"

\* The name was taken after the preflight looked: the HMC refuses it.
RestCreated(answered) ==
  /\ pc = "rest" /\ named = "none" /\ Appears /\ made' = TRUE /\ body' = answered
  /\ pc' = IF answered THEN "stamp" ELSE "judge"
  /\ steps' = steps \o When(req.apply = "yes", Rec(Step("apply_profile"), "skipped"))
  /\ UNCHANGED <<done, req, plan, stamped, ends, others>>

\* 406, or 400 REST0001: refused before anything was made; mksyscfg may do it.
RestRefused ==
  /\ pc = "rest" /\ pc' = "cli"
  /\ UNCHANGED <<hmc, state, ends, others>>

\* Any other failure of the create ends the workflow: provision reports it,
\* create_lpar raises it.  The partition may have been made all the same.
CreateFails ==
  /\ pc \in {"rest", "cli"} /\ UNCHANGED <<made, body>>
  /\ (named = "none" /\ Appears) \/ UNCHANGED hmc
  /\ IF req.op = "provision" THEN Fails(<<Rec(Step("create"), "error")>>, plan) ELSE Raises
  /\ UNCHANGED <<done, req, plan, stamped, others>>

_create_via_cli ==
  /\ pc = "cli" /\ named = "none" /\ Appears
  /\ made' = TRUE /\ pc' = IF req.apply = "null" THEN "readback" ELSE "apply"
  /\ UNCHANGED <<done, req, plan, steps, body, stamped, ends, others>>

\* A profile that could not be applied is a step of its own, and stops what follows.
_apply_created_profile == \E ok \in BOOLEAN, took \in BOOLEAN :
  /\ pc = "apply" /\ pc' = "readback"
  /\ IF req.apply = "no" THEN UNCHANGED done /\ steps' = Append(steps, Rec(Step("apply_profile"), "skipped"))
     ELSE /\ ok => took
          /\ done' = done \cup (IF took THEN {Step("apply_profile")} ELSE {})
          /\ steps' = Append(steps, Rec(Step("apply_profile"), IF ok THEN "ok" ELSE "error"))
  /\ UNCHANGED <<hmc, req, plan, made, body, stamped, ends, others>>

\* Found again by its name, or not.
ReadBack ==
  /\ pc = "readback"
  /\ \/ named # "none" /\ body' = TRUE /\ pc' = "stamp"
     \/ body' = FALSE /\ pc' = "judge"
  /\ UNCHANGED <<hmc, done, req, plan, steps, made, stamped, ends, others>>

\* stamp_created_lpar_ownership, best effort: written, failed, or not tried.
Stamp == \E tried \in BOOLEAN, ok \in BOOLEAN :
  /\ pc = "stamp" /\ pc' = "judge"
  /\ stamped' = (IF ~tried THEN "null" ELSE IF ok THEN "yes" ELSE "no")
  /\ stamp' = (IF tried /\ ok /\ named = "it" THEN "own" ELSE stamp)
  /\ UNCHANGED <<exists, named, done, req, plan, steps, made, body, ends, others>>

Applied == \A i \in 1..Len(steps) : steps[i].status # "error"

\* Mutant: the apply step is recorded but not put into the plan.
JudgeUninserted ==
  LET recorded == <<Rec(Step("create"), IF body \/ req.op = "create" THEN "ok" ELSE "error")>> \o steps
  IN /\ pc = "judge" /\ UNCHANGED plan
     /\ UNCHANGED <<hmc, done, req, made, body, stamped, others>>
     /\ IF req.required /\ stamped # "yes" THEN Raises
        ELSE IF ~body \/ ~Applied THEN Fails(recorded, plan)
        ELSE pc' = "legs" /\ steps' = recorded /\ UNCHANGED ends

\* What came of the create.  A required stamp that is not confirmed is an error that
\* names the partition; provision puts the apply step behind the create step, which
\* is an error when the create returned no UUID.
Judge ==
  LET full == <<Head(plan)>> \o [i \in 1..Len(steps) |-> steps[i].step] \o Tail(plan)
      recorded == <<Rec(Step("create"), IF body \/ req.op = "create" THEN "ok" ELSE "error")>> \o steps
  IN /\ pc = "judge" /\ plan' = full
     /\ UNCHANGED <<hmc, done, req, made, body, stamped, others>>
     /\ IF req.required /\ stamped # "yes" THEN Raises
        ELSE IF ~body \/ ~Applied THEN Fails(recorded, full)
        ELSE pc' = "legs" /\ steps' = recorded /\ UNCHANGED ends

-----------------------------------------------------------------------------
(* The steps that follow.                                                    *)

AtStep(name) == pc = "legs" /\ Len(steps) < Len(plan) /\ plan[Len(steps) + 1][1] = name
Next_ == plan[Len(steps) + 1]

\* A step that was carried out is recorded; one that failed, with what follows it.
Records(ok) ==
  IF ok THEN steps' = Append(steps, Rec(Next_, "ok")) /\ UNCHANGED <<pc, ends>>
  ELSE Fails(Append(steps, Rec(Next_, "error")), plan)

Takes(took) == done' = done \cup (IF took THEN {Next_} ELSE {})
Kept == UNCHANGED <<hmc, req, plan, made, body, stamped, others>>

\* A request by UUID: it fails when the partition is gone.
ByUuid(name) == \E ok, took \in BOOLEAN :
  /\ AtStep(name) /\ (ok => took) /\ (took => exists)
  /\ Kept /\ Takes(took) /\ Records(ok)

_run_network_leg  == ByUuid("network")
_map_storage      == ByUuid("storage")
_create_disk      == ByUuid("create_disk")
_run_power_leg    == ByUuid("power_on")

\* A request by name: looked up, authorized by the stamp it finds, carried out.
Admits == named = "another" \/ (named = "it" /\ stamp # "foreign")
ByName(ok, took) == (ok => took) /\ (took => Admits) /\ Takes(took) /\ Records(ok)

\* _record_hmc_step records an HMCError; a name that no longer resolves or another
\* owner's stamp is a ValueError or a PermissionError, which it does not catch.
_run_policy_leg == \E ok, took \in BOOLEAN :
  /\ AtStep("minimum_affinity_policy") /\ Kept
  /\ \/ Admits /\ ByName(ok, took)
     \/ ~Admits /\ Raises /\ UNCHANGED done

_run_affinity_leg == \E ok \in BOOLEAN :
  /\ AtStep("affinity_assessment") /\ UNCHANGED done /\ Kept
  /\ \/ ~req.power /\ Fails(Append(steps, Rec(Next_, "skipped")), plan)
     \/ req.power /\ named # "none" /\ Records(ok)
     \/ req.power /\ named = "none" /\ Raises

\* apply_validated_lpar_pcie_assignments: in order, each by its own operation, and
\* every refusal of theirs is a recorded error.  modify_lpar passes the UUID.
apply_validated_lpar_pcie_assignments == \E ok, took \in BOOLEAN :
  /\ AtStep("assignment") /\ (ok => took) /\ Kept
  /\ took => IF req.op = "modify" THEN exists /\ stamp # "foreign" ELSE Admits
  /\ Takes(took) /\ Records(ok)

\* modify_lpar raises what fails before anything was changed; after a rename that
\* went well it reports a failure of the resources.
Rename == \E ok, took \in BOOLEAN :
  /\ AtStep("rename") /\ Kept /\ (ok => took) /\ (took => exists) /\ Takes(took)
  /\ IF ok THEN Records(TRUE) ELSE Raises

Resources == \E ok, took \in BOOLEAN :
  /\ AtStep("resources") /\ Kept /\ (ok => took) /\ (took => exists) /\ Takes(took)
  /\ IF ok \/ steps # <<>> THEN Records(ok) ELSE Raises

\* All steps are done.  modify_lpar without a change reads the partition for its
\* result, and raises if it cannot.
Finish ==
  /\ pc = "legs" /\ Len(steps) = Len(plan)
  /\ \/ Ends("returned", TRUE, made) /\ UNCHANGED steps
     \/ req.op = "modify" /\ steps = <<>> /\ Raises
  /\ UNCHANGED <<hmc, done, req, plan, made, body, stamped, others>>

-----------------------------------------------------------------------------
(* Anybody else.                                                             *)

OtherChanges ==
  /\ pc # "done" /\ others < Others /\ others' = others + 1
  /\ \/ exists /\ exists' = FALSE /\ named' = (IF named = "it" THEN "none" ELSE named) /\ UNCHANGED stamp
     \/ named = "it" /\ named' = "none" /\ UNCHANGED <<exists, stamp>>
     \/ named = "none" /\ named' = "another" /\ UNCHANGED <<exists, stamp>>
     \/ exists /\ stamp' = "foreign" /\ UNCHANGED <<exists, named>>
  /\ UNCHANGED <<state, pc, ends>>

-----------------------------------------------------------------------------
Init ==
  /\ req \in {r \in Request : Askable(r)} /\ plan = StepNames(req) /\ steps = <<>>
  /\ exists = (req.op \notin {"provision", "create"}) /\ named = (IF Creates THEN "none" ELSE "it") /\ stamp \in {"none", "own", "foreign"}
  /\ Creates => stamp = "none"
  /\ done = {} /\ pc = "preflight" /\ made = FALSE /\ body = FALSE /\ stamped = "null"
  /\ result = "none" /\ completed = FALSE /\ created = FALSE /\ others = 0

Creating ==
  \/ RestCreated(TRUE) \/ RestCreated(FALSE) \/ RestRefused \/ CreateFails \/ _create_via_cli
  \/ _apply_created_profile \/ ReadBack \/ Stamp \/ Judge

Legs ==
  \/ _run_policy_leg \/ _run_network_leg \/ _map_storage \/ _create_disk
  \/ apply_validated_lpar_pcie_assignments \/ _run_power_leg \/ _run_affinity_leg
  \/ Rename \/ Resources \/ Finish

Next == Refuse \/ DryRun \/ Go \/ Creating \/ Legs \/ OtherChanges

Spec == Init /\ [][Next]_vars

-----------------------------------------------------------------------------
(* Properties.                                                               *)

Statuses == {"ok", "error", "skipped", "dry_run"}

WorkflowTypeOK ==
  /\ exists \in BOOLEAN /\ named \in {"it", "another", "none"} /\ stamp \in {"none", "own", "foreign"}
  /\ req \in Request /\ Askable(req) /\ done \subseteq ToSet(plan) \cup {Step("apply_profile")}
  /\ \A i \in 1..Len(steps) : steps[i].status \in Statuses
  /\ {made, body, completed, created} \subseteq BOOLEAN /\ stamped \in {"yes", "no", "null"}
  /\ pc \in {"preflight", "rest", "cli", "apply", "readback", "stamp", "judge", "legs", "done"}
  /\ result \in {"none", "returned", "dry_run", "refused", "raised"} /\ others \in 0..Others

(* A report accounts for every step of the request once, in order, whichever *)
(* way the partition was made and wherever the workflow stopped: a step that *)
(* is "ok" was carried out, one that is "skipped" was not, nothing follows   *)
(* an error but what was skipped (and the profile that mksyscfg's partition  *)
(* got before its UUID was missed), a workflow is complete if and only if    *)
(* nothing failed or was left out (an apply with nothing to do aside), and   *)
(* a dry run or a refusal changed nothing (provision_lpar,                   *)
(* _run_legs_through_power, create_lpar, modify_lpar).                       *)
Status(i) == steps[i].status
Apply(i)  == steps[i].step = Step("apply_profile")

ReportTruthful ==
  /\ result = "returned" =>
       /\ [i \in 1..Len(steps) |-> steps[i].step] = plan
       /\ Cardinality(ToSet(plan)) = Len(plan)
       /\ \A i \in 1..Len(steps) :
            /\ Status(i) = "ok" => steps[i].step \in done \cup {Step("create"), Step("affinity_assessment")}
            /\ Status(i) = "skipped" => steps[i].step \notin done
            /\ \A j \in 1..i - 1 : Status(j) = "error" => Status(i) = "skipped" \/ Apply(i)
       /\ completed <=> /\ req.op = "create" => body
                        /\ \A i \in 1..Len(steps) : Status(i) = "ok" \/ (Apply(i) /\ Status(i) = "skipped")
       /\ created = made
  /\ result \in {"dry_run", "refused"} => done = {} /\ ~made

(* "On partial failure, completed, failed, and remaining steps are reported  *)
(* as ok, error, and skipped respectively" (provision_lpar).  A provision    *)
(* that made a partition returns a report of it.                             *)
ProvisionReported == req.op = "provision" /\ made => result # "raised"
=============================================================================
