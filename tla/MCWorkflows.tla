----------------------------- MODULE MCWorkflows -----------------------------
(* The workflows that change partitions, storage and adapters on the HMC, side  *)
(* by side with decommission: storage writes, PCIe changes, the workflows that     *)
(* create and modify a partition, and the single calls that change one.  They   *)
(* share no state; each behaviour runs one of them, and the variables of the    *)
(* others are "off".                                                            *)
EXTENDS Decommission, TLC

CONSTANTS
  (* StorageWrite: callers, its Targets, and its own *)
  Client, Devices, Names, Sizes, Lpars, Owned,
  (* PcieChange: callers, partitions, those owned, and its own *)
  User, Lpar, Mine, Things, Slots,
  MaxAssignments,  \* LparWorkflow
  (* LparMutation: its Callers are User too, its Names Titles, its Requests Asks *)
  Uuids, Titles, Target, Bystander, Asks, Guard, MaxTurns,
  MaxCalls,        \* bound: calls of StorageWrite and of PcieChange
  MaxOthers,       \* bound: changes anybody else makes in StorageWrite and LparWorkflow
  MaxMeddlers      \* bound: the same in PcieChange

VARIABLES
  which,   \* the component that runs
  (* StorageWrite *)
  group, maps, files, intake, request, storagePc, outcome, draft, rewired, stale, free, since,
  leaked, strangers, calls,
  (* PcieChange *)
  io, portOwner, ports, vnics, running, late, change, changePc, snap, unanswered, changed,
  claim, wrote, landed, meddled, meddlers, changes,
  (* LparWorkflow *)
  there, named, stamp, done, req, flowPc, plan, flowSteps, made, body, stamped, result,
  completed, created, rivals,
  (* LparMutation *)
  lpar, tasks, command, commandPc, uid, label, copy, answer, altered, did, valid, wrong, spent

storageVars ==
  <<group, maps, files, intake, request, storagePc, outcome, draft, rewired, stale, free, since,
    leaked, strangers, calls>>
pcieVars ==
  <<io, portOwner, ports, vnics, running, late, change, changePc, snap, unanswered, changed,
    claim, wrote, landed, meddled, meddlers, changes>>
workflowVars ==
  <<there, named, stamp, done, req, flowPc, plan, flowSteps, made, body, stamped, result,
    completed, created, rivals>>
mutationVars ==
  <<lpar, tasks, command, commandPc, uid, label, copy, answer, altered, did, valid, wrong, spent>>

Storage == INSTANCE StorageWrite WITH
  Callers <- Client, Targets <- Devices, Others <- MaxOthers, call <- request, pc <- storagePc, others <- strangers
Pcie == INSTANCE PcieChange WITH
  Callers <- User, Lpars <- Lpar, Owned <- Mine, Others <- MaxMeddlers, owner <- portOwner,
  call <- change, pc <- changePc, failed <- unanswered, outcome <- changed,
  touched <- meddled, others <- meddlers, calls <- changes
Workflow == INSTANCE LparWorkflow WITH
  Others <- MaxOthers, exists <- there, pc <- flowPc, steps <- flowSteps, others <- rivals

Mutation == INSTANCE LparMutation WITH
  Callers <- User, Names <- Titles, Requests <- Asks, job <- tasks, call <- command, pc <- commandPc, draft <- copy,
  since <- altered, turns <- spent

\* The calls of the instance: every operation in each of its forms.
Ask(op, sel, name, o, form) ==
  [op |-> op, sel |-> sel, name |-> name, override |-> o, form |-> form]
Asked ==
  {Ask("rename", "a", "c", FALSE, "-"), Ask("size", "a", "-", FALSE, "-"), Ask("modify", "i1", "c", FALSE, "-"),
   Ask("describe", "a", "-", FALSE, "plain"), Ask("describe", "a", "-", TRUE, "plain"),
   Ask("describe", "a", "-", FALSE, "stamp"), Ask("sync", "a", "-", FALSE, "-"),
   Ask("adapter", "a", "-", FALSE, "-"), Ask("delete", "a", "-", FALSE, "-"),
   Ask("on", "a", "-", FALSE, "profile"), Ask("on", "a", "-", FALSE, "forced"),
   Ask("on", "i1", "-", FALSE, "unwaited"), Ask("off", "a", "-", FALSE, "-"),
   Ask("migrate", "a", "-", FALSE, "validated"), Ask("create", "-", "c", FALSE, "required"),
   Ask("create", "-", "c", FALSE, "all")}

ASSUME WorkflowsAssumption ==
  /\ Storage!StorageAssumption /\ Pcie!PcieAssumption /\ Workflow!WorkflowAssumption
  /\ Mutation!MutationAssumption

\* Adapters and mappings are worked off in any order; callers, and the partitions of PcieChange,
\* are told apart nowhere.
AllSymmetry == Permutations(Adapter) \cup Permutations(Mapping)
                 \cup Permutations(User) \cup Permutations(Lpar)

WorkflowsInit ==
  /\ Init
  /\ which \in {"decommission", "storage", "pcie", "workflow", "mutation"}
  /\ which # "decommission" =>
       /\ ~dryRun /\ ~override /\ power = "activated" /\ owner = "mine"
       /\ adapters = {} /\ client = [m \in Mapping |-> "absent"]
  /\ IF which = "storage" THEN Storage!Init
     ELSE /\ group = "off" /\ maps = "off" /\ files = "off" /\ intake = "off" /\ request = "off"
          /\ storagePc = "off" /\ outcome = "off" /\ draft = "off" /\ rewired = "off"
          /\ stale = "off" /\ free = "off" /\ since = "off" /\ leaked = "off"
          /\ strangers = "off" /\ calls = "off"
  /\ IF which = "pcie" THEN Pcie!Init
     ELSE /\ io = "off" /\ portOwner = "off" /\ ports = "off" /\ vnics = "off" /\ running = "off"
          /\ late = "off" /\ change = "off" /\ changePc = "off" /\ snap = "off"
          /\ unanswered = "off" /\ changed = "off" /\ claim = "off" /\ wrote = "off"
          /\ landed = "off" /\ meddled = "off" /\ meddlers = "off" /\ changes = "off"
  /\ IF which = "workflow" THEN Workflow!Init
     ELSE /\ there = "off" /\ named = "off" /\ stamp = "off" /\ done = "off" /\ req = "off"
          /\ flowPc = "off" /\ plan = "off" /\ flowSteps = "off" /\ made = "off" /\ body = "off"
          /\ stamped = "off" /\ result = "off" /\ completed = "off" /\ created = "off"
          /\ rivals = "off"
  /\ IF which = "mutation" THEN Mutation!Init
     ELSE /\ lpar = "off" /\ tasks = "off" /\ command = "off" /\ commandPc = "off" /\ uid = "off"
          /\ label = "off" /\ copy = "off" /\ answer = "off" /\ altered = "off" /\ did = "off"
          /\ valid = "off" /\ wrong = "off" /\ spent = "off"

WorkflowsNext ==
  \/ which = "decommission" /\ Next /\ UNCHANGED <<which, storageVars, pcieVars, workflowVars, mutationVars>>
  \/ which = "storage" /\ Storage!Next /\ UNCHANGED <<which, vars, pcieVars, workflowVars, mutationVars>>
  \/ which = "pcie" /\ Pcie!Next /\ UNCHANGED <<which, vars, storageVars, workflowVars, mutationVars>>
  \/ which = "workflow" /\ Workflow!Next /\ UNCHANGED <<which, vars, storageVars, pcieVars, mutationVars>>
  \/ which = "mutation" /\ Mutation!Next /\ UNCHANGED <<which, vars, storageVars, pcieVars, workflowVars>>
  \/ which # "decommission" /\ UNCHANGED <<which, vars, storageVars, pcieVars, workflowVars, mutationVars>>

WorkflowsSpec ==
  WorkflowsInit /\ [][WorkflowsNext]_<<which, vars, storageVars, pcieVars, workflowVars, mutationVars>>

(* The properties of the components, where they are stated.                    *)

\* Every variable of the component that runs has its type.
TypesOK ==
  /\ TypeOK /\ (which = "storage" => Storage!StorageTypeOK) /\ (which = "pcie" => Pcie!PcieTypeOK)
  /\ (which = "workflow" => Workflow!WorkflowTypeOK) /\ (which = "mutation" => Mutation!MutationTypeOK)

\* A storage call reports what came of its own write (StorageWrite), and so does a call
\* that changes a partition (LparMutation).
CallsHonest ==
  (which = "storage" => Storage!CallsHonest) /\ (which = "mutation" => Mutation!MutationTold)

\* A storage write changes what was asked for and nothing else (StorageWrite), and no write
\* changes a partition its call was not let to change (LparMutation).
WritesConfined ==
  [][(which = "storage" => Storage!Confined) /\ (which = "mutation" => Mutation!Rightful')]_<<group, maps, wrong>>

\* Of two changes that collide at least one is not told that it went well (PcieChange).
CollisionsTold == which = "pcie" => Pcie!CollisionsTold

\* A report accounts for every step of the request (LparWorkflow).
ReportTruthful == which = "workflow" => Workflow!ReportTruthful
=============================================================================
