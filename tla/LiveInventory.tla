---------------------------- MODULE LiveInventory ----------------------------
(* The reads of the live tests that change nothing: connectivity (subtask 1,  *)
(* scripts/live_test/connectivity.py), storage, profiles, metrics and jobs     *)
(* (subtasks 3, 4, 5 and 12, storage.py, profiles.py, metrics.py), and the     *)
(* inventory and the slot selection of the dedicated arm (subtask 29, pcie.py).*)
(* What one read showed is what a later one is compared with, while other      *)
(* users change the system; an assertion that fails makes a failed             *)
(* observation, and nothing is promoted from it.                               *)
EXTENDS Naturals, Sequences

CONSTANTS
  MaxFaults,    \* bound: reads that fail
  MaxTouches    \* bound: changes other users make

InventoryAssumption == {MaxFaults, MaxTouches} \subseteq Nat

VARIABLES
  arm,       \* the subtask: "st1", "st3", "st4", "st5", "st12" or "st29"
  world,     \* what the HMC shows, a record
  want,      \* what the arm is handed: a configured slot ("any" without one), the identity
             \* of a VIOS, of the system or of a job that an earlier subtask left, or "none"
  pc,        \* the place in the arm's order of reads
  (* what earlier reads showed *)
  feed,      \* the systems of the raw feed, {} when it did not answer
  state,     \* the state of the boundary system, "none" when it was not read
  row,       \* the capacity row of the boundary system: "fits", "full", or "none"
  lp3,       \* the identity the test partition was found under, 0 when it was not
  known,     \* the identity of the boundary system was found
  slots,     \* the dedicated slots of the listing that opens subtask 29
  unowned,   \* those of them that no partition owns
  rows,      \* the slots of the I/O listing
  ports,     \* the physical ports that were read
  noted,     \* volume groups, pools, modes, links or templates that were read
  (* what comes of it *)
  passed,    \* the observations that passed
  views,     \* the partitions that accepted answers named
  picked,    \* the slot that is selected, "none" without one
  faults, touches

reads == <<feed, state, row, lp3, known, slots, unowned, rows, ports, noted>>
fixed == <<arm, world, want, touches>>
vars == <<fixed, pc, reads, passed, views, picked, faults>>

Slots == {"x", "y"}
Eth == {"x"}         \* the Ethernet adapters among them
Order == [
  st1 |-> <<"console", "feed", "systems", "system", "lpars", "lpar", "vios", "capacity", "placement",
            "resources", "systemSummary", "lparSummary", "ownership", "bootOrder", "inspect",
            "snapshot", "logical", "health", "plan", "refusal">>,
  st3 |-> <<"listGroups", "groups", "clusters", "listPools", "pool">>,
  st4 |-> <<"description", "msp", "modes", "procCompat", "memoryPools", "lparScore", "lparScores",
            "systemScore", "planLpars", "planSystem", "groupScores", "planGroups", "policy">>,
  st5 |-> <<"preferences", "identity", "processedLinks", "processed", "aggregatedLinks",
            "aggregated", "templates", "template">>,
  st12 |-> <<"job", "waited">>,
  st29 |-> <<"environment", "slots", "ioSlots", "ethSlots", "adapters", "ports", "logicalPorts",
             "vnicNames", "vnics", "select">>]

Ended == pc > Len(Order[arm])
At(o) == ~Ended /\ Order[arm][pc] = o
Goto(o) == pc' = CHOOSE i \in 1..Len(Order[arm]) : Order[arm][i] = o
Stop == pc' = Len(Order[arm]) + 1
Fault(c) == (c => faults < MaxFaults) /\ faults' = faults + (IF c THEN 1 ELSE 0)
Pass(o, c) == passed' = IF c THEN passed \cup {o} ELSE passed

\* A read that only makes an observation.
Observe(o, agrees) ==
  /\ At(o) /\ pc' = pc + 1 /\ UNCHANGED <<fixed, reads, views, picked>>
  /\ \E r \in BOOLEAN : Fault(~r) /\ Pass(o, r /\ agrees)

-----------------------------------------------------------------------------
(* What the HMC shows.                                                        *)

There == "B" \in world.systems          \* the boundary system is listed
Served == feed # {}
Present == {s \in Slots : world.slot[s] # "gone"}
ShownPorts == IF world.sriov THEN world.ports ELSE {}

-----------------------------------------------------------------------------
(* Subtask 1.                                                                 *)

DiscoverConsole == Observe("console", TRUE)

ProbeFeed ==
  /\ At("feed") /\ pc' = pc + 1
  /\ UNCHANGED <<fixed, noted, state, row, lp3, known, slots, unowned, rows, ports, passed, views, picked>>
  /\ \E r \in BOOLEAN : Fault(~r) /\ feed' = IF r /\ world.feed THEN world.systems ELSE {}

\* The list answers from quick/All, also where the raw feed does not.
ListSystems ==
  /\ At("systems") /\ pc' = pc + 1
  /\ UNCHANGED <<fixed, noted, feed, state, row, lp3, slots, unowned, rows, ports, views, picked>>
  /\ \E r \in BOOLEAN :
       /\ Fault(~r) /\ known' = (r /\ There)
       /\ Pass("systems", r /\ There /\ feed = world.systems)

GetSystem ==
  /\ At("system") /\ pc' = pc + 1
  /\ UNCHANGED <<fixed, noted, feed, row, lp3, slots, unowned, rows, ports, views, picked>>
  /\ \E r \in BOOLEAN :
       LET answered == r /\ There IN
       /\ Fault(~r) /\ Pass("system", answered) /\ known' = (known \/ answered)
       /\ state' = IF answered THEN (IF world.operating THEN "operating" ELSE "other") ELSE "none"

ListLpars == Observe("lpars", TRUE)
GetLpar ==
  /\ At("lpar") /\ pc' = pc + 1
  /\ UNCHANGED <<fixed, noted, feed, state, row, known, slots, unowned, rows, ports, views, picked>>
  /\ \E r \in BOOLEAN :
       /\ Fault(~r) /\ Pass("lpar", r /\ world.lp3 # 0) /\ lp3' = IF r THEN world.lp3 ELSE 0

DiscoverVios == Observe("vios", TRUE)

Capacity ==
  /\ At("capacity") /\ pc' = pc + 1
  /\ UNCHANGED <<fixed, noted, feed, state, lp3, known, slots, unowned, rows, ports, views, picked>>
  /\ \E r \in BOOLEAN :
       /\ Fault(~r) /\ Pass("capacity", r /\ There /\ Served)
       /\ row' = IF r /\ There THEN (IF world.fits THEN "fits" ELSE "full") ELSE "none"

FindPlacement ==
  Observe("placement", row # "none" /\ Served /\ ((There /\ world.fits) \/ row = "full"))

ListResources == Observe("resources", TRUE)
SystemSummary == Observe("systemSummary", There)
LparSummary == Observe("lparSummary", world.lp3 # 0)
ListOwnership == Observe("ownership", world.lp3 # 0)

\* The answers that name a partition are compared with the identity found above.
View(o, agrees) ==
  /\ At(o) /\ pc' = pc + 1 /\ UNCHANGED <<fixed, reads, picked>>
  /\ \E r \in BOOLEAN :
       LET ok == r /\ agrees /\ world.lp3 = lp3 /\ lp3 # 0 IN
       Fault(~r) /\ Pass(o, ok) /\ views' = IF ok THEN views \cup {world.lp3} ELSE views
ReadBootOrder == View("bootOrder", TRUE)
Inspect == View("inspect", TRUE)
CaptureSnapshot == View("snapshot", There /\ known)

ReadLogical == Observe("logical", There /\ world.lp3 # 0)

\* A system is flagged when it is listed and not operating.
FleetHealth ==
  LET flagged == There /\ known /\ ~world.operating
  IN Observe("health", Served /\ state # "none" /\ flagged # (state = "operating"))

PlanLpar == Observe("plan", There /\ known)

\* Only an HMC that is known to be too old is asked, for a system there is not.
CheckRefusal == Observe("refusal", world.old /\ "console" \in passed)

-----------------------------------------------------------------------------
(* Subtask 3.                                                                 *)

\* A read whose answer a later one is compared with.
Note(shown) ==
  noted' = shown /\ UNCHANGED <<feed, state, row, lp3, known, slots, unowned, rows, ports>>

\* Without the identity of a VIOS nothing is listed; only with its partition number, too,
\* can the listing be compared with what lsvg says on it.
ListGroups ==
  /\ At("listGroups") /\ UNCHANGED <<fixed, passed, views, picked>>
  /\ \E r \in BOOLEAN :
       /\ (want = "none" => r) /\ Fault(~r)
       /\ Note(IF r /\ want # "none" THEN world.groups ELSE {})
       /\ Goto(IF r /\ want = "number" THEN "groups" ELSE "clusters")
VerifyGroups == Observe("groups", noted = world.groups /\ "mine" \in noted)

\* A feed without an entry makes no observation.
VerifyClusters == Observe("clusters", world.pools # {})
ListPools ==
  /\ At("listPools") /\ pc' = pc + 1 /\ UNCHANGED <<fixed, views, picked>>
  /\ \E r \in BOOLEAN :
       Fault(~r) /\ Note(IF r THEN world.pools ELSE {}) /\ Pass("listPools", r /\ world.pools # {})

\* A pool that does not exist must be refused, and the first that was listed be there.
ReadPool ==
  /\ At("pool") /\ pc' = pc + 1 /\ UNCHANGED <<fixed, reads, views, picked>>
  /\ \E r, s \in BOOLEAN :
       /\ (r \/ s) /\ (noted = {} => s) /\ Fault(~r \/ ~s)
       /\ Pass("pool", r /\ s /\ noted \subseteq world.pools)

(* Subtask 4.                                                                 *)

ProfileReads == Observe("description", world.lp3 # 0) \/ Observe("msp", world.lp3 # 0)
ListModes ==
  /\ At("modes") /\ pc' = pc + 1 /\ UNCHANGED <<fixed, views, picked>>
  /\ \E r \in BOOLEAN :
       Fault(~r) /\ Note(IF r THEN world.modes ELSE {}) /\ Pass("modes", "default" \in noted')
GetProcCompat == Observe("procCompat", world.lp3 # 0 /\ world.mode \in noted)
ListMemoryPools == Observe("memoryPools", TRUE)
ScoreReads ==
  \/ Observe("lparScore", world.lp3 # 0) \/ Observe("lparScores", world.lp3 # 0)
  \/ Observe("systemScore", TRUE)
PlanReads == Observe("planLpars", TRUE) \/ Observe("planSystem", TRUE)
\* Whether the system has the capability or says why not is evidence either way.
CapabilityReads ==
  \/ Observe("groupScores", TRUE) \/ Observe("planGroups", TRUE) \/ Observe("policy", world.lp3 # 0)

(* Subtasks 5 and 12.                                                         *)

\* Who may not read the metrics makes an expected failure of it.
GetPreferences == Observe("preferences", world.may)
Identify ==
  /\ At("identity") /\ UNCHANGED <<fixed, reads, passed, views, picked>>
  /\ \E r \in BOOLEAN :
       /\ (want # "none" => r) /\ Fault(~r)
       /\ Goto(IF want # "none" \/ (r /\ There) THEN "processedLinks" ELSE "templates")

\* The links of the last two hours, and the newest document when there is one.
Links(kind, next) ==
  /\ At(kind) /\ UNCHANGED <<fixed, reads, views, picked>>
  /\ \E r \in BOOLEAN :
       LET listed == r /\ world.may /\ world.sampled
       IN Fault(~r) /\ Pass(kind, listed) /\ IF listed THEN pc' = pc + 1 ELSE Goto(next)
Metrics(kind, feedOf, next) == Links(feedOf, next) \/ Observe(kind, world.may /\ world.sampled)
InspectProcessed == Metrics("processed", "processedLinks", "aggregatedLinks")
InspectAggregated == Metrics("aggregated", "aggregatedLinks", "templates")

ListTemplates ==
  /\ At("templates") /\ UNCHANGED <<fixed, views, picked>>
  /\ \E r \in BOOLEAN :
       /\ Fault(~r) /\ Note(IF r THEN world.templates ELSE {}) /\ Pass("templates", noted' # {})
       /\ IF noted' # {} THEN pc' = pc + 1 ELSE Stop
GetTemplate == Observe("template", noted \subseteq world.templates)

\* A job that an earlier subtask left, and both tools must know how it ended.
InspectJob ==
  /\ At("job") /\ UNCHANGED <<fixed, reads, views, picked>>
  /\ \E r \in BOOLEAN :
       /\ (want = "none" => r) /\ Fault(~r) /\ Pass("job", want # "none" /\ r /\ world.job = "succeeded")
       /\ IF want = "none" THEN Stop ELSE pc' = pc + 1
WaitForJob == Observe("waited", world.job = "succeeded")

-----------------------------------------------------------------------------
(* Subtask 29.                                                                *)

Admit ==
  /\ At("environment") /\ UNCHANGED <<fixed, reads, passed, views, picked>>
  /\ \E r \in BOOLEAN : Fault(~r) /\ IF r /\ world.old THEN Goto("slots") ELSE Stop

ListDedicated ==
  /\ At("slots") /\ UNCHANGED <<fixed, noted, feed, state, row, lp3, known, rows, ports, views, picked>>
  /\ \E r \in BOOLEAN :
       /\ Fault(~r) /\ Pass("slots", r /\ Present # {})
       /\ slots' = (IF r THEN Present ELSE {})
       /\ unowned' = {s \in slots' : world.slot[s] # "owned"}
       /\ IF r THEN Goto("ioSlots") ELSE Stop

ListIoSlots ==
  /\ At("ioSlots") /\ Goto("ethSlots")
  /\ UNCHANGED <<fixed, noted, feed, state, row, lp3, known, slots, unowned, ports, passed, views, picked>>
  /\ \E r \in BOOLEAN : Fault(~r) /\ rows' = IF r THEN Present ELSE {}

\* Compared with the listing before, and with what it selects of it.
ListEthSlots ==
  Observe("ethSlots", rows # {} /\ rows = slots /\ Present \cap Eth = rows \cap Eth)

\* The first adapter in SR-IOV mode, that a second listing has to select alone.
ListAdapters ==
  /\ At("adapters") /\ UNCHANGED <<fixed, reads, views, picked>>
  /\ \E r, s \in BOOLEAN :
       /\ (world.sriov \/ s) /\ (r \/ s) /\ Fault(~r \/ ~s)
       /\ Pass("adapters", r /\ s) /\ Goto(IF r /\ world.sriov THEN "ports" ELSE "vnicNames")

\* And the listing without an adapter must be refused.
ListPorts ==
  /\ At("ports") /\ UNCHANGED <<fixed, noted, feed, state, row, lp3, known, slots, unowned, rows, views, picked>>
  /\ \E r, s \in BOOLEAN :
       /\ (r \/ s) /\ Fault(~r \/ ~s)
       /\ ports' = (IF r THEN ShownPorts ELSE {})
       /\ Pass("ports", r /\ s /\ ShownPorts # {})
       /\ Goto(IF ports' # {} THEN "logicalPorts" ELSE "vnicNames")

\* Every logical port is one of a port that was read; without any nothing is observed.
ListLogicalPorts == Observe("logicalPorts", world.sriov /\ world.parent # 0 /\ world.parent \in ports)

VnicNames ==
  /\ At("vnicNames") /\ UNCHANGED <<fixed, reads, passed, views, picked>>
  /\ \E r \in BOOLEAN : Fault(~r) /\ Goto(IF r /\ world.vnic THEN "vnics" ELSE "select")
ListVnics == Observe("vnics", world.vnic)

\* A row that mentions the slot and cannot be parsed counts as listing it.
ListsSlot(s) == world.slot[s] \in {"listed", "odd"}

\* A configured slot is taken when it is unowned; another must be in no profile, too.
Select ==
  /\ At("select") /\ Stop /\ UNCHANGED <<fixed, reads, passed, views>>
  /\ \E r \in BOOLEAN :
       /\ (want # "any" \/ unowned = {} => r) /\ Fault(~r)
       /\ LET eligible == IF want # "any" THEN unowned \cap {want}
                          ELSE IF r THEN {s \in unowned : ~ListsSlot(s)} ELSE {}
          IN picked' = IF "x" \in eligible THEN "x" ELSE IF eligible # {} THEN "y" ELSE "none"

-----------------------------------------------------------------------------
(* The other users of the HMC.                                                *)

Few == {{}, {1}, {2}}
Changed == [
  st1 |-> {[world EXCEPT !.systems = S] : S \in {{"B"}, {"O"}, {"B", "O"}}} \cup
          {[world EXCEPT !.feed = ~@], [world EXCEPT !.operating = ~@], [world EXCEPT !.fits = ~@]} \cup
          {[world EXCEPT !.lp3 = p] : p \in 0..2},
  st3 |-> {[world EXCEPT !.groups = G] : G \in SUBSET {"mine", "hers"}} \cup
          {[world EXCEPT !.pools = S] : S \in Few},
  st4 |-> {[world EXCEPT !.lp3 = p] : p \in 0..2} \cup
          {[world EXCEPT !.modes = {"default"}], [world EXCEPT !.mode = "default"],
           [world EXCEPT !.modes = {"default", "other"}, !.mode = "other"]},
  st5 |-> {[world EXCEPT !.may = ~@], [world EXCEPT !.sampled = ~@],
           [world EXCEPT !.systems = {"O"}]} \cup
          {[world EXCEPT !.templates = S] : S \in Few},
  st12 |-> {[world EXCEPT !.job = j] :
              j \in IF world.job = "running" THEN {"succeeded", "failed", "gone"} ELSE {"gone"}},
  st29 |-> {[world EXCEPT !.slot[s] = k] :
              s \in Slots, k \in {"free", "owned", "listed", "odd", "gone"}} \cup
           {[world EXCEPT !.sriov = ~@], [world EXCEPT !.vnic = ~@]} \cup
           {[world EXCEPT !.ports = {1, 2}, !.parent = p] : p \in 0..2}]

Touch ==
  /\ ~Ended /\ touches < MaxTouches /\ touches' = touches + 1
  /\ world' \in Changed[arm] \ {world}
  /\ UNCHANGED <<arm, want, pc, reads, passed, views, picked, faults>>

Quiet == [systems |-> {"B"}, feed |-> TRUE, operating |-> TRUE, fits |-> TRUE, lp3 |-> 1, old |-> TRUE,
          slot |-> [s \in Slots |-> "free"], sriov |-> TRUE, ports |-> {1}, parent |-> 0, vnic |-> FALSE,
          groups |-> {"mine"}, pools |-> {1}, modes |-> {"default", "other"}, mode |-> "default",
          may |-> TRUE, sampled |-> TRUE, templates |-> {1}, job |-> "succeeded"]

Init ==
  /\ \/ /\ arm = "st1" /\ want = "any"
        /\ \E S \in {{"B"}, {"O"}, {"B", "O"}}, f, g, h, v \in BOOLEAN, p \in 0..1 :
             world = [Quiet EXCEPT !.systems = S, !.feed = f, !.operating = g, !.fits = h, !.lp3 = p,
                                   !.old = v]
     \/ /\ arm = "st3" /\ want \in {"none", "uuid", "number"}
        /\ \E G \in SUBSET {"mine", "hers"}, S \in Few : world = [Quiet EXCEPT !.groups = G, !.pools = S]
     \/ /\ arm = "st4" /\ want = "any"
        /\ \E p \in 0..1, m \in {"default", "other"}, M \in {{"default"}, {"default", "other"}} :
             world = [Quiet EXCEPT !.lp3 = p, !.mode = m, !.modes = M]
     \/ /\ arm = "st5" /\ want \in {"none", "uuid"}
        /\ \E m, v \in BOOLEAN, S \in Few :
             world = [Quiet EXCEPT !.may = m, !.sampled = v, !.templates = S]
     \/ /\ arm = "st12" /\ want \in {"none", "job"}
        /\ \E j \in {"running", "succeeded", "failed", "gone"} : world = [Quiet EXCEPT !.job = j]
     \/ /\ arm = "st29" /\ want \in {"any", "x"}
        /\ \E s \in [Slots -> {"free", "owned", "listed", "odd"}], m, v, a \in BOOLEAN,
              p \in {<<{1}, 0>>, <<{1}, 1>>, <<{1, 2}, 2>>} :
             world = [Quiet EXCEPT !.slot = s, !.sriov = m, !.vnic = v, !.old = a, !.ports = p[1],
                                   !.parent = p[2]]
  /\ pc = 1 /\ feed = {} /\ state = "none" /\ row = "none" /\ lp3 = 0 /\ known = FALSE
  /\ slots = {} /\ unowned = {} /\ rows = {} /\ ports = {} /\ passed = {} /\ views = {}
  /\ noted = {} /\ picked = "none" /\ faults = 0 /\ touches = 0

Next ==
  \/ DiscoverConsole \/ ProbeFeed \/ ListSystems \/ GetSystem \/ ListLpars \/ GetLpar \/ DiscoverVios
  \/ Capacity \/ FindPlacement \/ ListResources \/ SystemSummary \/ LparSummary \/ ListOwnership
  \/ ReadBootOrder \/ Inspect \/ CaptureSnapshot \/ ReadLogical \/ FleetHealth \/ PlanLpar
  \/ CheckRefusal \/ ListGroups \/ VerifyGroups \/ VerifyClusters \/ ListPools \/ ReadPool
  \/ ProfileReads \/ ListModes \/ GetProcCompat \/ ListMemoryPools \/ ScoreReads \/ PlanReads
  \/ CapabilityReads \/ GetPreferences \/ Identify \/ InspectProcessed \/ InspectAggregated
  \/ ListTemplates \/ GetTemplate \/ InspectJob \/ WaitForJob \/ Admit \/ ListDedicated \/ ListIoSlots \/ ListEthSlots \/ ListAdapters \/ ListPorts
  \/ ListLogicalPorts \/ VnicNames \/ ListVnics \/ Select \/ Touch

Spec == Init /\ [][Next]_vars

-----------------------------------------------------------------------------
(* Properties.                                                                *)

InventoryTypeOK ==
  /\ arm \in DOMAIN Order /\ pc \in 1..(Len(Order[arm]) + 1) /\ feed \subseteq {"B", "O"}
  /\ state \in {"none", "operating", "other"} /\ row \in {"none", "fits", "full"} /\ lp3 \in 0..2
  /\ known \in BOOLEAN /\ unowned \subseteq slots /\ slots \cup rows \subseteq Slots
  /\ ports \subseteq {1, 2} /\ picked \in Slots \cup {"none"} /\ views \subseteq {1, 2}

\* What has to be so for an observation to be one of this system.
Supports(o) ==
  /\ (o \in {"systems", "system", "capacity", "placement", "systemSummary", "snapshot", "logical", "plan",
             "health"} => There)
  /\ (o \in {"systems", "capacity", "placement", "health"} => world.feed)
  /\ (o \in {"lpar", "lparSummary", "ownership", "bootOrder", "inspect", "snapshot", "logical",
             "description", "msp", "procCompat", "lparScore", "lparScores", "policy"} => world.lp3 # 0)
  /\ (o = "groups" => want = "number" /\ "mine" \in world.groups)
  /\ (o \in {"clusters", "listPools"} => world.pools # {})
  /\ (o = "procCompat" => world.mode \in world.modes)
  /\ (o = "preferences" => world.may)
  /\ (o \in {"templates", "template"} => world.templates # {})
  /\ (o \in {"processedLinks", "processed", "aggregatedLinks", "aggregated"} => world.may /\ world.sampled)
  /\ (o \in {"job", "waited"} => want = "job" /\ world.job = "succeeded")
  /\ (o = "refusal" => world.old) /\ (o = "vnics" => world.vnic)
  /\ (o \in {"ports", "logicalPorts"} => world.sriov) /\ (o = "logicalPorts" => world.parent # 0)
Observations == {Order[arm][i] : i \in 1..Len(Order[arm])} \ 
  {"feed", "listGroups", "identity", "environment", "ioSlots", "vnicNames", "select"}

\* While nobody changes the system, what passes is what it supports, and a slot that is
\* selected by the arm itself is owned by no partition and listed by no profile; and
\* whoever changes it, all the accepted answers about the partition are about the same one.
InventoryTrue ==
  /\ touches = 0 => /\ \A o \in passed : Supports(o)
                    /\ (picked # "none" => world.slot[picked] # "owned")
                    /\ (picked # "none" /\ want = "any" => world.slot[picked] = "free")
  /\ views \subseteq {lp3}

\* And when nothing fails, all it supports passes, and a free slot is found.
InventoryComplete ==
  Ended /\ faults = 0 /\ touches = 0 =>
    /\ (arm = "st29" => world.old) => \A o \in Observations : Supports(o) => o \in passed
    /\ arm = "st29" /\ world.old /\ want = "any" /\ (\E s \in Slots : world.slot[s] = "free")
         => picked # "none"
=============================================================================
