----------------------------- MODULE PcieChange -----------------------------
(* Changes to the dedicated slots, SR-IOV logical ports and vNICs of a       *)
(* partition (operations/virtualization/pcie.py and vnic.py).  Each reads    *)
(* what is there, refuses or returns what holds already, sends one HMC       *)
(* command, and judges that command by what it reads back: the command may   *)
(* fail, or time out on this side and run on at the HMC.  Other callers and  *)
(* anybody else change the same things between any two requests.             *)
EXTENDS Naturals, FiniteSets

CONSTANTS
  Callers,
  Lpars,
  Owned,     \* partitions whose ownership stamp lets a caller change them
  Things,    \* dedicated slots, and logical ports of one SR-IOV physical port
  Slots,     \* virtual slot numbers of a partition
  Others,    \* bound: changes made by anybody else
  MaxCalls   \* bound: calls in all

PcieAssumption ==
  Owned \subseteq Lpars /\ "none" \notin Lpars \cup Things /\ Slots \subseteq Nat \ {0}
  /\ Others \in Nat /\ MaxCalls \in Nat

VARIABLES
  (* the HMC *)
  io,        \* how each profile lists each slot: as written here, otherwise, or not
  owner,     \* the partition that has each logical port
  ports,     \* the logical ports in each partition's profile
  vnics,     \* the vNICs of each partition: slot number, and whether active and Operational
  running,   \* partitions that run
  late,      \* callers whose command timed out and is still to run
  (* the callers *)
  call, pc, snap, failed, outcome, claim,
  (* history *)
  wrote,     \* callers whose command is what their partition's profile now has of their slot
  landed,    \* callers whose command took effect only after its call had ended
  touched,   \* "slots": somebody else changed what a profile lists; "vnics": one was removed
  others, calls

hmc   == <<io, owner, ports, vnics, running>>
ends  == <<outcome, claim>>
count == <<others, calls>>
past  == <<wrote, landed, touched>>
vars  == <<hmc, late, call, pc, snap, failed, ends, past, count>>

-----------------------------------------------------------------------------
(* Calls and what they read.                                                 *)

Ops == {"assign_dedicated_pcie_slot", "unassign_dedicated_pcie_slot", "assign_sriov_logical_port",
        "unassign_sriov_logical_port", "add_vnic", "remove_vnic"}
Sriov     == {"assign_sriov_logical_port", "unassign_sriov_logical_port"}
Dedicated == {"assign_dedicated_pcie_slot", "unassign_dedicated_pcie_slot"}
Profile   == Dedicated \cup {"unassign_sriov_logical_port"}

NoThing == "none"
NoSlot  == 0
NoCall  == [op |-> "none", lpar |-> "none", thing |-> NoThing, slot |-> NoSlot]
NoView  == [io |-> [t \in Things |-> "absent"], owner |-> "none", ports |-> {}, vnics |-> {}]

Request ==
  [op : Ops \ {"add_vnic", "remove_vnic"}, lpar : Lpars, thing : Things, slot : {NoSlot}]
  \cup [op : {"add_vnic"}, lpar : Lpars, thing : {NoThing}, slot : {NoSlot}]
  \cup [op : {"remove_vnic"}, lpar : Lpars, thing : {NoThing}, slot : Slots]

\* What a call reads of its partition and its thing, before and after.
View(k) == [io |-> io[k.lpar], owner |-> IF k.thing = NoThing THEN "none" ELSE owner[k.thing],
            ports |-> ports[k.lpar], vnics |-> vnics[k.lpar]]

\* Another partition's profile lists the slot, in whatever form.
Holders(k) == {l \in Lpars \ {k.lpar} : io[l][k.thing] # "absent"}

NumbersOf(vs) == {v[1] : v \in vs}

-----------------------------------------------------------------------------
(* Preflight: "idle" returns what holds already, "refuse" raises, "go" sends *)
(* the command.  Reads and values the model leaves out may refuse any call.  *)

\* _authorize_pcie_profile_request, then _change_dedicated_slot: only the form this
\* operation writes is changed, and an assign wants the slot for itself.
ChangeDedicated(k, add) ==
  LET present == io[k.lpar][k.thing]
  IN IF k.lpar \in running \/ present = "odd" \/ (add /\ Holders(k) # {}) THEN "refuse"
     ELSE IF (present = "written") = add THEN "idle" ELSE "go"

\* _preflight_sriov_assignment: a port that another partition has is refused.
PreflightSriovAssignment(k) ==
  IF owner[k.thing] = k.lpar THEN "idle" ELSE IF owner[k.thing] # "none" THEN "refuse" ELSE "go"

\* unassign_sriov_logical_port: the profile of a partition that does not run holds
\* this port and no other.
PreflightSriovUnassignment(k) ==
  IF k.lpar \in running THEN "refuse"
  ELSE IF ports[k.lpar] = {} THEN "idle" ELSE IF ports[k.lpar] = {k.thing} THEN "go" ELSE "refuse"

\* add_vnic: one sound vNIC on this backing is the answer; anything else that
\* matches is ambiguous or degraded.
PreflightAdd(k) ==
  IF vnics[k.lpar] = {} THEN "go"
  ELSE IF \E v \in vnics[k.lpar] : vnics[k.lpar] = {v} /\ v[2] THEN "idle" ELSE "refuse"

PreflightRemove(k) ==
  IF k.slot \notin NumbersOf(vnics[k.lpar]) THEN "idle"
  ELSE IF <<k.slot, TRUE>> \in vnics[k.lpar] THEN "go" ELSE "refuse"

Preflight(k) ==
  CASE k.op = "assign_dedicated_pcie_slot"   -> ChangeDedicated(k, TRUE)
    [] k.op = "unassign_dedicated_pcie_slot" -> ChangeDedicated(k, FALSE)
    [] k.op = "assign_sriov_logical_port"    -> PreflightSriovAssignment(k)
    [] k.op = "unassign_sriov_logical_port"  -> PreflightSriovUnassignment(k)
    [] k.op = "add_vnic"                     -> PreflightAdd(k)
    [] k.op = "remove_vnic"                  -> PreflightRemove(k)

-----------------------------------------------------------------------------
(* The commands, as the HMC carries them out.                                *)

\* chsyscfg changes a profile; chhwres changes the partition itself, and gives a
\* logical port or a slot number only when nobody has it.
Takes(k) ==
  CASE k.op = "assign_dedicated_pcie_slot" ->
         io' = [io EXCEPT ![k.lpar][k.thing] = "written"] /\ UNCHANGED <<owner, ports, vnics>>
    [] k.op = "unassign_dedicated_pcie_slot" ->
         io' = [io EXCEPT ![k.lpar][k.thing] = "absent"] /\ UNCHANGED <<owner, ports, vnics>>
    [] k.op = "assign_sriov_logical_port" ->
         owner[k.thing] = "none" /\ owner' = [owner EXCEPT ![k.thing] = k.lpar]
         /\ UNCHANGED <<io, ports, vnics>>
    [] k.op = "unassign_sriov_logical_port" ->
         ports' = [ports EXCEPT ![k.lpar] = {}] /\ UNCHANGED <<io, owner, vnics>>
    [] k.op = "add_vnic" ->
         \E n \in Slots \ NumbersOf(vnics[k.lpar]), sound \in BOOLEAN :
           vnics' = [vnics EXCEPT ![k.lpar] = @ \cup {<<n, sound>>}] /\ UNCHANGED <<io, owner, ports>>
    [] k.op = "remove_vnic" ->
         vnics' = [vnics EXCEPT ![k.lpar] = {v \in @ : v[1] # k.slot}] /\ UNCHANGED <<io, owner, ports>>

\* c's command takes effect: what a profile had of the slot before is nobody's any more.
Acts(c) ==
  LET k == call[c] IN
  /\ Takes(k)
  /\ wrote' = IF k.op \in Dedicated
              THEN {d \in wrote : call[d].lpar # k.lpar \/ call[d].thing # k.thing} \cup {c} ELSE wrote
  /\ touched' = IF k.op = "remove_vnic" THEN touched \cup {"vnics"} ELSE touched

-----------------------------------------------------------------------------
(* Judging the command by what is read back.                                 *)

\* Mutant: the other partitions are not read again.
VerifyUncontended(k, s, e, add) ==
  IF io[k.lpar] = [s.io EXCEPT ![k.thing] = IF add THEN "written" ELSE "absent"]
  THEN "ok" ELSE IF e /\ io[k.lpar] = s.io THEN "unchanged" ELSE "partial"

\* _verify_dedicated_change: as expected, and for an assign listed by nobody else;
\* or as before, in which case the command's own error is raised.
VerifyDedicated(k, s, e, add) ==
  IF io[k.lpar] = [s.io EXCEPT ![k.thing] = IF add THEN "written" ELSE "absent"] /\ (add => Holders(k) = {})
  THEN "ok" ELSE IF e /\ io[k.lpar] = s.io THEN "unchanged" ELSE "partial"

\* assign_sriov_logical_port: the port is this partition's and the profile is as
\* it was.  A failed command is an HMC refusal if all is as it was.
ReadAssignment(k, s, e) ==
  IF ~e /\ owner[k.thing] = k.lpar /\ ports[k.lpar] = s.ports THEN "ok"
  ELSE IF e /\ owner[k.thing] = s.owner /\ ports[k.lpar] = s.ports THEN "unchanged" ELSE "partial"

ReadUnassignment(k, s, e) ==
  IF ~e /\ ports[k.lpar] = {} THEN "ok" ELSE IF e /\ ports[k.lpar] = s.ports THEN "unchanged" ELSE "partial"

\* _reconcile_add: exactly one new vNIC, active and Operational.
Added(k, s) == {v \in vnics[k.lpar] : v[1] \notin NumbersOf(s.vnics)}
ReconcileAdd(k, s, e) ==
  IF ~e /\ \E v \in Added(k, s) : vnics[k.lpar] = {v} /\ v[2] THEN "ok" ELSE "partial"

\* _reconcile_remove: neither the slot nor its backing is there.
ReconcileRemove(k, e) == IF ~e /\ k.slot \notin NumbersOf(vnics[k.lpar]) THEN "ok" ELSE "partial"

Verdict(k, s, e) ==
  CASE k.op = "assign_dedicated_pcie_slot"   -> VerifyDedicated(k, s, e, TRUE)
    [] k.op = "unassign_dedicated_pcie_slot" -> VerifyDedicated(k, s, e, FALSE)
    [] k.op = "assign_sriov_logical_port"    -> ReadAssignment(k, s, e)
    [] k.op = "unassign_sriov_logical_port"  -> ReadUnassignment(k, s, e)
    [] k.op = "add_vnic"                     -> ReconcileAdd(k, s, e)
    [] k.op = "remove_vnic"                  -> ReconcileRemove(k, e)

-----------------------------------------------------------------------------
(* The steps of a call.                                                      *)

Begin(c) == \E k \in Request :
  /\ pc[c] = "idle" /\ c \notin late /\ calls < MaxCalls /\ calls' = calls + 1
  /\ call' = [call EXCEPT ![c] = k] /\ pc' = [pc EXCEPT ![c] = "preflight"]
  /\ outcome' = [outcome EXCEPT ![c] = "none"] /\ claim' = [claim EXCEPT ![c] = NoSlot]
  /\ landed' = landed \ {c} /\ wrote' = wrote \ {c}
  /\ UNCHANGED <<hmc, late, snap, failed, touched, others>>

Ends(c, how) == pc' = [pc EXCEPT ![c] = "idle"] /\ outcome' = [outcome EXCEPT ![c] = how]

Refuse(c) ==
  /\ pc[c] = "preflight" /\ Ends(c, "refused")
  /\ UNCHANGED <<hmc, late, call, snap, failed, claim, past, count>>

Check(c) ==
  /\ pc[c] = "preflight" /\ call[c].lpar \in Owned
  /\ LET go == Preflight(call[c])
     IN \/ go = "idle" /\ Ends(c, "idle") /\ UNCHANGED snap
        \/ go = "go" /\ pc' = [pc EXCEPT ![c] = "send"] /\ snap' = [snap EXCEPT ![c] = View(call[c])]
           /\ UNCHANGED outcome
  /\ UNCHANGED <<hmc, late, call, failed, claim, past, count>>

\* The command ran, and may have failed on this side all the same.
Send(c) == \E error \in BOOLEAN :
  /\ pc[c] = "send" /\ pc' = [pc EXCEPT ![c] = "read"]
  /\ Acts(c) /\ failed' = (IF error THEN failed \cup {c} ELSE failed)
  /\ UNCHANGED <<running, late, call, snap, ends, landed, count>>

\* The HMC refused it, or it timed out and runs later.
SendFails(c) == \E later \in BOOLEAN :
  /\ pc[c] = "send" /\ pc' = [pc EXCEPT ![c] = "read"]
  /\ failed' = failed \cup {c} /\ late' = (IF later THEN late \cup {c} ELSE late)
  /\ UNCHANGED <<hmc, call, snap, ends, past, count>>

Lands(c) ==
  /\ c \in late /\ late' = late \ {c} /\ Acts(c)
  /\ landed' = (IF pc[c] = "idle" THEN landed \cup {c} ELSE landed)
  /\ UNCHANGED <<running, call, pc, snap, failed, ends, count>>

Dropped(c) ==
  /\ c \in late /\ late' = late \ {c}
  /\ UNCHANGED <<hmc, call, pc, snap, failed, ends, past, count>>

\* An unread or unreadable answer proves nothing.
ReadBack(c) == \E read \in BOOLEAN :
  /\ pc[c] = "read"
  /\ Ends(c, IF read THEN Verdict(call[c], snap[c], c \in failed) ELSE "partial")
  /\ claim' = [claim EXCEPT ![c] =
                 IF read /\ call[c].op = "add_vnic" /\ Cardinality(Added(call[c], snap[c])) = 1
                 THEN CHOOSE n \in Slots : n \in NumbersOf(Added(call[c], snap[c])) ELSE NoSlot]
  /\ snap' = [snap EXCEPT ![c] = NoView] /\ failed' = failed \ {c}
  /\ UNCHANGED <<hmc, late, call, past, count>>

\* Anybody else edits a profile, moves a port, removes a vNIC, starts or stops a
\* partition.
OtherChanges ==
  /\ others < Others /\ others' = others + 1
  /\ \/ \E l \in Lpars, t \in Things, form \in {"absent", "written", "odd"} :
          io' = [io EXCEPT ![l][t] = form] /\ touched' = touched \cup {"slots"}
          /\ UNCHANGED <<owner, ports, vnics, running>>
     \/ \E t \in Things, l \in Lpars \cup {"none"} :
          owner' = [owner EXCEPT ![t] = l] /\ UNCHANGED <<io, ports, vnics, running, touched>>
     \/ \E l \in Lpars, ts \in SUBSET Things :
          ports' = [ports EXCEPT ![l] = ts] /\ UNCHANGED <<io, owner, vnics, running, touched>>
     \/ \E l \in Lpars : \E v \in vnics[l] :
          vnics' = [vnics EXCEPT ![l] = @ \ {v}] /\ touched' = touched \cup {"vnics"}
          /\ UNCHANGED <<io, owner, ports, running>>
     \/ \E l \in Lpars :
          running' = (running \cup {l}) \ (running \cap {l}) /\ UNCHANGED <<io, owner, ports, vnics, touched>>
  /\ UNCHANGED <<late, call, pc, snap, failed, ends, wrote, landed, calls>>

-----------------------------------------------------------------------------
Init ==
  /\ io = [l \in Lpars |-> [t \in Things |-> "absent"]] /\ owner = [t \in Things |-> "none"]
  /\ ports \in [Lpars -> {{}} \cup {{t} : t \in Things}] /\ vnics = [l \in Lpars |-> {}] /\ running = {}
  /\ late = {} /\ failed = {} /\ wrote = {} /\ landed = {} /\ touched = {} /\ others = 0 /\ calls = 0
  /\ call = [c \in Callers |-> NoCall] /\ pc = [c \in Callers |-> "idle"]
  /\ snap = [c \in Callers |-> NoView]
  /\ outcome = [c \in Callers |-> "none"] /\ claim = [c \in Callers |-> NoSlot]

Steps(c) == Begin(c) \/ Refuse(c) \/ Check(c) \/ Send(c) \/ SendFails(c) \/ Lands(c) \/ Dropped(c) \/ ReadBack(c)

Next == OtherChanges \/ \E c \in Callers : Steps(c)

Spec == Init /\ [][Next]_vars

-----------------------------------------------------------------------------
(* Properties.                                                               *)

Outcomes == {"none", "refused", "idle", "ok", "unchanged", "partial"}
Forms    == {"absent", "written", "odd"}

PcieTypeOK ==
  /\ io \in [Lpars -> [Things -> Forms]] /\ owner \in [Things -> Lpars \cup {"none"}]
  /\ ports \in [Lpars -> SUBSET Things] /\ vnics \in [Lpars -> SUBSET (Slots \X BOOLEAN)]
  /\ running \subseteq Lpars /\ late \subseteq Callers /\ failed \subseteq Callers
  /\ wrote \cup landed \subseteq Callers /\ touched \subseteq {"slots", "vnics"} /\ others \in 0..Others /\ calls \in 0..MaxCalls
  /\ call \in [Callers -> Request \cup {NoCall}] /\ pc \in [Callers -> {"idle", "preflight", "send", "read"}]
  /\ snap \in [Callers -> [io : [Things -> Forms], owner : Lpars \cup {"none"},
                           ports : SUBSET Things, vnics : SUBSET (Slots \X BOOLEAN)]]
  /\ outcome \in [Callers -> Outcomes] /\ claim \in [Callers -> Slots \cup {NoSlot}]

(* Two callers that ran a change each are never both told that it went well  *)
(* when the two changes collide: profiles of two partitions that list one    *)
(* slot, each as its own call wrote it, or two adds that claim one vNIC.     *)
(* Each passed its preflight before the other wrote; what is read back       *)
(* afterwards must give at least one of them away (_change_dedicated_slot,   *)
(* _verify_dedicated_change, _reconcile_add), however many other calls there *)
(* are.  A command that ran only after its call had ended tells nobody; a    *)
(* vNIC that is removed meanwhile gives its number to the next one, and what *)
(* somebody else writes into a profile is nobody's.                          *)
Told(c, op) == outcome[c] = "ok" /\ call[c].op = op

BothHold(c, d) ==
  /\ \A e \in {c, d} : Told(e, "assign_dedicated_pcie_slot") /\ e \in wrote \ landed
  /\ call[c].thing = call[d].thing /\ call[c].lpar # call[d].lpar
BothClaim(c, d) ==
  /\ \A e \in {c, d} : Told(e, "add_vnic")
  /\ call[c].lpar = call[d].lpar /\ claim[c] = claim[d]

CollisionsTold ==
  \A c, d \in Callers : c # d =>
    /\ "slots" \notin touched => ~BothHold(c, d)
    /\ "vnics" \notin touched => ~BothClaim(c, d)
=============================================================================
