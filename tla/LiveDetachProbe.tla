--------------------------- MODULE LiveDetachProbe ---------------------------
(* The detach probe of the live tests (scripts/live_test/detach_probe.py): a  *)
(* scratch partition and a volume are made, the volume is attached, the       *)
(* partition is activated to Open Firmware and the volume detached under it;  *)
(* then all of it is deleted again.  Whatever the probe did not expect stops  *)
(* it: it retains what there is, says so, and compares the system with its    *)
(* baseline.  No write that failed is tried again.                            *)
EXTENDS Naturals

CONSTANTS
  MaxFaults,    \* bound: calls that fail, or take effect without a good answer, and stops
  MaxTouches    \* bound: changes other users make

ProbeLiveAssumption == {MaxFaults, MaxTouches} \subseteq Nat

VARIABLES
  (* the HMC *)
  box,       \* the scratch partition: whose it is, and its state
  volume,    \* the run's volume is there
  mapping,   \* its mapping: "none", "adapters" without it, or "mapped"
  flying,    \* what was sent and is not carried out yet
  drift,     \* others changed mappings, adapters or volumes of their own
  (* the run *)
  pc,        \* the step
  accepted,  \* the last write was reported as done
  rows,      \* a MANUAL RECOVERY row tells of what may be left
  verdict,   \* the comparison with the baseline: "none", "pass" or "fail"
  (* history *)
  moved,     \* what changed since the run last read it: who, state, mapping
  harm,      \* what the run wrote to that had not read as it should
  faults, touches

hmc  == <<box, volume, mapping>>
vars == <<hmc, flying, drift, pc, accepted, rows, verdict, moved, harm, faults, touches>>

None == [whose |-> "none", state |-> "off"]
There == box.whose # "none"
Ours == box.whose = "run"
Fault(c) == (c => faults < MaxFaults) /\ faults' = faults + (IF c THEN 1 ELSE 0)
Answers == [did : BOOLEAN, pass : BOOLEAN]

\* retained: a row, and the comparison.
Retained == rows' = TRUE /\ pc' = "compare"
Goes(ok, next) == IF ok THEN pc' = next /\ UNCHANGED rows ELSE Retained

-----------------------------------------------------------------------------
(* Reads.  Each must show just what the probe expects.                        *)

Check(step, expected, parts, next) ==
  /\ pc = step
  /\ \E r \in BOOLEAN : (r => expected) /\ Fault(expected /\ ~r) /\ Goes(r, next)
  /\ moved' = moved \ parts
  /\ UNCHANGED <<hmc, flying, drift, accepted, verdict, harm, touches>>

\* mapping_rows and adapter_rows, against the baseline: nothing of the scratch partition's;
\* attached_adapters: just its pair of adapters and the one mapping.
Unmapped == mapping = "none" /\ ~drift
Paired == mapping = "mapped" /\ ~drift

\* Mutant of Settled (ProbeOwnRemoved): the inventory is read, and not compared.
SettledAnyhow(step, next) == Check(step, TRUE, {"mapping"}, next)

\* settled: mappings and adapters equal the protected baseline.
Settled(step, next) == Check(step, Unmapped, {"mapping"}, next)

\* context: the scratch partition is the run's by UUID and token, and in this state.
Context(step, state, next) ==
  Check(step, accepted /\ Ours /\ box.state = state, {"who", "state"}, next)

\* Volumes differ from the baseline by just what the run made.
Volumes(step, there, next) ==
  Check(step, accepted /\ volume = there /\ ~drift, {}, next)

-----------------------------------------------------------------------------
(* Writes.  A call may fail, and be carried out all the same or later.        *)

Hits(x, what) ==
  harm' = harm \cup (IF ~x.did THEN {} ELSE {w \in what \ moved :
                       \/ w = "who" /\ ~Ours
                       \/ w = "state" /\ box.state # "off"
                       \/ w = "mapping" /\ mapping # "none"})

Write(step, x, can, what, next) ==
  /\ pc = step /\ pc' = next /\ accepted' = x.pass
  /\ (x.pass => x.did) /\ (x.did => can) /\ Fault(can /\ ~x.pass)
  /\ flying' \in {flying, IF x.did THEN flying ELSE flying \cup {what}}
  /\ UNCHANGED <<drift, rows, verdict, moved, touches>>

CreatePartition ==
  /\ UNCHANGED <<volume, mapping, harm>>
  /\ \E x \in Answers : Write("create", x, ~There, "create", "adopt")
                        /\ box' = IF x.did THEN [whose |-> "run", state |-> "off"] ELSE box

CreateVolume ==
  /\ UNCHANGED <<box, mapping, harm>>
  /\ \E x \in Answers : Write("volume", x, ~volume, "volume", "volumes")
                        /\ volume' = (volume \/ x.did)

\* The attach may leave its adapters without a mapping.
Attach ==
  /\ UNCHANGED <<box, volume, harm>>
  /\ \E x \in Answers : Write("attach", x, There /\ volume, "attach", "attached")
                        /\ mapping' \in IF x.did THEN {"mapped"} ELSE {mapping, "adapters"}

Activate ==
  /\ UNCHANGED <<volume, mapping>>
  /\ \E x \in Answers : Write("activate", x, There, "on", "activated") /\ Hits(x, {"who"})
                        /\ box' = IF x.did THEN [box EXCEPT !.state = "firmware"] ELSE box

\* What the detach is reported as does not matter: it is what the probe looks into.
Detach ==
  /\ UNCHANGED <<box, volume, harm>>
  /\ \E x \in Answers : Write("detach", x, mapping = "mapped", "detach", "detached")
                        /\ mapping' \in IF x.did THEN {"none", "adapters"} ELSE {mapping}

DeleteVolume ==
  /\ UNCHANGED <<box, mapping>>
  /\ \E x \in Answers : Write("vdelete", x, volume, "vdelete", "vdeleted")
                        /\ volume' = (volume /\ ~x.did) /\ Hits(x, {"mapping"})

PowerOff ==
  /\ UNCHANGED <<volume, mapping>>
  /\ \E x \in Answers : Write("off", x, There, "off", "offed") /\ Hits(x, {"who"})
                        /\ box' = IF x.did THEN [box EXCEPT !.state = "off"] ELSE box

DeletePartition ==
  /\ UNCHANGED <<volume, mapping>>
  /\ \E x \in Answers : Write("delete", x, There /\ box.state = "off", "delete", "deleted")
                        /\ Hits(x, {"who", "state"}) /\ box' = IF x.did THEN None ELSE box

-----------------------------------------------------------------------------
(* execute, cycle, activate and cleanup: one step after the other.            *)

Baseline ==
  /\ pc = "baseline" /\ (\E r \in BOOLEAN : Fault(~r) /\ Goes(r, "create"))
  /\ UNCHANGED <<hmc, flying, drift, accepted, verdict, moved, harm, touches>>

Execute ==
  \/ CreatePartition \/ Context("adopt", "off", "volume") \/ CreateVolume
  \/ Volumes("volumes", TRUE, "settled")

Cycle ==
  \/ Settled("settled", "context") \/ Context("context", "off", "attach") \/ Attach
  \/ Check("attached", accepted /\ Paired, {"mapping"}, "ready")
  \/ Context("ready", "off", "activate") \/ Activate
  \/ Check("activated", accepted /\ box.state = "firmware" /\ Paired, {"mapping"}, "running")
  \/ Context("running", "firmware", "detach") \/ Detach
  \/ Settled("detached", "detachedin")
  \/ Check("detachedin", Ours /\ box.state = "firmware", {"who", "state"}, "cleanup")

Cleanup ==
  \/ Settled("cleanup", "owned")
  \/ Check("owned", Ours /\ box.state = "firmware" /\ volume /\ ~drift, {"who", "state"}, "vdelete")
  \/ DeleteVolume \/ Volumes("vdeleted", FALSE, "settled2")
  \/ Settled("settled2", "owned2") \/ Context("owned2", "firmware", "off")
  \/ PowerOff \/ Check("offed", accepted /\ box.state = "off", {"state"}, "settled3")
  \/ Settled("settled3", "owned3") \/ Context("owned3", "off", "delete")
  \/ DeletePartition \/ Check("deleted", accepted /\ ~There, {}, "compare")

\* The last comparison is made however the probe ended.
Compare ==
  /\ pc = "compare" /\ pc' = "end"
  /\ \E r \in BOOLEAN :
       /\ (r => ~There /\ ~volume /\ Unmapped)
       /\ Fault(~r /\ ~There /\ ~volume /\ Unmapped)
       /\ verdict' = IF r THEN "pass" ELSE "fail"
  /\ UNCHANGED <<hmc, flying, drift, accepted, rows, moved, harm, touches>>

-----------------------------------------------------------------------------
(* Interrupts, and the HMC and its other users.                               *)

Calls == [create |-> "create", volume |-> "volume", attach |-> "attach", activate |-> "on",
          detach |-> "detach", vdelete |-> "vdelete", off |-> "off", delete |-> "delete"]

Interrupt ==
  /\ pc \notin {"baseline", "compare", "end"} /\ Fault(TRUE) /\ Retained
  /\ flying' = flying \cup (IF pc \in DOMAIN Calls THEN {Calls[pc]} ELSE {})
  /\ UNCHANGED <<hmc, drift, accepted, verdict, moved, harm, touches>>

Land(x) ==
  /\ pc # "end" /\ flying' = flying \ {x}
  /\ box' = CASE x = "create" /\ ~There -> [whose |-> "run", state |-> "off"]
              [] x = "on" /\ There -> [box EXCEPT !.state = "firmware"]
              [] x = "off" /\ There -> [box EXCEPT !.state = "off"]
              [] x = "delete" /\ box.state = "off" -> None
              [] OTHER -> box
  /\ volume' = CASE x = "volume" -> TRUE [] x = "vdelete" -> FALSE [] OTHER -> volume
  /\ mapping' = CASE x = "attach" /\ There /\ volume -> "mapped" [] x = "detach" -> "none"
                  [] OTHER -> mapping
  /\ moved' = moved \cup (IF x \in {"on", "off"} THEN {"state"} ELSE {"mapping"})
  /\ UNCHANGED <<drift, pc, accepted, rows, verdict, harm, faults, touches>>

\* Others take the partition over or power it, map the volume, or change something else.
Touch ==
  /\ pc \notin {"compare", "end"} /\ touches < MaxTouches /\ touches' = touches + 1
  /\ \/ There /\ box' = [box EXCEPT !.whose = "other"] /\ moved' = moved \cup {"who"}
        /\ UNCHANGED <<mapping, drift>>
     \/ There /\ box' = [box EXCEPT !.state = "on"] /\ moved' = moved \cup {"state"}
        /\ UNCHANGED <<mapping, drift>>
     \/ volume /\ There /\ mapping' = "mapped" /\ moved' = moved \cup {"mapping"}
        /\ UNCHANGED <<box, drift>>
     \/ drift' = TRUE /\ UNCHANGED <<box, mapping, moved>>
  /\ UNCHANGED <<volume, flying, pc, accepted, rows, verdict, harm, faults>>

Init ==
  /\ box = None /\ volume = FALSE /\ mapping = "none" /\ flying = {} /\ drift = FALSE
  /\ pc = "baseline" /\ accepted = TRUE /\ rows = FALSE /\ verdict = "none"
  /\ moved = {} /\ harm = {} /\ faults = 0 /\ touches = 0

Next ==
  \/ Baseline \/ Execute \/ Cycle \/ Cleanup \/ Compare
  \/ Interrupt \/ Touch \/ \E x \in flying : Land(x)

Spec == Init /\ [][Next]_vars

-----------------------------------------------------------------------------
(* Properties.                                                                *)

ProbeLiveTypeOK ==
  /\ box \in [whose : {"none", "run", "other"}, state : {"off", "on", "firmware"}]
  /\ {volume, drift, accepted, rows} \subseteq BOOLEAN
  /\ mapping \in {"none", "adapters", "mapped"} /\ verdict \in {"none", "pass", "fail"}
  /\ moved \cup harm \subseteq {"who", "state", "mapping"}

\* A probe that tells of nothing left leaves nothing, and nothing that it sent is still to
\* come.
ProbeLeftTold ==
  pc = "end" /\ ~rows =>
    /\ box.whose # "run" /\ ~volume /\ flying \cap {"create", "volume", "attach"} = {}
    /\ (mapping = "none" \/ drift \/ touches > 0)

\* A comparison that passes has found nothing of the run's.
ProbeClean == verdict = "pass" => ~There /\ ~volume /\ mapping = "none"

\* The probe activates, powers off and deletes only the partition it has read to be its own,
\* deletes it only after it has read as not activated, and the volume only after it has read
\* as not mapped; what changes after that read is beyond it.
ProbeOwnRemoved == harm = {}
=============================================================================
