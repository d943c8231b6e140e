------------------------------ MODULE LivePower ------------------------------
(* The lpar-power arm of the live tests (subtask 41,                          *)
(* scripts/live_test/lpar_power.py) and the recovery check after it.  The arm *)
(* makes partition A, powers it and deletes it; then makes a volume and       *)
(* provisions partition P on it, decommissions P and deletes the volume.      *)
(* Whatever fails, the teardown removes what is left and the baseline is      *)
(* compared.  A call is answered PASS or FAIL whatever it did, and what it    *)
(* asked for may be carried out later; other users restamp the partitions.    *)
(* The workflows called are taken by what they promise: LparWorkflow,         *)
(* Decommission, PowerLpar.                                                   *)
EXTENDS Naturals

CONSTANTS
  MaxFaults,    \* bound: calls that fail, or take effect without a good answer
  MaxTouches,   \* bound: changes other users make
  MaxStops      \* bound: interrupts and kills

PowerLiveAssumption == {MaxFaults, MaxTouches, MaxStops} \subseteq Nat

VARIABLES
  (* the HMC *)
  part,      \* the run's partitions: stamp ("-": there is none) and power
  vios,      \* on the VIOS: the run's volume, its mapping, the mapping's adapter
  flying,    \* what was sent and is not carried out yet
  (* the run *)
  pc,
  usable,    \* Run.vios: a VIOS holds the volume group
  tried,     \* Run.volume_attempted
  latch,     \* Run.decommission_failed
  halted,    \* an interrupt led to the teardown
  detached,  \* the teardown read that no mapping is left
  todo,      \* partitions the teardown has still to remove
  removed,   \* nothing the teardown has read so far is left
  rows,      \* what MANUAL RECOVERY rows name
  base,      \* the partitions the compare read: as before, others, or unread
  again,     \* the compare reads for the second time
  judged,    \* cleanup disposition of the recorded observations
  verdict,   \* exit status of the recovery check, 9 before it
  (* history *)
  looks,     \* last looks the run and the check have taken
  late,      \* what was carried out after which of them
  faults, touches, stops

hmc    == <<part, vios, flying>>
ending == <<detached, todo, removed>>
told   == <<rows, judged>>
past   == <<looks, late>>
counts == <<faults, touches, stops>>
vars   == <<hmc, pc, usable, tried, latch, halted, ending, base, again, told, verdict, past, counts>>

Names  == {"A", "P"}
Backed == {"volume", "mapping", "adapter"}
None   == [stamp |-> "-", on |-> FALSE]
There(n) == part[n].stamp # "-"
Left == {n \in Names : There(n) /\ part[n].stamp # "other"} \cup vios

At(step) == pc = step
Answers == [did : BOOLEAN, pass : BOOLEAN]
Fault(c) == (c => faults < MaxFaults) /\ faults' = faults + (IF c THEN 1 ELSE 0)

\* A call that cannot do what it is asked fails, which is no fault.
Answered(x, can) == (x.pass => x.did) /\ (x.did => can) /\ Fault(can /\ ~x.pass)
Mine(n) == There(n) /\ part[n].stamp # "other"

\* A read that shows whether c holds; one that fails shows nothing.
Shows(r, c) == (r => c) /\ Fault(c /\ ~r)

\* An interrupt before the teardown leads to it, and to the end after it; one in the
\* teardown or the compare ends the run.
Ending == {"abandon", "detach", "detached", "list", "next", "adopt", "down", "down_wait", "erase",
           "gone", "undo", "undone", "volume", "volume_left", "cmp_parts", "cmp_vios"}
Goes(next) ==
  \/ pc' = next /\ UNCHANGED <<halted, stops>>
  \/ /\ stops < MaxStops /\ stops' = stops + 1 /\ halted' = TRUE
     /\ pc' = IF pc \in Ending THEN "stopped" ELSE "abandon"
TornDown == IF halted THEN "ended" ELSE "cmp_parts"

Becomes(n, p) == part' = [part EXCEPT ![n] = p] /\ UNCHANGED vios
Arm == UNCHANGED <<ending, base, again, told, verdict, past, touches>>
Still == UNCHANGED <<usable, tried, latch>>

-----------------------------------------------------------------------------
(* Partition A.                                                               *)

\* _create_cases: only a create whose steps all went well is gone on with.
CreateA ==
  /\ At("create") /\ Arm /\ Still
  /\ \E x \in Answers, stamp \in {"none", "run"} :
       /\ Answered(x, TRUE)
       /\ IF x.did THEN Becomes("A", [stamp |-> stamp, on |-> FALSE]) ELSE UNCHANGED <<part, vios>>
       /\ flying' \in {flying, IF x.did THEN flying ELSE flying \cup {"A"}}
       /\ IF x.pass THEN Goes("on") \/ Goes("provision") ELSE Goes("provision")

\* A call that switches A, or whose job does so later.
Switches(x, on) ==
  /\ Becomes("A", IF x.did THEN [part["A"] EXCEPT !.on = on] ELSE part["A"])
  /\ flying' \in {flying, IF x.did THEN flying ELSE flying \cup {IF on THEN "on" ELSE "off"}}

Switch(step, on, next) ==
  /\ At(step) /\ Arm /\ Still
  /\ \E x \in Answers : Answered(x, There("A")) /\ Switches(x, on) /\ Goes(next)

\* _wait_for_state.
Wait(step, on, next, otherwise) ==
  /\ At(step) /\ Arm /\ Still /\ UNCHANGED hmc
  /\ \E r \in BOOLEAN :
       Shows(r, There("A") /\ part["A"].on = on) /\ Goes(IF r THEN next ELSE otherwise)

\* hmc_delete_lpar: not an activated partition, nor one with another's stamp.
Deletes(n, x) ==
  /\ Answered(x, Mine(n) /\ ~part[n].on)
  /\ Becomes(n, IF x.did THEN None ELSE part[n]) /\ UNCHANGED flying

Delete(step, next) ==
  /\ At(step) /\ Arm /\ Still
  /\ \E x \in Answers : Deletes("A", x) /\ Goes(next)

\* _current_configuration: an activation the HMC refused is tried by profile.
CurrentConfiguration ==
  \/ Switch("current", TRUE, "current_wait") \/ Wait("current_wait", TRUE, "off2", "current_off")
  \/ Wait("current_off", FALSE, "by_profile", "provision")
  \/ Switch("by_profile", TRUE, "profile_wait") \/ Wait("profile_wait", TRUE, "off2", "provision")

\* _composite_cases: start, restart, stop, a second stop and the first one replayed.
Composite ==
  \/ Switch("op1", TRUE, "op2") \/ Switch("op2", TRUE, "op3")
  \/ Switch("op3", FALSE, "op4") \/ Switch("op4", FALSE, "op5") \/ Switch("op5", FALSE, "settled")

\* _profile_activation: the first one, and the running partition is asked to start once
\* more and refuses to be deleted (_running_cases).
ProfileActivation == Switch("on", TRUE, "on_wait") \/ Wait("on_wait", TRUE, "running", "provision")
Running == Switch("running", TRUE, "refused") \/ Delete("refused", "off")

\* _power_off_to.
PowerOffTo(step, wait, next) == Switch(step, FALSE, wait) \/ Wait(wait, FALSE, next, "provision")

\* _partition_a: what does not settle is left to the teardown.
PartitionA ==
  \/ ProfileActivation \/ Running \/ PowerOffTo("off", "off_wait", "current")
  \/ CurrentConfiguration \/ PowerOffTo("off2", "off2_wait", "op1")
  \/ Composite \/ Wait("settled", FALSE, "delete", "provision") \/ Delete("delete", "provision")

-----------------------------------------------------------------------------
(* Partition P.                                                               *)

\* _provision: without a VIOS and a network it is skipped.
Skip == At("provision") /\ Arm /\ Still /\ UNCHANGED <<hmc, faults>> /\ Goes("abandon")

CreateVolume ==
  /\ At("provision") /\ usable /\ Arm /\ tried' = TRUE /\ UNCHANGED <<usable, latch, part>>
  /\ \E x \in Answers :
       /\ Answered(x, TRUE)
       /\ vios' = IF x.did THEN vios \cup {"volume"} ELSE vios
       /\ flying' \in {flying, IF x.did THEN flying ELSE flying \cup {"volume"}}
  /\ Goes("volume_listed")

VolumeListed ==
  /\ At("volume_listed") /\ Arm /\ Still /\ UNCHANGED hmc
  /\ \E r \in BOOLEAN : Shows(r, "volume" \in vios) /\ Goes(IF r THEN "provision_p" ELSE "abandon")

\* hmc_provision_lpar creates P, stamps it, maps the volume and switches P on, and may
\* stop at any of these.  What it does not name is adopted by the run's stamp.
Provision ==
  /\ At("provision_p") /\ Arm /\ Still
  /\ \E x \in Answers, stamp \in {"-", "none", "run"}, on \in BOOLEAN,
        made \in {{}, {"adapter"}, {"adapter", "mapping"}} :
       /\ Answered(x, TRUE) /\ (x.pass => stamp # "-")
       /\ stamp = "-" => made = {} /\ ~on
       /\ part' = [part EXCEPT !["P"] = [stamp |-> stamp, on |-> on]]
       /\ vios' = vios \cup made
       /\ flying' \in {flying, IF x.pass THEN flying
                               ELSE IF stamp = "-" THEN flying \cup {"P"}
                               ELSE IF made # {"adapter", "mapping"} THEN flying \cup {"mapping"}
                               ELSE flying}
       /\ Goes("abandon") \/ ((x.pass \/ stamp = "run") /\ Goes("preview"))

\* _decommission_cases: the latch is set before the first read; a preview that shows
\* something else than the run made, or changed something, keeps it.
Preview ==
  /\ At("preview") /\ Arm /\ latch' = TRUE /\ UNCHANGED <<usable, tried, hmc, faults>>
  /\ \/ There("P") /\ {"volume", "mapping"} \subseteq vios /\ Goes("decommission")
     \/ Goes("abandon")

\* hmc_decommission_lpar: off, the mapping, the partition, and it may stop at each.
DecommissionP ==
  /\ At("decommission") /\ Arm /\ Still /\ UNCHANGED flying
  /\ \E x \in Answers, got \in 0..3, kept \in SUBSET {"adapter"} :
       /\ Answered(x, Mine("P")) /\ (x.pass => got = 3) /\ (got > 0 => Mine("P"))
       /\ part' = [part EXCEPT !["P"] = IF got = 3 THEN None ELSE [@ EXCEPT !.on = @ /\ got = 0]]
       /\ vios' = IF got < 2 THEN vios ELSE vios \ ({"mapping", "adapter"} \ kept)
       /\ Goes(IF x.pass THEN "prove" ELSE "abandon")

\* The latch opens only on a complete proof.
Prove ==
  /\ At("prove") /\ Arm /\ UNCHANGED <<usable, tried, hmc, faults>>
  /\ latch' \in {TRUE, There("P") \/ "mapping" \in vios \/ "volume" \notin vios}
  /\ Goes("abandon")

-----------------------------------------------------------------------------
(* The teardown.                                                              *)

Sees(look) == looks' = looks \cup {look} /\ UNCHANGED late
Tells(named) == rows' = rows \cup named /\ UNCHANGED judged
Down == UNCHANGED <<usable, tried, latch, base, again, verdict, touches>>
Blind == UNCHANGED past
Reading == UNCHANGED hmc

\* _teardown: open operations are abandoned, their jobs may still come.  A latch that
\* is still set keeps everything.
Abandon ==
  /\ At("abandon") /\ Down /\ Blind /\ Reading /\ UNCHANGED <<todo, faults>>
  /\ removed' = ~latch /\ detached' = ~tried
  /\ IF latch THEN Tells({"latch"}) /\ Goes(TornDown)
     ELSE UNCHANGED told /\ Goes(IF tried THEN "detach" ELSE "list")

\* _detach: mappings that are listed are detached, then the listing is read again.
Detach(step, next) ==
  /\ At(step) /\ Down /\ Blind /\ UNCHANGED <<ending, told, part, flying>>
  /\ \/ Fault("mapping" \in vios) /\ UNCHANGED vios
     \/ /\ "mapping" \in vios
        /\ \E x \in Answers, kept \in SUBSET {"adapter"} :
             Answered(x, TRUE) /\ vios' = IF x.did THEN vios \ ({"mapping", "adapter"} \ kept) ELSE vios
  /\ Goes(next)

Detached ==
  /\ At("detached") /\ Down /\ Sees("detach") /\ Reading /\ UNCHANGED <<todo, removed, told>>
  /\ \E r \in BOOLEAN : Shows(r, "mapping" \notin vios) /\ detached' = r
  /\ Goes("list")

\* Without a listing both names are looked for.
List ==
  /\ At("list") /\ Down /\ Sees("list") /\ Reading /\ UNCHANGED <<detached, told>>
  /\ \E r \in BOOLEAN :
       /\ Fault(~r) /\ todo' = {n \in Names : r => There(n)} /\ removed' = (r /\ detached)
  /\ Goes("next")

\* The partitions are removed in the order of their names.
Cur == IF "A" \in todo THEN "A" ELSE "P"
Keeps == removed' = FALSE /\ Tells({Cur}) /\ todo' = todo \ {Cur} /\ Goes("next")
Moves(next) == UNCHANGED <<removed, todo, told>> /\ Goes(next)
Removing == Down /\ Blind /\ UNCHANGED detached

\* P is kept while its mapping may be there; _teardown_storage comes last.
NextPartition ==
  /\ At("next") /\ Removing /\ Reading /\ UNCHANGED faults
  /\ IF todo = {"P"} /\ ~detached THEN Keeps
     ELSE Moves(IF todo # {} THEN "adopt" ELSE IF tried THEN "undo" ELSE TornDown)

\* _remove: only while it carries the run's stamp.
Adopt ==
  /\ At("adopt") /\ Removing /\ Reading
  /\ \E r \in BOOLEAN : Shows(r, part[Cur].stamp = "run") /\ (IF r THEN Moves("down") ELSE Keeps)

\* hmc_power_off_lpar, unless it reads as not activated.
PowerDown ==
  /\ At("down") /\ Removing /\ UNCHANGED <<vios, flying>>
  /\ \/ There(Cur) /\ ~part[Cur].on /\ Moves("erase") /\ UNCHANGED <<part, faults>>
     \/ \E x \in Answers :
          /\ Answered(x, Mine(Cur))
          /\ part' = IF x.did THEN [part EXCEPT ![Cur].on = FALSE] ELSE part
          /\ Moves("down_wait")

DownWait ==
  /\ At("down_wait") /\ Removing /\ Reading
  /\ \E r \in BOOLEAN : Shows(r, There(Cur) /\ ~part[Cur].on) /\ (IF r THEN Moves("erase") ELSE Keeps)

Erase ==
  /\ At("erase") /\ Removing
  /\ \E x \in Answers : Deletes(Cur, x) /\ Moves("gone")

\* The first listing without the name is believed, one with it is read again.
Gone ==
  /\ At("gone") /\ Removing /\ Reading
  /\ \E r \in BOOLEAN :
       /\ Shows(r, ~There(Cur))
       /\ IF r THEN UNCHANGED <<removed, told>> /\ todo' = todo \ {Cur} /\ Goes("next") ELSE Keeps

\* The mapping once more, then the volume.
Undone ==
  /\ At("undone") /\ Down /\ Sees("mapping") /\ Reading /\ UNCHANGED <<detached, todo>>
  /\ \E r \in BOOLEAN :
       /\ Shows(r, "mapping" \notin vios)
       /\ IF r THEN UNCHANGED <<removed, told>> /\ Goes("volume")
          ELSE removed' = FALSE /\ Tells({"mapping", "volume"}) /\ Goes(TornDown)

\* hmc_delete_virtual_disk takes no mapped volume.
DeleteVolume ==
  /\ At("volume") /\ Removing /\ UNCHANGED <<part, flying>>
  /\ \/ "volume" \notin vios /\ UNCHANGED <<vios, faults>>
     \/ \E x \in Answers :
          /\ Answered(x, "mapping" \notin vios)
          /\ vios' = IF x.did THEN vios \ {"volume"} ELSE vios
  /\ Moves("volume_left")

\* A listing that fails counts as one that names the volume.
VolumeLeft ==
  /\ At("volume_left") /\ Down /\ Sees("volume") /\ Reading /\ UNCHANGED <<detached, todo>>
  /\ \E r \in BOOLEAN :
       /\ Shows(r, "volume" \notin vios)
       /\ IF r THEN UNCHANGED <<removed, told>> ELSE removed' = FALSE /\ Tells({"volume"})
  /\ Goes(TornDown)

-----------------------------------------------------------------------------
(* The compare, and live_test_recovery.py.                                    *)

\* _read_baseline: the partitions first, then what is on the VIOS.
ComparePartitions ==
  /\ At("cmp_parts") /\ Sees("cmp_parts") /\ Reading
  /\ UNCHANGED <<usable, tried, latch, ending, told, again, verdict, touches>>
  /\ \E r \in BOOLEAN :
       Fault(~r) /\ base' = IF ~r THEN "unread" ELSE IF \E n \in Names : There(n) THEN "differs" ELSE "same"
  /\ Goes("cmp_vios")

\* _observe_a, _observe_lifecycle, _observe_p: one disposition for every operation that ran.
Observe(same) == judged' = IF removed /\ same THEN "passed" ELSE "failed"

\* _compare reads once more what differs; a server adapter that is new gets a row.
CompareVios ==
  /\ At("cmp_vios") /\ Sees("cmp_vios") /\ Reading
  /\ UNCHANGED <<usable, tried, latch, ending, base, verdict, touches>>
  /\ \E r \in BOOLEAN :
       LET same == base = "same" /\ r /\ vios = {} IN
       /\ Fault(~r) /\ again' = TRUE
       /\ IF ~same /\ ~again THEN Goes("cmp_parts") /\ UNCHANGED told
          ELSE /\ rows' = IF r /\ base # "unread" THEN rows \cup (vios \cap {"adapter"}) ELSE rows
               /\ Observe(same)
               /\ pc' = "done" /\ UNCHANGED <<halted, stops>>

Kill ==
  /\ pc \notin {"done", "ended", "stopped", "killed"} /\ stops < MaxStops /\ stops' = stops + 1
  /\ pc' = "killed"
  /\ UNCHANGED <<hmc, usable, tried, latch, halted, ending, base, again, told, verdict, past, faults, touches>>

\* check_lpar_power: what the run's prefixes name.  Without the whole document of
\* the run, or with an unreadable state, the exit status is 2.
Check ==
  /\ pc \in {"done", "ended", "stopped", "killed"} /\ verdict = 9 /\ looks' = looks \cup {"check"}
  /\ \E read \in BOOLEAN :
       verdict' = IF ~read \/ pc # "done" THEN 2
                  ELSE IF vios # {} \/ \E n \in Names : There(n) THEN 1 ELSE 0
  /\ UNCHANGED <<hmc, pc, usable, tried, latch, halted, ending, base, again, told, late, counts>>

-----------------------------------------------------------------------------
(* The HMC and its other users.                                               *)

\* What outlived its call; a partition made so is stamped by nobody, and only one
\* that is there is switched or gets a mapping.
Land(x) ==
  /\ flying' = flying \ {x}
  /\ part' = CASE x \in Names -> [part EXCEPT ![x] = [stamp |-> "none", on |-> FALSE]]
               [] x \in {"on", "off"} /\ There("A") -> [part EXCEPT !["A"].on = (x = "on")]
               [] OTHER -> part
  /\ vios' = CASE x = "volume" -> vios \cup {"volume"}
               [] x = "mapping" /\ There("P") /\ "volume" \in vios -> vios \cup {"mapping", "adapter"}
               [] OTHER -> vios
  /\ late' = late \cup {<<y, l>> : y \in (IF x = "mapping" THEN {"mapping", "adapter"} ELSE {x}), l \in looks}
  /\ UNCHANGED <<pc, usable, tried, latch, halted, ending, base, again, told, verdict, looks, counts>>

Touch(n) ==
  /\ There(n) /\ touches < MaxTouches /\ touches' = touches + 1
  /\ part' = [part EXCEPT ![n].stamp = "other"]
  /\ UNCHANGED <<vios, flying, pc, usable, tried, latch, halted, ending, base, again, told, verdict,
                 past, faults, stops>>

-----------------------------------------------------------------------------
\* _preconditions: a baseline that was read and shows nothing of an earlier run.
Init ==
  /\ part = [n \in Names |-> None] /\ vios = {} /\ flying = {} /\ pc = "create" /\ usable \in BOOLEAN
  /\ tried = FALSE /\ latch = FALSE /\ halted = FALSE /\ detached = FALSE /\ todo = {}
  /\ removed = FALSE /\ rows = {} /\ base = "unread"
  /\ again = FALSE /\ judged = "none" /\ verdict = 9 /\ looks = {} /\ late = {}
  /\ faults = 0 /\ touches = 0 /\ stops = 0

Next ==
  \/ CreateA \/ PartitionA
  \/ Skip \/ CreateVolume \/ VolumeListed \/ Provision \/ Preview \/ DecommissionP \/ Prove
  \/ Abandon \/ Detach("detach", "detached") \/ Detached \/ List
  \/ NextPartition \/ Adopt \/ PowerDown \/ DownWait \/ Erase \/ Gone
  \/ Detach("undo", "undone") \/ Undone \/ DeleteVolume \/ VolumeLeft
  \/ ComparePartitions \/ CompareVios \/ Kill \/ Check
  \/ \E x \in flying : Land(x)
  \/ \E n \in Names : Touch(n)

Spec == Init /\ [][Next]_vars

-----------------------------------------------------------------------------
(* Properties.                                                                *)

PowerLiveTypeOK ==
  /\ part \in [Names -> [stamp : {"-", "none", "run", "other"}, on : BOOLEAN]]
  /\ vios \subseteq Backed /\ flying \subseteq Names \cup Backed \cup {"on", "off"}
  /\ rows \subseteq Names \cup Backed \cup {"latch"} /\ judged \in {"none", "passed", "failed"}
  /\ verdict \in {0, 1, 2, 9}

\* A run that came to its end has a recovery row for everything of it that is left,
\* unless that was carried out after the teardown had looked for it, or the latch of
\* the decommission keeps it.
Look(x) == IF x \in Names THEN "list" ELSE IF x = "adapter" THEN "cmp_vios" ELSE x
PowerLeftTold ==
  pc \in {"done", "ended"} =>
    \A x \in Left : x \in rows \/ "latch" \in rows \/ <<x, Look(x)>> \in late
                    \/ (x = "adapter" /\ judged # "passed")

\* Observations called clean, and a recovery check that exits 0, are right: nothing is
\* left but what was carried out after their last look.
PowerClean ==
  /\ judged = "passed" => \A x \in Left : <<x, IF x \in Names THEN "cmp_parts" ELSE "cmp_vios">> \in late
  /\ verdict = 0 => \A x \in Left : <<x, "check">> \in late

\* P goes before its mapping, which no tool could then detach, only when the mapping
\* was made after the run had seen that there was none.
MappingReachable == "mapping" \in vios /\ ~There("P") => <<"mapping", "detach">> \in late
=============================================================================
