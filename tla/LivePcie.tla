------------------------------ MODULE LivePcie ------------------------------
(* The dedicated-slot arm of the live tests (subtask 24) and the recovery    *)
(* check after it.  scripts/live_test/pcie.py creates a probe partition and  *)
(* then a fixture partition under names no other run uses, both stamped with *)
(* a marker of this run, moves a dedicated slot in and out of the fixture's  *)
(* profile, and removes slot and partitions again, each only while it reads  *)
(* back as its own; scripts/live_test_recovery.py looks for what is left.    *)
(*                                                                           *)
(* A call is answered PASS or FAIL whatever it did, a create that failed may *)
(* still be carried out later, and other users of the HMC may take, replace  *)
(* or change the partitions meanwhile.  One run, on an admitted environment, *)
(* with slots no other partition wants.                                      *)
EXTENDS Naturals, FiniteSets

CONSTANTS
  Pinned,       \* the configuration names the slot
  MaxFaults,    \* bound: calls that fail, or take effect without a good answer
  MaxTouches,   \* bound: changes other users make
  MaxStops      \* bound: interrupts and kills

PcieLiveAssumption == Pinned \in BOOLEAN /\ {MaxFaults, MaxTouches, MaxStops} \subseteq Nat

VARIABLES
  (* the HMC *)
  part,      \* the partitions by name: uuid (0: there is none), stamp, slots of the profile
  flying,    \* creates that were sent and are not carried out yet
  (* the run *)
  pc, fx,    \* _DedicatedFixture
  seen,      \* what the last reads of a guard answered, and the last call's status
  again,     \* the probe is cleaned up for the second time
  rows,      \* partitions a MANUAL RECOVERY row names
  judged,    \* cleanup disposition of the recorded additions
  partial, doc,
  verdict,   \* exit status of the recovery check, 9 before it
  (* history *)
  denied,    \* how often the HMC answered HSCL8012 for a partition
  late,      \* partitions made after the second such answer
  stale,     \* what others changed since the run last read it
  harm,      \* deletes that hit what the run had not seen to be its own, or bare
  faults, touches, stops

hmc    == <<part, flying>>
told   == <<rows, judged>>
past   == <<denied, late, stale, harm>>
counts == <<faults, touches, stops>>
vars   == <<hmc, pc, fx, seen, again, told, partial, doc, verdict, past, counts>>

Names == {"probe", "fixture"}
A == <<"A", 0>>  \* io_slots elements: a slot and whether it is required
B == <<"B", 1>>
C == <<"C", 0>>
X == <<"X", 0>>  \* a slot another user adds
Elements == {A, B, C, X}

NoPart == [uuid |-> 0, stamp |-> "none", slots |-> {}]
NoDoc  == [written |-> FALSE, partial |-> FALSE, base |-> {}]

\* What was read: {} when it could not be, else the set of its one value.
Unread == {}
There(n) == part[n].uuid # 0
When(c, x) == IF c THEN {x} ELSE {}

-----------------------------------------------------------------------------
(* Calls.                                                                    *)

\* RunState.call: PASS says that the call did what it was asked.  A call that cannot is
\* no fault.
Answers == [did : BOOLEAN, pass : BOOLEAN]
Fault(c) == (c => faults < MaxFaults) /\ faults' = faults + (IF c THEN 1 ELSE 0)
Answered(x, can) == (x.pass => x.did) /\ (x.did => can) /\ Fault(can /\ ~x.pass)

\* A read of what the partition would answer; a partition that is not there has none.
Reads(r, n, value) ==
  /\ UNCHANGED <<hmc, denied, late, harm>>
  /\ \/ There(n) /\ r = {value} /\ UNCHANGED faults
     \/ ~There(n) /\ r = Unread /\ UNCHANGED faults
     \/ There(n) /\ r = Unread /\ faults < MaxFaults /\ faults' = faults + 1

ReadsSlots(r, n) == Reads(r, n, part[n].slots) /\ stale' = stale \ {<<n, "slots">>}
ReadsWho(r, n)   == Reads(r, n, part[n].stamp) /\ stale' = stale \ {<<n, "who">>}
ReadsUuid(r, n)  == Reads(r, n, part[n].uuid) /\ UNCHANGED stale

Lists(r, e) == \E s \in r : e \in s
Becomes(n, p) == part' = [part EXCEPT ![n] = p] /\ UNCHANGED <<flying, past>>

\* An interrupt during a call leaves its effect and nothing else: the steps go to
\* their teardown, and the teardown itself is given up.
Teardown == {"a_slots", "a_uuid", "a_who", "a_unplug", "a_after", "c_slots", "c_uuid", "c_who", "delete"}
Scenario == {"setup", "populated", "add", "added", "drop", "dropped", "drop_b", "dropped_b", "drop_a"}

At(step) == pc = step

Goes(f, s, r, next) ==
  /\ \/ fx' = f /\ seen' = s /\ rows' = r /\ pc' = next /\ UNCHANGED <<partial, stops>>
     \/ /\ stops < MaxStops /\ stops' = stops + 1 /\ partial' = TRUE
        /\ pc' = IF pc \in Scenario THEN "restore" ELSE IF again \/ pc \in Teardown THEN "write" ELSE "clean"
        /\ UNCHANGED <<fx, seen, rows>>
  /\ UNCHANGED <<doc, verdict, touches>>

To(next) == Goes(fx, seen, rows, next)
Here == UNCHANGED <<again, judged>>

\* chsyscfg -r prof and the two operations change the profile the partition has then.
Plugs(x, n, e) ==
  /\ Becomes(n, IF x.did THEN [part[n] EXCEPT !.slots = @ \cup {e}] ELSE part[n])
Unplugs(x, n, e) ==
  /\ Becomes(n, IF x.did THEN [part[n] EXCEPT !.slots = @ \ {e}] ELSE part[n])

-----------------------------------------------------------------------------
(* ST29 and ST30: the baseline, the probe and the fixture.                   *)

\* capture_dedicated_baseline: without a slot it can prove free the arm is skipped.
Select ==
  /\ At("select") /\ Here /\ UNCHANGED <<hmc, past, faults>>
  /\ \/ Goes([fx EXCEPT !.marked = TRUE], seen, rows, "probe")
     \/ To("write")

\* hmc_create_lpar: the partition, then its stamp, then its assignment.  One whose
\* request got no answer goes no further, and may still be made.
Creates(n, x, e, stamped) ==
  \/ /\ ~x.did /\ UNCHANGED <<part, past>>
     /\ flying' \in {flying, flying \cup {n}} /\ ~stamped
  \/ /\ x.did
     /\ \E stamp \in {"none", "run"}, slots \in {{}, e} :
          /\ stamped => stamp = "run"
          /\ Becomes(n, [uuid |-> 1, stamp |-> stamp, slots |-> slots])

CreateProbe ==
  /\ At("probe") /\ Here
  /\ \E x \in Answers, known \in BOOLEAN :
       /\ Answered(x, TRUE) /\ Creates("probe", x, {A}, FALSE)
       /\ IF x.pass
          THEN Goes([fx EXCEPT !.probe_created = TRUE, !.probe_uuid = IF known THEN {1} ELSE Unread],
                    seen, rows, "probe_who")
          ELSE To("probe_look")

\* What a lookup of a partition whose create failed answers: HSCL8012, a
\* description, or nothing.
Looks == {"missing", "unread", "none", "run", "other"}
Looked(look, n) ==
  /\ UNCHANGED <<hmc, late, stale, harm>>
  /\ denied' = IF look = "missing" THEN [denied EXCEPT ![n] = @ + 1] ELSE denied
  /\ \/ ~There(n) /\ look = "missing" /\ UNCHANGED faults
     \/ There(n) /\ look = part[n].stamp /\ UNCHANGED faults
     \/ look = "unread" /\ faults < MaxFaults /\ faults' = faults + 1

\* Mutant: the first HSCL8012 is believed.
LookOnce(n, first, second, found, absent, taken) ==
  \E look \in Looks :
    /\ At(first) \/ At(second)
    /\ Looked(look, n)
    /\ \/ look \in {"missing", "other"} /\ To(absent)
       \/ look \in {"unread", "none"} /\ Goes(fx, seen, rows \cup {n}, absent)
       \/ look = "run" /\ Goes(found, seen, rows \cup {n}, taken)

\* _created_despite_failure: only a second HSCL8012, or another's stamp, confirms
\* that the run made nothing; the run's marker says that it did.
Look(n, first, second, found, absent, taken) ==
  \E look \in Looks :
    /\ At(first) \/ At(second)
    /\ Looked(look, n)
    /\ \/ look = "missing" /\ At(first) /\ To(second)
       \/ ((look = "missing" /\ At(second)) \/ look = "other") /\ To(absent)
       \/ look \in {"unread", "none"} /\ Goes(fx, seen, rows \cup {n}, absent)
       \/ look = "run" /\ Goes(found, seen, rows \cup {n}, taken)

Known == {Unread, {1}}

LookProbe ==
  /\ Here
  /\ \E uuid \in Known :
       Look("probe", "probe_look", "probe_look2",
            [fx EXCEPT !.probe_created = TRUE, !.probe_uuid = uuid], "fixture", "probe_who")

CreateFixture ==
  /\ At("fixture") /\ Here
  /\ \E x \in Answers, uuid \in Known, stamped \in {"yes", "no", "unsaid"} :
       /\ Answered(x, TRUE) /\ Creates("fixture", x, {}, x.pass /\ stamped = "yes")
       /\ IF x.pass
          THEN Goes([fx EXCEPT !.created = TRUE, !.uuid = uuid], seen, rows,
                    CASE stamped = "yes" -> "uuid" [] stamped = "no" -> "clean" [] OTHER -> "stamp")
          ELSE To("fixture_look")

\* A fixture found after its create failed goes straight to the teardown.
LookFixture ==
  /\ Here
  /\ \E uuid \in Known :
       Look("fixture", "fixture_look", "fixture_look2",
            [fx EXCEPT !.created = TRUE, !.uuid = uuid], "clean", "clean")

\* create_fixture_partition: nothing is assigned to a fixture without the run's
\* stamp, an identity and a readable profile.
ConfirmStamp ==
  /\ At("stamp") /\ Here
  /\ \E who \in {Unread} \cup {{s} : s \in {"none", "run", "other"}} :
       ReadsWho(who, "fixture") /\ To(IF who = {"run"} THEN "uuid" ELSE "clean")

ResolveUuid ==
  /\ At("uuid") /\ Here
  /\ \/ fx.uuid # Unread /\ To("base") /\ UNCHANGED <<hmc, past, faults>>
     \/ /\ fx.uuid = Unread
        /\ \E uuid \in {Unread, {1}, {2}} :
             /\ ReadsUuid(uuid, "fixture")
             /\ Goes([fx EXCEPT !.uuid = uuid], seen, rows, IF uuid = Unread THEN "clean" ELSE "base")

Readings == {Unread} \cup {{s} : s \in SUBSET Elements}

CaptureBase ==
  /\ At("base") /\ Here
  /\ \E r \in Readings :
       /\ ReadsSlots(r, "fixture")
       /\ Goes([fx EXCEPT !.base = r], seen, rows, IF r = Unread THEN "clean" ELSE "assign")

-----------------------------------------------------------------------------
(* ST31 to ST33: assign, verify, unassign, reassign.                         *)

Status(x) == [seen EXCEPT !.pass = x.pass]

\* A change of the fixture's profile, whatever it answers, is read back next.  The
\* raw command changes it in any case; the operation only a partition that is not
\* another agent's, and it does not add a slot another profile lists.
Change(step, e, plugs, allowed, next) ==
  /\ At(step) /\ Here
  /\ \E x \in Answers :
       /\ Answered(x, allowed /\ There("fixture"))
       /\ IF plugs THEN Plugs(x, "fixture", e) ELSE Unplugs(x, "fixture", e)
       /\ Goes(fx, Status(x), rows, next)

Command(step, e, plugs, next) == Change(step, e, plugs, TRUE, next)
Operation(step, e, plugs, next) ==
  Change(step, e, plugs, part["fixture"].stamp # "other" /\ (plugs => e \notin part["probe"].slots), next)

Assign == Operation("assign", A, TRUE, "assigned")

\* The value read back is remembered as applied when it lists the slot.
ReadBack(step, next) ==
  /\ At(step) /\ Here
  /\ \E r \in Readings :
       /\ ReadsSlots(r, "fixture")
       /\ Goes([fx EXCEPT !.applied = IF Lists(r, A) THEN r ELSE @, !.evidence = TRUE], seen, rows,
               IF seen.pass /\ Lists(r, A) THEN next ELSE "clean")

Verify ==
  /\ At("verify") /\ Here
  /\ \E r \in Readings : ReadsSlots(r, "fixture") /\ To(IF Lists(r, A) THEN "unassign" ELSE "clean")

\* The exact baseline must be back.
Restored ==
  /\ At("unassigned") /\ Here
  /\ \E r \in Readings :
       /\ ReadsSlots(r, "fixture")
       /\ To(IF seen.pass /\ r # Unread /\ r = fx.base THEN "reassign" ELSE "clean")

Reassign == Command("reassign", A, TRUE, "reassigned")

-----------------------------------------------------------------------------
(* ST36: two more slots, and a profile that is emptied again.                *)

\* Fewer than two further slots, or a listing that could not be read, skip the steps.
Spare ==
  /\ At("spare") /\ Here /\ UNCHANGED <<hmc, past, faults>>
  /\ \/ ~Pinned /\ fx.base = {{}} /\ fx.applied = {{A}} /\ To("setup")
     \/ To("clean")

\* _io_slots_steps: each readback decides, and the first surprise ends the steps.
Expect(step, before, expected, next) ==
  /\ At(step) /\ Here
  /\ \E r \in Readings :
       /\ ReadsSlots(r, "fixture")
       /\ Goes(fx, [seen EXCEPT !.slots = r], rows, IF seen.pass /\ r = {expected} THEN next ELSE "restore")

IoSlots ==
  \/ Command("setup", B, TRUE, "populated") \/ Expect("populated", {A}, {A, B}, "add")
  \/ Operation("add", C, TRUE, "added") \/ Expect("added", {A, B}, {A, B, C}, "drop")
  \/ Operation("drop", C, FALSE, "dropped") \/ Expect("dropped", {A, B, C}, {A, B}, "drop_b")
  \/ Command("drop_b", B, FALSE, "dropped_b") \/ Expect("dropped_b", {A, B}, {A}, "drop_a")
  \/ Command("drop_a", A, FALSE, "restore")

\* _restore_io_slots: what is listed is removed; what cannot be read may be.
Restore ==
  /\ At("restore") /\ Here
  /\ \E r \in Readings :
       /\ ReadsSlots(r, "fixture")
       /\ Goes(fx, [seen EXCEPT !.slots = r], rows, "restore_c")

RestoreOne(step, e, next) ==
  /\ At(step) /\ Here
  /\ \/ seen.slots # Unread /\ ~Lists(seen.slots, e) /\ To(next) /\ UNCHANGED <<hmc, past, faults>>
     \/ /\ seen.slots = Unread \/ Lists(seen.slots, e)
        /\ \E x \in Answers : Answered(x, There("fixture")) /\ Unplugs(x, "fixture", e) /\ To(next)

-----------------------------------------------------------------------------
(* The probe's teardown, tried after its readback and once more at the end.  *)

ProbeLeft == IF again THEN (IF fx.created THEN "a_slots" ELSE "over") ELSE "clean"
ProbeGone == IF again THEN ProbeLeft ELSE "fixture"
Refuses(n, s, next) == Goes(fx, s, rows \cup {n}, next)

\* _cleanup_probe_partition: its stamp, then its live profile, then the delete.
ProbeWho ==
  /\ At("probe_who") /\ Here
  /\ \E who \in {Unread} \cup {{s} : s \in {"none", "run", "other"}} :
       /\ ReadsWho(who, "probe")
       /\ IF who = {"run"} THEN To("probe_slots") ELSE Refuses("probe", seen, ProbeLeft)

ProbeSlots ==
  /\ At("probe_slots") /\ Here
  /\ \E r \in Readings :
       /\ ReadsSlots(r, "probe")
       /\ IF r = Unread THEN Refuses("probe", seen, ProbeLeft)
          ELSE To(IF Lists(r, A) THEN "probe_unplug" ELSE "probe_delete")

ProbeUnplug ==
  /\ At("probe_unplug") /\ Here
  /\ \E x \in Answers : Answered(x, There("probe")) /\ Unplugs(x, "probe", A) /\ To("probe_after")

ProbeAfter ==
  /\ At("probe_after") /\ Here
  /\ \E r \in Readings :
       /\ ReadsSlots(r, "probe")
       /\ IF r = Unread \/ Lists(r, A) THEN Refuses("probe", seen, ProbeLeft) ELSE To("probe_delete")

\* hmc_delete_lpar: by UUID the partition the run made, by name the one that has it
\* now; never one with another agent's stamp.
Hits(n, uuid) == There(n) /\ part[n].stamp # "other" /\ (uuid # Unread => uuid = {part[n].uuid})

\* What a delete takes with it that the run had not seen to be its to delete.
Harm(n, bare) ==
  When(part[n].uuid # 1, <<n, "who">>) \cup When(part[n].slots \notin bare, <<n, "slots">>)

Deletes(n, x, uuid, bare) ==
  /\ part' = IF x.did THEN [part EXCEPT ![n] = NoPart] ELSE part
  /\ harm' = IF x.did THEN harm \cup (Harm(n, bare) \ stale) ELSE harm
  /\ UNCHANGED <<flying, denied, late, stale>>

ProbeDelete ==
  /\ At("probe_delete") /\ Here
  /\ \E x \in Answers :
       /\ Answered(x, Hits("probe", fx.probe_uuid))
       /\ Deletes("probe", x, fx.probe_uuid, {s \in SUBSET Elements : A \notin s})
       /\ IF x.pass THEN Goes([fx EXCEPT !.probe_created = FALSE], seen, rows, ProbeGone)
          ELSE Refuses("probe", seen, ProbeLeft)

-----------------------------------------------------------------------------
(* ST34: the fixture's teardown.                                             *)

\* exercise_dedicated_pcie_assignment: the teardown runs on every exit.
Clean ==
  /\ At("clean") /\ again' = TRUE
  /\ pc' = IF fx.probe_created THEN "probe_who" ELSE IF fx.created THEN "a_slots" ELSE "over"
  /\ UNCHANGED <<hmc, fx, seen, told, partial, doc, verdict, past, counts>>

\* _read_dedicated_state: the profile, the UUID and the description, in turn.
StateSlots(step, next) ==
  /\ At(step) /\ Here
  /\ \E r \in Readings : ReadsSlots(r, "fixture") /\ Goes(fx, [seen EXCEPT !.slots = r], rows, next)

StateUuid(step, next) ==
  /\ At(step) /\ Here
  /\ \E r \in {Unread, {1}, {2}} : ReadsUuid(r, "fixture") /\ Goes(fx, [seen EXCEPT !.uuid = r], rows, next)

\* The run's stamp, and the UUID of its fixture when that was known.
Identity(s) == s.who = {"run"} /\ (fx.uuid # Unread => s.uuid = fx.uuid)
Drifted(s)  == fx.base # Unread /\ s.slots # fx.base
Accounted(s) == fx.applied # Unread /\ s.slots = fx.applied

\* Guards A and B: on the identity, and on a deviation the run can call its own.
GuardA ==
  /\ At("a_who") /\ Here
  /\ \E who \in {Unread} \cup {{s} : s \in {"none", "run", "other"}} :
       LET s == [seen EXCEPT !.who = who] IN
       /\ ReadsWho(who, "fixture")
       /\ \/ (~Identity(s) \/ (Drifted(s) /\ ~Accounted(s))) /\ Refuses("fixture", s, "over")
          \/ Identity(s) /\ Drifted(s) /\ Accounted(s) /\ Goes(fx, s, rows, "a_unplug")
          \/ Identity(s) /\ ~Drifted(s) /\ Goes(fx, s, rows, "c_slots")

Unplug ==
  /\ At("a_unplug") /\ Here
  /\ \E x \in Answers :
       /\ Answered(x, There("fixture")) /\ Unplugs(x, "fixture", A)
       /\ IF x.pass THEN To("a_after") ELSE Refuses("fixture", seen, "over")

Unplugged ==
  /\ At("a_after") /\ Here
  /\ \E r \in Readings :
       ReadsSlots(r, "fixture") /\ (IF r # fx.base THEN Refuses("fixture", seen, "over") ELSE To("c_slots"))

\* Mutant: the last reads are checked for the identity only.
GuardCIdentity ==
  /\ At("c_who") /\ Here
  /\ \E who \in {Unread} \cup {{s} : s \in {"none", "run", "other"}} :
       LET s == [seen EXCEPT !.who = who] IN
       /\ ReadsWho(who, "fixture")
       /\ IF ~Identity(s) THEN Refuses("fixture", s, "over") ELSE Goes(fx, s, rows, "delete")

\* Guard C: identity and profile once more, immediately before the delete.
GuardC ==
  /\ At("c_who") /\ Here
  /\ \E who \in {Unread} \cup {{s} : s \in {"none", "run", "other"}} :
       LET s == [seen EXCEPT !.who = who] IN
       /\ ReadsWho(who, "fixture")
       /\ IF ~Identity(s) \/ Drifted(s) THEN Refuses("fixture", s, "over") ELSE Goes(fx, s, rows, "delete")

Delete ==
  /\ At("delete") /\ Here
  /\ \E x \in Answers :
       /\ Answered(x, Hits("fixture", fx.uuid))
       /\ Deletes("fixture", x, fx.uuid, IF fx.base = Unread THEN SUBSET Elements ELSE fx.base)
       /\ Goes(fx, seen, IF x.pass THEN rows ELSE rows \cup {"fixture"}, "absent")

\* name_absent and _record_dedicated_additions.
Absent ==
  /\ At("absent") /\ pc' = "write"
  /\ \E gone \in BOOLEAN :
       /\ gone => ~There("fixture")
       /\ There("fixture") \/ gone \/ faults < MaxFaults
       /\ faults' = faults + (IF There("fixture") \/ gone THEN 0 ELSE 1)
       /\ judged' = IF ~fx.evidence THEN "none"
                    ELSE IF gone /\ ~fx.probe_created THEN "passed" ELSE "failed"
  /\ UNCHANGED <<hmc, fx, seen, again, rows, partial, doc, verdict, past, touches, stops>>

Over ==
  /\ At("over") /\ pc' = "write" /\ judged' = IF fx.evidence THEN "failed" ELSE "none"
  /\ UNCHANGED <<hmc, fx, seen, again, rows, partial, doc, verdict, past, counts>>

\* The runner's document; _record_fixture_artifacts put the names and the baseline
\* of the profile in it.
WriteResults ==
  /\ At("write") /\ pc' = "done"
  /\ doc' = [written |-> fx.marked, partial |-> partial, base |-> fx.base]
  /\ UNCHANGED <<hmc, fx, seen, again, told, partial, verdict, past, counts>>

Kill ==
  /\ pc \notin {"done", "killed"} /\ stops < MaxStops /\ stops' = stops + 1 /\ pc' = "killed"
  /\ UNCHANGED <<hmc, fx, seen, again, told, partial, doc, verdict, past, faults, touches>>

-----------------------------------------------------------------------------
(* The HMC and its other users.                                              *)

\* A create that outlived its call makes a partition nobody stamps any more.
Land(n) ==
  /\ flying' = flying \ {n} /\ part' = [part EXCEPT ![n] = [NoPart EXCEPT !.uuid = 1]]
  /\ late' = late \cup When(denied[n] = 2, n)
  /\ UNCHANGED <<pc, fx, seen, again, told, partial, doc, verdict, denied, stale, harm, counts>>

\* Another user restamps a partition, replaces it by one of the same name, or
\* changes its profile.
Touch(n) ==
  /\ There(n) /\ touches < MaxTouches /\ touches' = touches + 1 /\ verdict = 9
  /\ \/ /\ part' = [part EXCEPT ![n].stamp = "other"]
        /\ stale' = stale \cup {<<n, "who">>}
     \/ /\ \E stamp \in {"none", "other"} : part' = [part EXCEPT ![n] = [uuid |-> 2, stamp |-> stamp, slots |-> {}]]
        /\ stale' = stale \cup {<<n, "who">>, <<n, "slots">>}
     \/ /\ \E e \in {A, X} : part' = [part EXCEPT ![n].slots = (@ \cup {e}) \ (@ \cap {e})]
        /\ stale' = stale \cup {<<n, "slots">>}
  /\ UNCHANGED <<flying, pc, fx, seen, again, told, partial, doc, verdict, denied, late, harm, faults, stops>>

-----------------------------------------------------------------------------
(* live_test_recovery.py.                                                    *)

\* check: the slot has no owner, as only profiles were changed; the fixture is
\* looked up by its name and known by the run's marker, then its profile is
\* compared.  What cannot be read makes the exit status 2.
Exit(unread) ==
  LET left == part["fixture"].stamp = "run" IN
  IF unread \/ doc.partial THEN 2 ELSE IF left THEN 1 ELSE 0

Check ==
  /\ pc \in {"done", "killed"} /\ verdict = 9
  /\ \E unread \in BOOLEAN : verdict' = IF doc.written THEN Exit(unread) ELSE 2
  /\ UNCHANGED <<hmc, pc, fx, seen, again, told, partial, doc, past, counts>>

-----------------------------------------------------------------------------
Init ==
  /\ part = [n \in Names |-> NoPart] /\ flying = {} /\ pc = "select"
  /\ fx = [marked |-> FALSE, created |-> FALSE, uuid |-> Unread, probe_created |-> FALSE,
           probe_uuid |-> Unread, base |-> Unread, applied |-> Unread, evidence |-> FALSE]
  /\ seen = [slots |-> Unread, uuid |-> Unread, who |-> Unread, pass |-> FALSE]
  /\ again = FALSE /\ rows = {} /\ judged = "none" /\ partial = FALSE /\ doc = NoDoc /\ verdict = 9
  /\ denied = [n \in Names |-> 0] /\ late = {} /\ stale = {} /\ harm = {} /\ faults = 0 /\ touches = 0 /\ stops = 0

Next ==
  \/ Select \/ CreateProbe \/ LookProbe \/ CreateFixture \/ LookFixture
  \/ ConfirmStamp \/ ResolveUuid \/ CaptureBase
  \/ Assign \/ ReadBack("assigned", "verify") \/ Verify
  \/ Command("unassign", A, FALSE, "unassigned") \/ Restored
  \/ Reassign \/ ReadBack("reassigned", "spare")
  \/ Spare \/ IoSlots \/ Restore \/ RestoreOne("restore_c", C, "restore_b") \/ RestoreOne("restore_b", B, "clean")
  \/ ProbeWho \/ ProbeSlots \/ ProbeUnplug \/ ProbeAfter \/ ProbeDelete
  \/ Clean \/ StateSlots("a_slots", "a_uuid") \/ StateUuid("a_uuid", "a_who") \/ GuardA \/ Unplug \/ Unplugged
  \/ StateSlots("c_slots", "c_uuid") \/ StateUuid("c_uuid", "c_who") \/ GuardC \/ Delete \/ Absent \/ Over
  \/ WriteResults \/ Kill \/ Check
  \/ \E n \in flying : Land(n)
  \/ \E n \in Names : Touch(n)

Spec == Init /\ [][Next]_vars

-----------------------------------------------------------------------------
(* Properties.                                                               *)

PcieLiveTypeOK ==
  /\ part \in [Names -> [uuid : 0..2, stamp : {"none", "run", "other"}, slots : SUBSET Elements]]
  /\ flying \subseteq Names /\ fx.base \in Readings /\ fx.applied \in Readings
  /\ rows \subseteq Names /\ judged \in {"none", "passed", "failed"} /\ verdict \in {0, 1, 2, 9}

\* The arm deletes a partition only after it has read that it is its own and that
\* its profile is as before the run: what a delete takes besides, another user put
\* there after that read.
DeletesOwn == harm = {}

\* When a run has ended by itself, or the recovery check exits 0, a partition the
\* run made that is still its own is named in a recovery row, unless it was made
\* after the HMC had denied it twice; and additions are called undone only when no
\* row is missing either.
OursLeft(n) == part[n].uuid = 1 /\ part[n].stamp # "other" /\ n \notin late
LeftTold ==
  (pc = "done" /\ ~partial) \/ verdict = 0 \/ judged = "passed" =>
    \A n \in Names : OursLeft(n) => n \in rows
=============================================================================
