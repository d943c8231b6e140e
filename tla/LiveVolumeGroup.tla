---------------------------- MODULE LiveVolumeGroup ----------------------------
(* The scratch volume group of the live tests (subtask 42,                    *)
(* scripts/live_test/storage_volume_group.py) and its recovery check.  A      *)
(* group of a name kept for this is made on one released physical volume and  *)
(* taken away again.  The name stays in the artifacts until everything has    *)
(* been read as it was, and while it is there no other create is tried.       *)
EXTENDS Naturals

CONSTANTS
  MaxRuns,      \* bound: runs of the subtask
  MaxFaults,    \* bound: calls that fail, or take effect without a good answer, and stops
  MaxTouches    \* bound: changes other users make

VgLiveAssumption == {MaxRuns, MaxFaults, MaxTouches} \subseteq Nat

VARIABLES
  (* the VIOS *)
  group,     \* the group of the name: "none", the "run"'s own or "theirs"
  pv,        \* the released volume is "free", in the "group" or "taken" by others
  wide,      \* others put a second physical volume into the group
  volumes,   \* the group has a logical volume
  drift,     \* the other physical volumes and groups differ from the baseline
  flying,    \* what was sent and is not carried out yet
  (* the run *)
  pc,        \* the step
  runs,      \* the runs so far
  named,     \* the artifacts name the group
  saved,     \* and so do those that were last written
  alike,     \* the inventory after the create was the baseline with the volume in the group
  verdict,   \* the cleanup that is observed: "none", "passed" or "failed"
  row,       \* the row for manual recovery
  checked,   \* the exit of the recovery check: "none", "zero", "left" or "unread"
  (* history *)
  cut,       \* a run was killed, and told nothing
  late,      \* something was carried out after the last run had looked
  moved,     \* others changed something since the guard was read
  harm,      \* the run took apart a group with something of others in it
  faults, touches

vios == <<group, pv, wide, volumes, drift>>
told == <<verdict, row, checked>>
past == <<cut, late, moved, harm>>
vars == <<vios, flying, pc, runs, named, saved, alike, told, past, faults, touches>>

Base == group = "none" /\ pv = "free" /\ ~drift
Fault(c) == (c => faults < MaxFaults) /\ faults' = faults + (IF c THEN 1 ELSE 0)
Step == UNCHANGED <<runs, saved, checked, cut, touches>>

-----------------------------------------------------------------------------
(* The VIOS carries out a create or a removal, when it can.                   *)

\* The HMC makes a group on a volume that is free, and of a name that is.
Make ==
  /\ group' = "run" /\ pv' = "group" /\ UNCHANGED <<wide, volumes, drift>>
CanMake == group = "none" /\ pv = "free"

\* reducevg refuses a volume that is in use; the last one takes the group with it.
CanReduce == group # "none" /\ pv = "group" /\ ~volumes
Reduce ==
  /\ pv' = "free" /\ group' = (IF wide THEN group ELSE "none") /\ UNCHANGED <<wide, volumes, drift>>

\* A command that is sent is carried out at once, later, or never.
Send(what, can, Do) ==
  \E did, pass \in BOOLEAN :
    /\ (pass => did) /\ (did => can) /\ Fault(can /\ ~pass)
    /\ IF did THEN Do ELSE UNCHANGED vios
    /\ flying' \in {flying, IF can /\ ~did THEN flying \cup {what} ELSE flying}

-----------------------------------------------------------------------------
(* exercise_volume_group and _Scenario.run.                                   *)

\* An earlier group that is pending, a snapshot that does not read, or one that shows the name
\* or the volume in use in either listing, skips the subtask.
Start ==
  /\ pc = "start" /\ Step /\ UNCHANGED <<group, pv, wide, volumes, flying, alike, verdict, row, moved, harm>>
  /\ \E r \in BOOLEAN :
       /\ (r => ~named /\ group = "none" /\ pv = "free") /\ Fault(~named /\ Base /\ ~r)
       /\ drift' = (drift /\ ~r) /\ late' = (late /\ ~r)
       /\ named' = (named \/ r) /\ pc' = IF r THEN "create" ELSE "end"

Create ==
  /\ pc = "create" /\ pc' = "after" /\ Send("create", CanMake, Make)
  /\ Step /\ UNCHANGED <<named, alike, verdict, row, late, moved, harm>>

\* The end of the run: the finally clause keeps the name unless everything was restored.
Ends(restored) ==
  /\ pc' = "end" /\ named' = ~restored /\ row' = ~restored
  /\ verdict' = IF restored THEN "passed" ELSE "failed"
Looking == Step /\ UNCHANGED <<vios, flying, late, harm>>

\* The listing of the HMC may lag behind the VIOS's own.
Snapshot(r, rest) == Fault(~r \/ rest # (group # "none"))

\* A group that neither listing shows was not made, when all else reads as before, too.
After ==
  /\ pc = "after" /\ Looking /\ UNCHANGED moved
  /\ \E r, rest \in BOOLEAN :
       /\ Snapshot(r, rest) /\ alike' = (r /\ pv = "group" /\ ~wide /\ ~drift)
       /\ IF r /\ (rest \/ group # "none") THEN pc' = "guard" /\ UNCHANGED <<named, verdict, row>>
          ELSE Ends(r /\ Base)

\* cleanup: the selected volume is all the group has, and nothing is on it.
Guard ==
  /\ pc = "guard" /\ Looking /\ UNCHANGED alike /\ moved' = FALSE
  /\ \E r \in BOOLEAN :
       /\ Fault(~r)
       /\ IF r /\ alike /\ group # "none" /\ pv = "group" /\ ~wide /\ ~volumes
          THEN pc' = "reduce" /\ UNCHANGED <<named, verdict, row>> ELSE Ends(FALSE)

\* What this command returns is not looked at.
ReduceGroup ==
  /\ pc = "reduce" /\ pc' = "look" /\ Send("reduce", CanReduce, Reduce)
  /\ harm' = (harm \/ ((wide \/ volumes) /\ ~moved))
  /\ Step /\ UNCHANGED <<named, alike, verdict, row, late, moved>>

\* Whatever the removal said, the whole snapshot has to be the first one.
Look ==
  /\ pc = "look" /\ Looking /\ UNCHANGED <<alike, moved>>
  /\ \E r, rest \in BOOLEAN : Snapshot(r, rest) /\ Ends(r /\ ~rest /\ Base)

-----------------------------------------------------------------------------
(* Interrupts, further runs and the recovery check.                           *)

\* The finally clause runs; the artifacts are written at the end of the run.
Interrupt ==
  /\ pc \in {"create", "after", "guard", "reduce", "look"} /\ Fault(TRUE)
  /\ pc' = "end" /\ verdict' = "failed" /\ UNCHANGED <<named, row, alike, moved>> /\ Looking

\* A runner that is killed writes nothing.
Kill ==
  /\ pc \notin {"end", "checked"} /\ Fault(TRUE) /\ pc' = "end" /\ named' = saved /\ cut' = TRUE
  /\ UNCHANGED <<vios, flying, runs, saved, alike, told, late, moved, harm, touches>>

Again ==
  /\ pc = "end" /\ runs < MaxRuns /\ runs' = runs + 1 /\ pc' = "start"
  /\ saved' = named
  /\ cut' = FALSE /\ verdict' = "none" /\ row' = FALSE
  /\ UNCHANGED <<vios, flying, named, alike, checked, late, moved, harm, faults, touches>>

\* _run_volume_group_left: the listing, which has caught up by then, and the pending name.
Recover ==
  /\ pc = "end" /\ pc' = "checked" /\ ~cut
  /\ \E r \in BOOLEAN :
       /\ Fault(~r)
       /\ checked' = IF ~r THEN "unread" ELSE IF named \/ group # "none" THEN "left" ELSE "zero"
  /\ UNCHANGED <<vios, flying, runs, named, saved, alike, verdict, row, cut, late, moved, harm, touches>>

Land ==
  /\ \/ "create" \in flying /\ CanMake /\ Make /\ flying' = flying \ {"create"}
     \/ "reduce" \in flying /\ CanReduce /\ Reduce /\ flying' = flying \ {"reduce"}
  /\ pc # "checked" /\ late' = (late \/ pc = "end")
  /\ UNCHANGED <<pc, runs, named, saved, alike, told, cut, moved, harm, faults, touches>>

Touch ==
  /\ pc \notin {"end", "checked"} /\ touches < MaxTouches /\ touches' = touches + 1 /\ moved' = TRUE
  /\ \/ group = "none" /\ pv = "free" /\ group' = "theirs" /\ pv' = "group" /\ UNCHANGED <<wide, volumes, drift>>
     \/ group # "none" /\ ~wide /\ wide' = TRUE /\ UNCHANGED <<group, pv, volumes, drift>>
     \/ group # "none" /\ ~volumes /\ volumes' = TRUE /\ UNCHANGED <<group, pv, wide, drift>>
     \/ pv = "free" /\ pv' = "taken" /\ UNCHANGED <<group, wide, volumes, drift>>
     \/ drift' = ~drift /\ UNCHANGED <<group, pv, wide, volumes>>
  /\ UNCHANGED <<flying, pc, runs, named, saved, alike, told, cut, late, harm, faults>>

Init ==
  /\ group = "none" /\ pv \in {"free", "taken"} /\ wide = FALSE /\ volumes = FALSE /\ drift = FALSE
  /\ flying = {} /\ pc = "start" /\ runs = 1 /\ named = FALSE /\ saved = FALSE
  /\ alike = FALSE /\ verdict = "none" /\ row = FALSE /\ checked = "none" /\ cut = FALSE
  /\ late = FALSE /\ moved = FALSE /\ harm = FALSE /\ faults = 0 /\ touches = 0

Next ==
  \/ Start \/ Create \/ After \/ Guard \/ ReduceGroup \/ Look
  \/ Interrupt \/ Kill \/ Again \/ Recover \/ Land \/ Touch

Spec == Init /\ [][Next]_vars

-----------------------------------------------------------------------------
(* Properties.                                                                *)

VgLiveTypeOK ==
  /\ group \in {"none", "run", "theirs"} /\ pv \in {"free", "group", "taken"}
  /\ flying \subseteq {"create", "reduce"} /\ runs \in 1..MaxRuns
  /\ {wide, volumes, drift, named, saved, alike, row, cut, late, moved, harm} \subseteq BOOLEAN
  /\ verdict \in {"none", "passed", "failed"} /\ checked \in {"none", "zero", "left", "unread"}

\* A cleanup that is observed as passed left the volume free and no group, unless a create
\* that had timed out was carried out after the run had looked.
VgClean == pc \in {"end", "checked"} /\ verdict = "passed" => Base \/ late

\* A group that a run made and left is told of by its row or by its name, unless the runner was
\* killed; the recovery check that exits 0 has missed neither it nor anything else
\* that a run which got so far as to make one left otherwise than it was.
VgLeftTold ==
  /\ (pc = "end" /\ group = "run") => named \/ row \/ cut \/ late \/ verdict = "none"
  /\ checked = "zero" => (Base \/ late \/ verdict = "none")

\* A run takes no group apart in which it has read another volume.
VgOwnRemoved == ~harm
=============================================================================
