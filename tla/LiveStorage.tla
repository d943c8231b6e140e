----------------------------- MODULE LiveStorage -----------------------------
(* The virtual-disk arm of the live tests (subtask 40,                        *)
(* scripts/live_test/storage_lifecycle.py) and its recovery check.  The arm   *)
(* creates a disk under a name it tracks first, maps it to the test           *)
(* partition, sees a delete refused while it is mapped, detaches and deletes  *)
(* it; when the VIOS is back at its baseline, it does the same through        *)
(* hmc_attach_disk_to_lpar.  What it does next follows from what the VIOS     *)
(* lists, never from what a call reported.                                    *)
EXTENDS Naturals

CONSTANTS
  MaxFaults,    \* bound: calls that fail, or take effect without a good answer, and stops
  MaxTouches    \* bound: changes other users make

StorageLiveAssumption == {MaxFaults, MaxTouches} \subseteq Nat

VARIABLES
  (* the VIOS *)
  disk,      \* the run-named volume is in the volume group
  maps,      \* the mappings backed by it: to the test partition, to another
  spare,     \* an adapter of the run's is left without a mapping
  flying,    \* what was sent and is not carried out yet
  drift,     \* others changed volumes, mappings or adapters since the baseline
  (* the run *)
  pc,        \* the step
  round,     \* the scenario: "lifecycle" or "attach"
  cut,       \* the run was interrupted
  tracked,   \* artifacts.storage_disk_name is set
  refused,   \* whether the delete of the mapped disk was refused: "none" until tried
  restored,  \* unmapped_clean: mappings and adapters equal the baseline
  rows,      \* a MANUAL RECOVERY row tells of what may be left
  clean,     \* the cleanup disposition of the create, the map and the attach
  checked,   \* the exit of the recovery check: "none", "zero", "left" or "unread"
  (* history *)
  late,      \* what the run sent was carried out after the run had looked for it
  seen,      \* the last listing of the mappings showed one, and it is still there
  harm,      \* the run deleted a disk it had last seen mapped
  faults, touches

vios == <<disk, maps, spare>>
told == <<rows, clean, checked>>
past == <<late, seen, harm>>
vars == <<vios, flying, drift, pc, round, cut, tracked, refused, restored, told, past,
          faults, touches>>

Fault(c) == (c => faults < MaxFaults) /\ faults' = faults + (IF c THEN 1 ELSE 0)
Answers == [did : BOOLEAN, pass : BOOLEAN]
Answered(x, can) == (x.pass => x.did) /\ (x.did => can) /\ Fault(can /\ ~x.pass)
Flies(x, what) == flying' \in {flying, IF x.did THEN flying ELSE flying \cup {what}}

Calling == UNCHANGED <<drift, round, cut, tracked, restored, told, late, seen, touches>>
Reading == UNCHANGED <<vios, flying, drift, round, cut, checked, late, harm, touches>>
Manual == rows' = TRUE
Disposed(what, ok) == [clean EXCEPT ![what] = IF ok THEN "passed" ELSE "failed"]

\* drift: mappings and adapters that differ from the baseline are told of.
NoDrift(same) == (same => maps = {} /\ ~spare) /\ rows' = (rows \/ ~same)

-----------------------------------------------------------------------------
(* Creating and mapping.                                                      *)

\* A name restored from an earlier document is forgotten once a listing shows no such
\* volume; otherwise the arm is skipped.
ClearRestored ==
  /\ pc = "start" /\ Reading /\ UNCHANGED <<refused, restored, rows, clean, seen>>
  /\ \E r \in BOOLEAN :
       /\ Fault(tracked /\ ~disk /\ ~r) /\ (tracked => (r => ~disk))
       /\ pc' = (IF r THEN "baseline" ELSE "end") /\ tracked' = (tracked /\ ~r)

\* Space, volumes, mappings and adapters must all read.
Baseline ==
  /\ pc = "baseline" /\ UNCHANGED <<vios, flying, round, cut, tracked, refused, told, past,
                                    touches>>
  /\ \E r \in BOOLEAN :
       /\ Fault(~r) /\ pc' = (IF r THEN "name" ELSE "end")
       /\ drift' = FALSE /\ restored' = TRUE

\* new_name: the name is stored before anything is sent.
NewName ==
  /\ pc = "name" /\ Reading /\ UNCHANGED <<refused, restored, rows, clean, seen, faults>>
  /\ tracked' = TRUE /\ pc' = IF round = "lifecycle" THEN "create" ELSE "attach"

Create ==
  /\ pc = "create" /\ Calling /\ UNCHANGED <<maps, spare, refused, harm>> /\ pc' = "created"
  /\ \E x \in Answers : Answered(x, TRUE) /\ disk' = x.did /\ Flies(x, "create")

\* A volume that is not listed is forgotten; one that cannot be listed stops the arm.
Created ==
  /\ pc = "created" /\ Reading /\ UNCHANGED <<refused, restored, seen>>
  /\ \/ disk /\ pc' = "map" /\ UNCHANGED <<tracked, rows, clean, faults>>
     \/ ~disk /\ tracked' = FALSE /\ pc' = "end" /\ UNCHANGED <<rows, faults>>
        /\ \E same \in BOOLEAN : (same \/ drift) /\ clean' = Disposed("create", same)
     \/ Fault(TRUE) /\ Manual /\ clean' = Disposed("create", FALSE) /\ pc' = "end"
        /\ UNCHANGED tracked

\* A map that fails may leave its adapter.
Maps(x) ==
  /\ maps' = IF x.did THEN maps \cup {"ours"} ELSE maps
  /\ spare' \in IF x.did THEN {spare} ELSE {spare, TRUE}
Map ==
  /\ pc = "map" /\ Calling /\ UNCHANGED <<disk, refused, harm>> /\ pc' = "mapped"
  /\ \E x \in Answers : Answered(x, disk) /\ Maps(x) /\ Flies(x, "map") /\ (disk \/ spare' = spare)

\* One mapping, to the test partition, is gone on with; none is compared with the baseline;
\* any other, and none that can be read, stop the arm.
Mapped ==
  /\ pc = "mapped" /\ Reading /\ UNCHANGED <<tracked, refused>>
  /\ \/ maps = {"ours"} /\ pc' = "guard" /\ seen' = TRUE /\ UNCHANGED <<restored, rows, clean, faults>>
     \/ maps = {} /\ pc' = "delete" /\ seen' = FALSE
        /\ \E same \in BOOLEAN :
             /\ NoDrift(same) /\ Fault(~same /\ ~spare /\ ~drift) /\ restored' = same
             /\ clean' = Disposed("map", same)
     \/ "theirs" \in maps /\ Manual /\ pc' = "end" /\ seen' = TRUE /\ UNCHANGED <<restored, faults>>
        /\ clean' = [Disposed("map", FALSE) EXCEPT !["create"] = "failed"]
     \/ Fault(TRUE) /\ Manual /\ pc' = "end" /\ clean' = Disposed("create", FALSE)
        /\ UNCHANGED <<restored, seen>>

\* hmcpctl refuses to delete a mapped disk before it writes anything; the arm tests that.
GuardedDelete ==
  /\ pc = "guard" /\ UNCHANGED <<maps, spare, flying, drift, round, cut, tracked, restored, told, past,
                                 touches>>
  /\ pc' = "guarded"
  /\ \E guard, pass \in BOOLEAN :
       /\ Fault(~guard) /\ (pass => maps = {} \/ ~guard)
       /\ disk' = (disk /\ ~(maps = {} \/ ~guard)) /\ refused' = IF ~pass /\ guard THEN "yes" ELSE "no"

Guarded ==
  /\ pc = "guarded" /\ Reading /\ UNCHANGED <<tracked, refused, restored, seen>>
  /\ \/ disk /\ pc' = "detach" /\ UNCHANGED <<rows, clean, faults>>
     \/ Fault(disk) /\ Manual /\ pc' = "end" /\ clean' = [clean EXCEPT !["map"] = "failed", !["create"] = "failed"]

-----------------------------------------------------------------------------
(* Taking it away again.                                                      *)

\* The mapping that was listed is detached; its adapter may stay.
Detach(step, next) ==
  /\ pc = step /\ Calling /\ UNCHANGED <<disk, refused, harm>> /\ pc' = next
  /\ \E x \in Answers :
       /\ Answered(x, maps # {}) /\ maps' \in (IF x.did THEN {maps \ {m} : m \in maps} ELSE {maps})
       /\ (x.did /\ "ours" \in maps => "ours" \notin maps') /\ Flies(x, "detach")
       /\ spare' \in {spare, x.did \/ spare} /\ (spare' = spare \/ faults' < MaxFaults)

\* detach and detach_and_check: a mapping that may still be there stops the arm, and a
\* difference from the baseline is told of.
Detached ==
  /\ pc = "detached" /\ Reading /\ UNCHANGED <<tracked, refused>>
  /\ \E gone, same \in BOOLEAN :
       /\ (gone => maps = {}) /\ (same => gone) /\ NoDrift(same)
       /\ Fault((maps = {} /\ ~gone) \/ (gone /\ ~same /\ ~spare /\ ~drift))
       /\ seen' = (seen /\ ~gone) /\ restored' = same
       /\ clean' = IF gone THEN Disposed("map", same)
                   ELSE [Disposed("map", FALSE) EXCEPT !["create"] = "failed"]
       /\ pc' = IF gone THEN "delete" ELSE "end"

\* hmcpctl's delete refuses a disk that is mapped.
Delete(step, next) ==
  /\ pc = step /\ Calling /\ UNCHANGED <<maps, spare, refused>> /\ pc' = next
  /\ \E x \in Answers :
       /\ Answered(x, disk /\ maps = {}) /\ disk' = (disk /\ ~x.did)
       /\ IF maps = {} THEN Flies(x, "delete") ELSE UNCHANGED flying
  /\ harm' = (harm \/ seen)

\* The name is forgotten only when a listing shows the volume absent.
Listed(gone) ==
  /\ (gone => ~disk) /\ tracked' = (tracked /\ ~gone) /\ rows' = (rows \/ ~gone)

\* final_delete: the attach scenario follows only when everything is at its baseline.
Deleted ==
  /\ pc = "deleted" /\ Reading /\ UNCHANGED <<refused, restored, seen>>
  /\ \E gone, same \in BOOLEAN :
       /\ Listed(gone) /\ (same => gone)
       /\ Fault((~disk /\ ~gone) \/ (gone /\ ~same /\ ~drift))
       /\ clean' = Disposed("create", same)
       /\ pc' = IF same /\ restored THEN "again" ELSE "end"

Again ==
  /\ pc = "again" /\ pc' = "baseline" /\ round' = "attach"
  /\ UNCHANGED <<vios, flying, drift, cut, tracked, refused, restored, told, past, faults, touches>>

-----------------------------------------------------------------------------
(* hmc_attach_disk_to_lpar: a create and a map, each reported as a step.      *)

Attach ==
  /\ pc = "attach" /\ Calling /\ UNCHANGED <<refused, harm>> /\ pc' = "attached"
  /\ \E made, pass \in BOOLEAN, x \in Answers :
       /\ (pass <=> x.pass) /\ (x.pass => x.did) /\ (x.did => made) /\ Fault(~pass)
       /\ disk' = made /\ Maps(x) /\ (made \/ spare' = spare)
       /\ flying' \in {flying, IF ~made THEN flying \cup {"create", "map"}
                                ELSE IF ~x.did THEN flying \cup {"map"} ELSE flying}

\* clean_up follows the listings: it detaches the mapping, if there is just one, and
\* deletes the volume.
CleanUp ==
  /\ pc = "attached" /\ Reading /\ UNCHANGED <<refused, restored>>
  /\ \/ maps = {} /\ seen' = FALSE /\ UNCHANGED <<rows, clean, faults>>
        /\ pc' = (IF disk THEN "delete2" ELSE "restore") /\ tracked' = (tracked /\ disk)
     \/ maps \in {{"ours"}, {"theirs"}} /\ seen' = TRUE /\ pc' = "detach2"
        /\ UNCHANGED <<tracked, rows, clean, faults>>
     \/ Fault(maps # {"ours", "theirs"}) /\ Manual /\ clean' = Disposed("attach", FALSE)
        /\ pc' = "end" /\ seen' = (seen \/ maps # {}) /\ UNCHANGED tracked

\* Mutant of DetachedAttach (StorageOwnRemoved): the disk is deleted whatever the detach did.
DetachedAttachGone ==
  /\ pc = "detached2" /\ Reading /\ UNCHANGED <<tracked, refused, restored>>
  /\ seen' = (maps # {}) /\ pc' = "delete2" /\ UNCHANGED <<rows, clean, faults>>

DetachedAttach ==
  /\ pc = "detached2" /\ Reading /\ UNCHANGED <<tracked, refused, restored>>
  /\ \/ maps = {} /\ seen' = FALSE /\ pc' = "delete2" /\ UNCHANGED <<rows, clean, faults>>
     \/ Fault(maps = {}) /\ Manual /\ clean' = Disposed("attach", FALSE) /\ pc' = "end"
        /\ UNCHANGED seen

DeletedAttach ==
  /\ pc = "deleted2" /\ Reading /\ UNCHANGED <<refused, restored, clean, seen>> /\ pc' = "restore"
  /\ \E gone \in BOOLEAN : Listed(gone) /\ Fault(~disk /\ ~gone)

\* restored: volumes, mappings, adapters and space are compared with the baseline.
Restored ==
  /\ pc = "restore" /\ Reading /\ UNCHANGED <<tracked, refused, restored, seen>> /\ pc' = "end"
  /\ \E same, differs \in BOOLEAN :
       /\ NoDrift(~differs) /\ (same => ~disk /\ ~differs) /\ Fault(~disk /\ maps = {} /\ ~spare /\ ~same /\ ~drift)
       /\ clean' = Disposed("attach", same)

-----------------------------------------------------------------------------
(* Interrupts, the recovery check, and the HMC and its other users.           *)

Steps == {"create", "created", "map", "mapped", "guard", "guarded", "detach", "detached",
          "delete", "deleted", "again", "attach", "attached", "detach2", "detached2",
          "delete2", "deleted2", "restore"}

\* The call that is under way may still be carried out.
Interrupt ==
  /\ pc \in Steps /\ Fault(TRUE) /\ cut' = TRUE /\ pc' = "end"
  /\ flying' = flying \cup (CASE pc = "create" -> {"create"} [] pc = "map" -> {"map"}
                              [] pc \in {"detach", "detach2"} -> {"detach"}
                              [] pc \in {"delete", "delete2"} /\ maps = {} -> {"delete"}
                              [] pc = "attach" -> {"create", "map"} [] OTHER -> {})
  /\ clean' = IF pc \in {"attached", "detach2", "detached2", "delete2", "deleted2", "restore"}
              THEN Disposed("attach", FALSE) ELSE clean
  /\ UNCHANGED <<vios, drift, round, tracked, refused, restored, rows, checked, past, touches>>

\* _run_disk_mapping_left and _run_disk_left find what has a run's name.
Recover ==
  /\ pc = "end" /\ pc' = "checked"
  /\ \/ Fault(TRUE) /\ checked' = "unread"
     \/ UNCHANGED faults /\ checked' = IF disk \/ maps # {} THEN "left" ELSE "zero"
  /\ UNCHANGED <<vios, flying, drift, round, cut, tracked, refused, restored, rows, clean, past, touches>>

\* A map needs its disk, and a delete that was sent has passed the guard.
Land(x) ==
  /\ pc # "checked" /\ flying' = flying \ {x}
  /\ disk' = CASE x = "create" -> TRUE [] x = "delete" -> FALSE [] OTHER -> disk
  /\ maps' = CASE x = "map" /\ disk -> maps \cup {"ours"} [] x = "detach" -> (IF "ours" \in maps THEN maps \ {"ours"} ELSE {}) [] OTHER -> maps
  /\ late' = (late \/ (x = "create" /\ pc \notin {"created", "attached"})
                   \/ (x = "map" /\ pc \notin {"mapped", "attached"}))
  /\ seen' = (seen /\ x # "detach")
  /\ UNCHANGED <<spare, drift, pc, round, cut, tracked, refused, restored, told, harm, faults, touches>>

\* Others detach the disk, map it to another partition, or change something else.
Touch ==
  /\ pc \in Steps /\ touches < MaxTouches /\ touches' = touches + 1
  /\ \/ maps # {} /\ maps' = {} /\ seen' = FALSE /\ UNCHANGED drift
     \/ disk /\ maps' = maps \cup {"theirs"} /\ UNCHANGED <<drift, seen>>
     \/ drift' = TRUE /\ UNCHANGED <<maps, seen>>
  /\ UNCHANGED <<disk, spare, flying, pc, round, cut, tracked, refused, restored, told, late, harm, faults>>

\* The document may track a disk of an earlier invocation, which may still be there.
Init ==
  /\ tracked \in BOOLEAN /\ disk \in {FALSE, tracked} /\ maps = {} /\ spare = FALSE
  /\ flying = {} /\ drift = FALSE /\ pc = "start" /\ round = "lifecycle" /\ cut = FALSE
  /\ refused = "none" /\ restored = TRUE /\ rows = FALSE
  /\ clean = [create |-> "none", map |-> "none", attach |-> "none"] /\ checked = "none"
  /\ late = FALSE /\ seen = FALSE /\ harm = FALSE /\ faults = 0 /\ touches = 0

Next ==
  \/ ClearRestored \/ Baseline \/ NewName \/ Create \/ Created \/ Map \/ Mapped
  \/ GuardedDelete \/ Guarded \/ Detach("detach", "detached") \/ Detached
  \/ Delete("delete", "deleted") \/ Deleted \/ Again
  \/ Attach \/ CleanUp \/ Detach("detach2", "detached2") \/ DetachedAttach
  \/ Delete("delete2", "deleted2") \/ DeletedAttach \/ Restored
  \/ Interrupt \/ Recover \/ Touch \/ \E x \in flying : Land(x)

Spec == Init /\ [][Next]_vars

-----------------------------------------------------------------------------
(* Properties.                                                                *)

StorageLiveTypeOK ==
  /\ {disk, spare, drift, cut, tracked, restored, rows, late, seen, harm} \subseteq BOOLEAN
  /\ maps \subseteq {"ours", "theirs"} /\ refused \in {"none", "yes", "no"}
  /\ flying \subseteq {"create", "map", "detach", "delete"}
  /\ clean \in [{"create", "map", "attach"} -> {"none", "passed", "failed"}]
  /\ checked \in {"none", "zero", "left", "unread"}

\* A disk of the run's is there only under a name the document tracks, and a run that came
\* to its end tells of the disk, the mapping and the adapter it leaves; not of what was
\* carried out after it had looked, and a disk of an earlier run makes it skip.
StorageLeftTold ==
  /\ disk => tracked \/ late
  /\ (pc = "end" /\ ~cut /\ ~late /\ clean # [create |-> "none", map |-> "none", attach |-> "none"]
       /\ (disk \/ "ours" \in maps \/ spare)) => rows

\* A disposition called passed is true: what was made is gone.
StorageClean ==
  /\ round = "lifecycle" /\ clean["create"] = "passed" => ~disk \/ late
  /\ round = "lifecycle" /\ clean["map"] = "passed" => ("ours" \notin maps /\ ~spare) \/ late
  /\ clean["attach"] = "passed" => (~disk /\ "ours" \notin maps /\ ~spare) \/ late
  /\ checked = "zero" => ~disk /\ maps = {}

\* The arm never deletes a disk that its last listing showed mapped, other than to see that
\* refused.
StorageOwnRemoved == ~harm
=============================================================================
