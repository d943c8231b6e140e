------------------------------- MODULE LiveRound2 -------------------------------
(* The round2 arm of the live tests: the baseline and the independent snapshot *)
(* of subtask 0 (scripts/live_test/inventory.py), the scratch partition of      *)
(* subtask 8 (scripts/live_test/lpar.py), the fixture of subtask 14             *)
(* (scripts/live_test/provisioning.py), and the recovery check that takes the   *)
(* snapshot again (check_round2).  The scratch partition has a configured name  *)
(* and is known by nothing else; the fixture has a fresh name and carries a     *)
(* token of the run.                                                            *)
EXTENDS Naturals

CONSTANTS
  MaxFaults,    \* bound: calls that fail, or take effect without a good answer, and stops
  MaxTouches    \* bound: changes other users make

Round2Assumption == {MaxFaults, MaxTouches} \subseteq Nat

VARIABLES
  (* the system *)
  scratch,   \* the partition of the scratch name: "none", the "run"'s or "theirs"
  fixture,   \* the fixture partition: "none", "bare" of the token, or "stamped" with it
  disk,      \* the fixture's disk is there
  mapped,    \* and mapped to the fixture
  others,    \* whatever else the snapshot shows differs from what it was at first
  flying,    \* what was sent and is not carried out yet
  (* the run *)
  pc,        \* the step
  shot,      \* the snapshot was taken, and the baseline is complete
  base,      \* what the name of the scratch partition stood for in it
  read,      \* the last read: "none" before one, "unread", "absent" or "present"
  failed,    \* there is a FAIL row
  partial,   \* the document is of a run that was stopped
  checked,   \* the exit of the recovery check: "none", "zero", "left" or "unread"
  (* history *)
  known,     \* the scratch partition was there when the name was admitted
  stopped,   \* killed: there is no document
  late,      \* something was carried out after the run had ended
  harm,      \* the run changed what it had no right to know was its own
  faults, touches

system == <<scratch, fixture, disk, mapped, others>>
seen == <<shot, base, read>>
told == <<failed, partial, checked>>
past == <<known, stopped, late, harm>>
vars == <<system, flying, pc, seen, told, past, faults, touches>>

AtBase == scratch = base /\ fixture = "none" /\ ~disk /\ ~mapped /\ ~others
Fault(c) == (c => faults < MaxFaults) /\ faults' = faults + (IF c THEN 1 ELSE 0)
Goes(next) == pc' = next

\* A call is carried out or not, at once or later; one that did not pass makes a FAIL row.
Call(what, can) ==
  \E did, pass \in BOOLEAN :
    /\ (pass => did) /\ (did => can) /\ Fault(can /\ ~pass)
    /\ failed' = (failed \/ ~pass)
    /\ flying' \in {flying, IF can /\ ~did THEN flying \cup {what} ELSE flying}
    /\ read' = CASE pass -> "passed" [] did /\ ~pass -> "did" [] OTHER -> "none"
Did == read' \in {"did", "passed"}
Calling == UNCHANGED <<shot, base, partial, checked, known, stopped, late, touches>>

Reads(is) == \E r \in BOOLEAN : Fault(~r) /\ read' = IF ~r THEN "unread" ELSE IF is THEN "present" ELSE "absent"
Reading == UNCHANGED <<system, flying, shot, base, partial, checked, known, stopped, late, harm, touches>>

-----------------------------------------------------------------------------
(* Subtask 0.                                                                 *)

\* Whatever cannot be read, or a baseline that is not complete, stops the whole run.
Capture ==
  /\ pc = "start" /\ UNCHANGED <<system, flying, read, checked, known, stopped, harm, touches>>
  /\ \E r \in BOOLEAN :
       /\ Fault(~r) /\ shot' = r /\ base' = scratch /\ partial' = ~r /\ failed' = ~r /\ late' = FALSE
       /\ pc' = IF r THEN "admit8" ELSE "end"

-----------------------------------------------------------------------------
(* Subtask 8: the scratch partition, by its name.                             *)

Admit8 ==
  /\ pc = "admit8" /\ Reads(scratch # "none") /\ failed' = (failed \/ read' # "absent")
  /\ known' = (scratch # "none") /\ pc' = IF read' = "absent" THEN "create8" ELSE "admit14"
  /\ UNCHANGED <<system, flying, shot, base, partial, checked, stopped, late, harm, touches>>

\* Whatever the create says, the steps that follow are taken.
Create8 ==
  /\ pc = "create8" /\ Goes("modify8") /\ Call("create8", scratch = "none") /\ Calling
  /\ scratch' = (IF Did THEN "run" ELSE scratch) /\ UNCHANGED <<fixture, disk, mapped, others, harm>>

Theirs == scratch = "theirs"

\* hmc_modify_lpar and the power calls: of whatever has the name.
Modify8 ==
  /\ pc = "modify8" /\ Goes("delete8") /\ Call("none", scratch # "none") /\ Calling /\ UNCHANGED system
  /\ harm' = (harm \/ (Theirs /\ Did /\ known))

Delete8 ==
  /\ pc = "delete8" /\ Goes("admit14") /\ Call("delete8", scratch # "none") /\ Calling
  /\ scratch' = (IF Did THEN "none" ELSE scratch) /\ UNCHANGED <<fixture, disk, mapped, others>>
  /\ harm' = (harm \/ (Theirs /\ Did /\ known))

-----------------------------------------------------------------------------
(* Subtask 14: the fixture.                                                   *)

\* The serving VIOS and the volume group, the VLAN, and fresh names; else a FAIL row.
Admit14 ==
  /\ pc = "admit14" /\ Reads(FALSE) /\ failed' = (failed \/ read' = "unread") /\ Reading
  /\ pc' = IF read' = "absent" THEN "disk" ELSE "end"

\* hmc_create_virtual_disk; a disk that was not reported goes straight to the cleanup.
CreateDisk ==
  /\ pc = "disk" /\ Call("disk", ~disk) /\ Calling /\ disk' = (disk \/ Did)
  /\ pc' = (IF read' = "passed" THEN "provision" ELSE "find")
  /\ UNCHANGED <<scratch, fixture, mapped, others, harm>>

\* hmc_provision_lpar stops at the step that failed.
Provision ==
  /\ pc = "provision" /\ Goes("find") /\ Calling /\ UNCHANGED <<scratch, disk, others, read, harm>>
  /\ fixture' \in {"none", "bare", "stamped"} /\ mapped' \in {FALSE, disk /\ fixture' # "none"}
  /\ \E pass \in BOOLEAN :
       /\ (pass => fixture' = "stamped" /\ mapped') /\ Fault(~pass /\ disk) /\ failed' = (failed \/ ~pass)
       /\ flying' \in {flying, IF pass \/ fixture' # "none" THEN flying ELSE flying \cup {"provision"}}

-----------------------------------------------------------------------------
(* _cleanup_fixture, in the finally clause.                                   *)

Ends == pc' = "end"
FindFixture ==
  /\ pc = "find" /\ Reads(fixture # "none") /\ failed' = (failed \/ read' = "unread") /\ Reading
  /\ pc' = CASE read' = "unread" -> "end" [] read' = "absent" -> "unmapped" [] OTHER -> "token"

\* A partition whose description does not carry the token of the run is left alone.
Token ==
  /\ pc = "token" /\ Reads(fixture = "stamped") /\ failed' = (failed \/ read' # "present") /\ Reading
  /\ pc' = IF read' = "present" THEN "decommission" ELSE "end"

\* hmc_decommission_lpar detaches first; its result is only recorded.
Decommission ==
  /\ pc = "decommission" /\ Goes("gone") /\ Call("decommission", fixture # "none") /\ Calling
  /\ IF Did THEN fixture' = "none" /\ mapped' = FALSE ELSE UNCHANGED fixture /\ mapped' \in {mapped, FALSE}
  /\ harm' = (harm \/ fixture = "bare") /\ UNCHANGED <<scratch, disk, others>>

GoneFixture ==
  /\ pc = "gone" /\ Reads(fixture # "none") /\ failed' = (failed \/ read' # "absent") /\ Reading
  /\ pc' = IF read' = "absent" THEN "unmapped" ELSE "end"

\* _fixture_disk_unmapped: the complete mapping rows of the VIOS.
Unmapped ==
  /\ pc = "unmapped" /\ Reads(mapped) /\ failed' = (failed \/ read' # "absent") /\ Reading
  /\ pc' = IF read' = "absent" THEN "names" ELSE "end"

Names(next, gone) ==
  /\ Reads(disk) /\ Reading
  /\ failed' = (failed \/ read' = "unread" \/ (read' = "present" /\ next = "end"))
  /\ pc' = CASE read' = "unread" -> "end" [] read' = "absent" -> gone [] OTHER -> next
ListDisks == pc = "names" /\ Names("delete", "end")

DeleteDisk ==
  /\ pc = "delete" /\ Goes("left") /\ Call("delete", disk /\ ~mapped) /\ Calling
  /\ disk' = (disk /\ ~Did) /\ UNCHANGED <<scratch, fixture, mapped, others>>
  /\ harm' = (harm \/ (fixture # "none" /\ mapped))

LeftDisks == pc = "left" /\ Names("end", "end")

-----------------------------------------------------------------------------
(* The recovery check, interrupts and others.                                 *)

\* What main says: an interrupted run is never clean, and a snapshot is compared as a whole.
Recover ==
  /\ pc = "end" /\ ~stopped /\ pc' = "checked"
  /\ \E r \in BOOLEAN :
       /\ Fault(~r /\ shot /\ ~partial)
       /\ checked' = CASE ~r \/ ~shot \/ partial -> "unread"
                       [] OTHER -> IF AtBase THEN "zero" ELSE "left"
  /\ UNCHANGED <<system, flying, seen, failed, partial, past, touches>>

\* Between the create of the disk and the end, the finally clause cleans up first.
Interrupt ==
  /\ pc \notin {"start", "end", "checked"} /\ Fault(TRUE) /\ partial' = TRUE
  /\ pc' = IF pc \in {"disk", "provision"} THEN "find" ELSE "end"
  /\ UNCHANGED <<system, flying, seen, failed, checked, past, touches>>

Kill ==
  /\ pc \notin {"start", "end", "checked"} /\ Fault(TRUE) /\ stopped' = TRUE /\ Ends
  /\ UNCHANGED <<system, flying, seen, told, known, late, harm, touches>>

Land ==
  /\ pc # "checked" /\ late' = (pc = "end")
  /\ \E f \in flying :
       /\ flying' = flying \ {f}
       /\ CASE f = "create8" -> scratch = "none" /\ scratch' = "run" /\ UNCHANGED <<fixture, disk, mapped, others>>
            [] f = "delete8" -> scratch' = "none" /\ UNCHANGED <<fixture, disk, mapped, others>>
            [] f = "disk" -> disk' = TRUE /\ UNCHANGED <<scratch, fixture, mapped, others>>
            [] f = "provision" -> fixture' \in {"bare", "stamped"} /\ UNCHANGED <<scratch, disk, mapped, others>>
            [] f = "decommission" -> fixture' = "none" /\ mapped' = FALSE /\ UNCHANGED <<scratch, disk, others>>
            [] f = "delete" -> disk' = FALSE /\ UNCHANGED <<scratch, fixture, mapped, others>>
            [] OTHER -> UNCHANGED system
  /\ UNCHANGED <<pc, seen, told, known, stopped, harm, faults, touches>>

Touch ==
  /\ pc \notin {"end", "checked"} /\ touches < MaxTouches /\ touches' = touches + 1
  /\ \/ scratch = "none" /\ scratch' = "theirs" /\ UNCHANGED others
     \/ others' = ~others /\ UNCHANGED scratch
  /\ UNCHANGED <<fixture, disk, mapped, flying, pc, seen, told, past, faults>>

Init ==
  /\ scratch \in {"none", "theirs"} /\ fixture = "none" /\ disk = FALSE /\ mapped = FALSE /\ others = FALSE
  /\ flying = {} /\ pc = "start" /\ shot = FALSE /\ base = "none" /\ read = "none"
  /\ failed = FALSE /\ partial = FALSE /\ checked = "none"
  /\ known = FALSE /\ stopped = FALSE /\ late = FALSE /\ harm = FALSE /\ faults = 0 /\ touches = 0

Next ==
  \/ Capture \/ Admit8 \/ Create8 \/ Modify8 \/ Delete8 \/ Admit14 \/ CreateDisk \/ Provision
  \/ FindFixture \/ Token \/ Decommission \/ GoneFixture \/ Unmapped \/ ListDisks \/ DeleteDisk
  \/ LeftDisks \/ Recover \/ Interrupt \/ Kill \/ Land \/ Touch

Spec == Init /\ [][Next]_vars

-----------------------------------------------------------------------------
(* Properties.                                                                *)

Round2TypeOK ==
  /\ scratch \in {"none", "run", "theirs"} /\ base \in {"none", "run", "theirs"}
  /\ fixture \in {"none", "bare", "stamped"} /\ read \in {"none", "did", "passed", "unread", "absent", "present"}
  /\ {disk, mapped, others, shot, failed, partial, known, stopped, late, harm} \subseteq BOOLEAN
  /\ checked \in {"none", "zero", "left", "unread"}

\* A recovery check that exits 0 is of a run that came to its end, and the system is as the
\* snapshot of before showed it: none of what the run made is there.
Round2Clean ==
  checked = "zero" => ~partial /\ ~stopped /\ scratch # "run" /\ fixture = "none" /\ ~disk /\ ~others

\* What a run that nobody stopped leaves of the scratch partition or the fixture, it has a FAIL
\* row for, unless a call that had timed out was carried out after the run had looked.
Round2LeftTold ==
  pc = "end" /\ (scratch = "run" \/ fixture # "none" \/ disk) => failed \/ partial \/ stopped \/ late

\* No run modifies or deletes a partition of the scratch name that was there when it was
\* admitted, decommissions a fixture without its token, or deletes the disk under a fixture.
Round2OwnRemoved == ~harm
=============================================================================
