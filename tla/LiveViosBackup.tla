---------------------------- MODULE LiveViosBackup ----------------------------
(* The VIOS backup arm of the live tests (subtask 37,                         *)
(* scripts/live_test/vios_backup.py) and its recovery check.  The arm backs   *)
(* up a VIOS's I/O configuration, removes the test partition's disk mapping,  *)
(* restores the backup, which may restart the VIOS, and removes the backup    *)
(* once the VIOS has read as it was before.  Until then the backup is the     *)
(* operator's way back.                                                       *)
EXTENDS Naturals

CONSTANTS
  MaxFaults,    \* bound: calls that fail, or take effect without a good answer, and stops
  MaxTouches    \* bound: changes other users make

ViosLiveAssumption == {MaxFaults, MaxTouches} \subseteq Nat

VARIABLES
  (* the VIOS and the HMC's catalog *)
  mapped,    \* the test partition's disk mapping is there
  others,    \* the rest of what the snapshot compares: "base", "restored" otherwise, "theirs"
  catalog,   \* the run's backup is in the catalog
  flying,    \* what was sent and is not carried out yet
  (* the run *)
  pc,        \* the step
  named,     \* the artifacts name the backup and the mapping
  accepted,  \* the last backup or restore was reported as done
  listed,    \* the catalog showed the backup
  ended,     \* the restore was answered: it passed, or the HMC gave its exit status
  settled,   \* the VIOS answered after what changed it, and was read again
  atBase,    \* and read as it did before
  rows,      \* KEPT_ROW: the row that tells that the backup is kept
  clean,     \* the cleanup disposition of the backup
  verdict,   \* whether the restore is observed as having brought the baseline back
  checked,   \* the exit of the recovery check: "none", "zero", "left" or "unread"
  (* history *)
  cut,       \* the run was interrupted
  moved,     \* the VIOS changed since the run last compared it
  harm,      \* what the run did that it had no right to know was safe
  faults, touches

vios == <<mapped, others>>
went == <<accepted, listed, ended, settled, atBase>>
told == <<rows, clean, verdict, checked>>
past == <<cut, moved, harm>>
vars == <<vios, catalog, flying, pc, named, went, told, past, faults, touches>>

Base == mapped /\ others = "base"
Fault(c) == (c => faults < MaxFaults) /\ faults' = faults + (IF c THEN 1 ELSE 0)
Answers == [did : BOOLEAN, pass : BOOLEAN]
Write(x, what, can) ==
  /\ (x.pass => x.did) /\ (x.did => can) /\ Fault(can /\ ~x.pass)
  /\ flying' \in {flying, IF x.did THEN flying ELSE flying \cup {what}}
Calling == UNCHANGED <<named, told, cut, touches>>
Reading == UNCHANGED <<vios, catalog, flying, accepted, checked, cut, harm, touches>>

-----------------------------------------------------------------------------
(* Before, and the backup.                                                    *)

\* preconditions, the snapshot and the adapter's own listing: whatever does not read, or
\* not as it should, stops the arm with nothing changed.  The names are stored next.
Preconditions ==
  /\ pc = "start" /\ Reading /\ UNCHANGED <<listed, ended, settled, atBase, rows, clean, verdict, moved>>
  /\ \E r \in BOOLEAN :
       (r => Base) /\ Fault(Base /\ ~r) /\ named' = r /\ pc' = IF r THEN "backup" ELSE "end"

Backup ==
  /\ pc = "backup" /\ pc' = "list" /\ Calling
  /\ UNCHANGED <<vios, listed, ended, settled, atBase, moved, harm>>
  /\ \E x \in Answers : Write(x, "backup", TRUE) /\ catalog' = x.did /\ accepted' = x.pass

\* catalog_name: the name comes from the parsed rows or the raw listing; without a confirmed
\* backup there is no round trip.
ListBackups ==
  /\ pc = "list" /\ Reading /\ UNCHANGED <<named, ended, settled, atBase, rows, clean, verdict, moved>>
  /\ \E r \in BOOLEAN : (r => catalog) /\ Fault(catalog /\ ~r) /\ listed' = r
  /\ pc' = IF accepted /\ listed' THEN "rmvdev" ELSE "final"

-----------------------------------------------------------------------------
(* _round_trip.                                                               *)

\* What this call returns is not looked at.
RemoveMapping ==
  /\ pc = "rmvdev" /\ pc' = "removed" /\ Calling /\ UNCHANGED <<others, catalog, went, moved, harm>>
  /\ \E x \in Answers : Write(x, "rmvdev", mapped) /\ mapped' = (mapped /\ ~x.did)

\* The REST feed, which can lag, and the VIOS's own listing must both show it gone.
Removed ==
  /\ pc = "removed" /\ Reading /\ UNCHANGED <<named, listed, ended, atBase, rows, clean, verdict, moved>>
  /\ \E feed, own \in {"unread", "shown", "gone"} :
       /\ (feed = "gone" => ~mapped) /\ own \in {"unread", IF mapped THEN "shown" ELSE "gone"}
       /\ Fault("unread" \in {feed, own} \/ (feed = "shown" /\ ~mapped))
       /\ settled' = ("unread" \notin {feed, own})
       /\ pc' = IF feed = "gone" /\ own = "gone" THEN "restore" ELSE "final"

\* With -r the HMC restarts the VIOS inside the call.  A timeout or a dropped session may
\* leave it running; a restore that fails may have restored a part.
Restore ==
  /\ pc = "restore" /\ pc' = "wait" /\ Calling /\ UNCHANGED <<catalog, listed, settled, atBase, moved, harm>>
  /\ \E x \in Answers, e \in BOOLEAN :
       /\ (x.pass => x.did /\ e) /\ accepted' = x.pass /\ ended' = e
       /\ mapped' \in {x.did, mapped}
       /\ (x.did => mapped') /\ others' \in {IF x.did THEN "base" ELSE others, "restored"}
       /\ Fault(~x.pass \/ others' = "restored")
       /\ flying' \in (IF e THEN {flying} ELSE {flying, flying \cup {"restore"}})

\* wait_for_vios: the bound may pass first.
Wait ==
  /\ pc = "wait" /\ Reading /\ UNCHANGED <<named, listed, ended, atBase, rows, clean, moved>>
  /\ \/ pc' = "after" /\ UNCHANGED <<settled, verdict, faults>>
     \/ Fault(TRUE) /\ pc' = "final" /\ settled' = FALSE /\ verdict' = "failed"

\* What is there is compared in any case; the mapping is put back by hand only when nothing
\* is still restoring.
After ==
  /\ pc = "after" /\ Reading /\ UNCHANGED <<named, listed, ended, atBase, rows, clean, moved>>
  /\ \E r, feed \in BOOLEAN :
       /\ Fault(~r \/ feed # mapped) /\ settled' = (r /\ ended)
       /\ verdict' = IF accepted /\ r /\ feed /\ Base THEN "passed" ELSE "failed"
       /\ pc' = IF r /\ ended /\ ~feed THEN "mkvdev" ELSE "final"

MakeMapping ==
  /\ pc = "mkvdev" /\ pc' = "final" /\ Calling /\ UNCHANGED <<others, catalog, went, moved>>
  /\ \E x \in Answers : Write(x, "mkvdev", ~mapped) /\ mapped' = (mapped \/ x.did)
  /\ harm' = harm \cup (IF "restore" \in flying THEN {"write"} ELSE {})

-----------------------------------------------------------------------------
(* The last comparison and the cleanup.                                       *)

\* Mutant of FinalBaseline (OnlyOwnRemoved): compared also while it may still be restoring.
FinalUnsettled ==
  /\ pc = "final" /\ Reading /\ UNCHANGED <<named, listed, ended, settled, rows, clean, verdict>>
  /\ \E r \in BOOLEAN : (r => Base) /\ Fault(Base /\ ~r) /\ atBase' = r
  /\ moved' = FALSE /\ pc' = "cleanup"

FinalBaseline ==
  /\ pc = "final" /\ Reading /\ UNCHANGED <<named, listed, ended, settled, rows, clean, verdict>>
  /\ \E r \in BOOLEAN : (r => Base /\ settled) /\ Fault(Base /\ settled /\ ~r) /\ atBase' = r
  /\ moved' = FALSE /\ pc' = "cleanup"

\* cleanup_backup: a backup of a VIOS that is off its baseline is kept, with a row.
Keep ==
  /\ pc = "cleanup" /\ ~(listed /\ atBase) /\ pc' = "end" /\ rows' = listed /\ clean' = "not-run"
  /\ verdict' = (IF verdict = "passed" /\ ~atBase THEN "failed" ELSE verdict)
  /\ Reading /\ UNCHANGED <<named, listed, ended, settled, atBase, moved, faults>>

RemoveBackup ==
  /\ pc = "cleanup" /\ listed /\ atBase /\ pc' = "gone" /\ Calling /\ UNCHANGED <<vios, went, moved>>
  /\ \E x \in Answers : Write(x, "rmviosbk", catalog) /\ catalog' = (catalog /\ ~x.did)
  /\ harm' = harm \cup (IF "restore" \in flying \/ ~(Base \/ moved) THEN {"backup"} ELSE {})

\* Absence is read from the listing that showed the backup.
Gone ==
  /\ pc = "gone" /\ pc' = "end" /\ Reading
  /\ \E r \in BOOLEAN :
       (r => ~catalog) /\ Fault(~catalog /\ ~r) /\ clean' = IF r THEN "passed" ELSE "failed"
  /\ UNCHANGED <<named, listed, ended, settled, atBase, rows, verdict, moved>>

-----------------------------------------------------------------------------
(* The recovery check, interrupts, and the HMC and its other users.           *)

\* check_vios_backup: a listed backup, the row, and a mapping that is missing are findings.
Recover ==
  /\ pc = "end" /\ pc' = "checked"
  /\ \/ Fault(named) /\ named /\ checked' = "unread"
     \/ UNCHANGED faults
        /\ checked' = IF named /\ (catalog \/ rows \/ ~mapped) THEN "left" ELSE "zero"
  /\ UNCHANGED <<vios, catalog, flying, named, went, rows, clean, verdict, past, touches>>

Calls == [backup |-> "backup", rmvdev |-> "rmvdev", restore |-> "restore", mkvdev |-> "mkvdev"]

Interrupt ==
  /\ pc \notin {"start", "end", "checked"} /\ Fault(TRUE) /\ pc' = "end" /\ cut' = TRUE
  /\ flying' \in {flying, flying \cup (IF pc \in DOMAIN Calls THEN {Calls[pc]} ELSE {})}
  /\ UNCHANGED <<vios, catalog, named, went, told, moved, harm, touches>>

Land(x) ==
  /\ pc # "checked" /\ flying' = flying \ {x} /\ moved' = TRUE
  /\ mapped' = CASE x = "rmvdev" -> FALSE [] x \in {"mkvdev", "restore"} -> TRUE [] OTHER -> mapped
  /\ others' \in IF x = "restore" THEN {"base", "restored"} ELSE {others}
  /\ catalog' = CASE x = "backup" -> TRUE [] x = "rmviosbk" -> FALSE [] OTHER -> catalog
  /\ UNCHANGED <<pc, named, went, told, cut, harm, faults, touches>>

\* The system is the operator's alone for the arm, but nothing keeps others away.
Touch ==
  /\ pc \notin {"end", "checked"} /\ touches < MaxTouches /\ touches' = touches + 1
  /\ others' = "theirs" /\ moved' = TRUE
  /\ UNCHANGED <<mapped, catalog, flying, pc, named, went, told, cut, harm, faults>>

Init ==
  /\ mapped = TRUE /\ others = "base" /\ catalog = FALSE /\ flying = {}
  /\ pc = "start" /\ named = FALSE /\ accepted = FALSE /\ listed = FALSE
  /\ ended = FALSE /\ settled = TRUE /\ atBase = FALSE
  /\ rows = FALSE /\ clean = "none" /\ verdict = "none" /\ checked = "none"
  /\ cut = FALSE /\ moved = FALSE /\ harm = {} /\ faults = 0 /\ touches = 0

Next ==
  \/ Preconditions \/ Backup \/ ListBackups \/ RemoveMapping \/ Removed
  \/ Restore \/ Wait \/ After \/ MakeMapping \/ FinalBaseline
  \/ Keep \/ RemoveBackup \/ Gone \/ Recover
  \/ Interrupt \/ Touch \/ \E x \in flying : Land(x)

Spec == Init /\ [][Next]_vars

-----------------------------------------------------------------------------
(* Properties.                                                                *)

ViosLiveTypeOK ==
  /\ {mapped, catalog, named, accepted, listed, ended, settled, atBase, rows, cut, moved} \subseteq BOOLEAN
  /\ others \in {"base", "restored", "theirs"} /\ harm \subseteq {"write", "backup"}
  /\ flying \subseteq {"backup", "rmvdev", "restore", "mkvdev", "rmviosbk"}
  /\ clean \in {"none", "not-run", "passed", "failed"} /\ verdict \in {"none", "passed", "failed"}

\* A backup called cleaned up is gone, a restore called verified left the VIOS as it was,
\* and a recovery check that exits 0 finds the mapping there and no backup.
ViosClean ==
  /\ (clean = "passed") => ~catalog
  /\ (pc = "end" /\ verdict = "passed" /\ ~cut) => Base \/ moved
  /\ (checked = "zero") => mapped /\ ~catalog /\ others # "restored"

\* A run that was not interrupted tells of a VIOS it left other than it was, and of a
\* backup that it knew and did not remove.
ViosLeftTold ==
  pc = "end" /\ ~cut =>
    /\ (mapped /\ others # "restored") \/ moved \/ rows
    /\ (catalog /\ listed) => rows \/ clean = "failed"

\* The backup is removed only when the VIOS has read as it did before and nothing is
\* restoring it any more; and nothing is written to it while a restore may be running.
ViosOwnRemoved == harm = {}
=============================================================================
