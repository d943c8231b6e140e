----------------------------- MODULE LiveProfiles -----------------------------
(* The profiles arm of the live tests (scripts/live_test/inventory.py,        *)
(* profiles.py and lpar.py): subtask 0 captures the test partition's          *)
(* baseline, subtask 4 reads, subtask 10 changes one setting after the other  *)
(* and writes each back, and subtask 15 writes the baseline back.  One of the *)
(* round trips restores a backup of every profile of the system, which takes  *)
(* the resources of partitions that are not activated; they are applied again.*)
EXTENDS Naturals

CONSTANTS
  MaxFaults,    \* bound: calls that fail, or take effect without a good answer, and stops
  MaxTouches    \* bound: changes other users make

ProfilesLiveAssumption == {MaxFaults, MaxTouches} \subseteq Nat

VARIABLES
  (* the HMC *)
  setting,   \* each setting: its value at the start, the run's probe, or another's
  synced,    \* sync_curr_profile is 1 at the start, so the profile mode cannot be changed
  active,    \* the partition is activated
  flying,    \* what was sent and is not carried out yet
  (* the run *)
  baseline,  \* lp3_baseline: the settings that were captured, and those that can be written
  item, pc,  \* the setting and the step of its round trip
  original,  \* what the round trip writes back
  accepted,  \* the probe was reported as written
  refused,   \* the probe was refused, and not only unanswered
  shown,     \* what the read after it showed
  verdict,   \* the cleanup disposition of each round trip
  told,      \* the settings a MANUAL RECOVERY row, or a row that says how to restore, names
  (* history *)
  late,      \* the settings the run's own write reached after it had looked
  cut,       \* the run was interrupted
  faults, touches

hmc   == <<setting, synced, active>>
trip  == <<original, accepted, refused, shown>>
notes == <<verdict, told>>
past  == <<late, cut>>
vars  == <<hmc, flying, baseline, item, pc, trip, notes, past, faults, touches>>

Settings == {"desc", "msp", "mode", "sync", "config"}
Fault(c) == (c => faults < MaxFaults) /\ faults' = faults + (IF c THEN 1 ELSE 0)
Answers == [did : BOOLEAN, pass : BOOLEAN]
Disposed(ok) == [verdict EXCEPT ![item] = IF ok THEN "passed" ELSE "failed"]

\* One call that writes a setting.  One that fails may be carried out, now or later.
Write(x, to) ==
  /\ (x.pass => x.did) /\ Fault(~x.pass)
  /\ setting' = IF x.did THEN [setting EXCEPT ![item] = to] ELSE setting
  /\ flying' \in {flying, IF x.did THEN flying ELSE flying \cup {<<item, to>>}}

After == [desc |-> "msp", msp |-> "mode", mode |-> "sync", sync |-> "config", config |-> "pool"]
NextItem ==
  /\ item' = After[item] /\ pc' = "set"
  /\ original' = "base" /\ accepted' = FALSE /\ refused' = FALSE /\ shown' = "unread"
Step(to) == pc' = to /\ UNCHANGED <<item, trip>>

Calling == UNCHANGED <<synced, active, baseline, past, touches>>
Reading == UNCHANGED <<hmc, flying, baseline, past, touches>>

-----------------------------------------------------------------------------
(* Subtasks 0 and 4.                                                          *)

\* capture_lpar_baseline: a read that fails leaves its key out of the baseline.
Capture ==
  /\ pc = "capture" /\ Step("inventory") /\ UNCHANGED <<hmc, flying, notes, past, touches>>
  /\ \E missing \in SUBSET {"desc", "mode", "sync"} :
       /\ Fault(missing # {}) /\ baseline' = [s \in {"desc", "mode", "sync"} |->
            IF s \in missing THEN "missing" ELSE baseline[s]]

\* inventory_lpar_profiles: each read is observed as failed, or by what it shows, of which
\* the gated ones show their capability or the reason it is missing; none changes anything.
Inventory ==
  /\ pc = "inventory" /\ Step("set") /\ Reading /\ UNCHANGED <<notes, faults>>

-----------------------------------------------------------------------------
(* Subtask 10: one round trip after the other.                                *)

\* The description and the sync value are written back from the baseline; the MSP flag and
\* the profile mode from what is read first.
Fresh == item \in {"msp", "mode"}

\* A setting is left alone when what it would be written back to is not known or cannot be
\* written, or where the change is refused anyway or is a recorded gap.
Skipped ==
  \/ item = "mode" /\ (baseline["sync"] # "missing" /\ synced)
  \/ item = "sync" /\ (baseline["sync"] = "missing" \/ active)

Skip ==
  /\ pc = "set" /\ item \in Settings /\ Skipped /\ NextItem
  /\ Reading /\ UNCHANGED <<notes, faults>>

\* The mode of a profile that is kept in sync is refused, whatever the baseline says.
Refuses == item = "mode" /\ synced

\* Mutant of Probe (TypesOK): the setting is probed also when it could not be read first.
ProbeUnread ==
  /\ pc = "set" /\ item \in Settings \ {"config"} /\ ~Skipped /\ Calling /\ UNCHANGED notes
  /\ \E x \in Answers :
       /\ IF Refuses THEN ~x.pass /\ ~x.did /\ UNCHANGED <<setting, flying, faults>>
          ELSE Write(x, "probe")
       /\ original' \in (IF Fresh THEN {setting[item], "unread"} ELSE {"base"})
       /\ accepted' = x.pass /\ refused' = Refuses /\ pc' = "look" /\ UNCHANGED <<item, shown>>

Probe ==
  /\ pc = "set" /\ item \in Settings \ {"config"} /\ ~Skipped /\ Calling /\ UNCHANGED notes
  /\ \/ Fresh /\ Fault(TRUE) /\ NextItem /\ UNCHANGED <<setting, flying>>
     \/ \E x \in Answers, no \in BOOLEAN :
          /\ IF Refuses THEN ~x.pass /\ ~x.did /\ no /\ UNCHANGED <<setting, flying, faults>>
             ELSE Write(x, "probe")
          /\ (no => ~x.did /\ ~x.pass /\ flying' = flying)
          /\ original' = (IF Fresh THEN setting[item] ELSE "base") /\ accepted' = x.pass
          /\ refused' = no /\ pc' = "look" /\ UNCHANGED <<item, shown>>

Look ==
  /\ pc = "look" /\ item # "config" /\ Reading /\ UNCHANGED <<item, original, accepted, refused, notes>>
  /\ pc' = "restore"
  /\ \E r \in BOOLEAN : Fault(~r) /\ shown' = IF r THEN setting[item] ELSE "unread"

\* A description that was not captured, or that cannot be written, is asked for by hand; a
\* refused disable that left the sync value as it was needs no restore.
Unrestorable == item = "desc" /\ baseline["desc"] # "captured"
Unproven == item = "sync" /\ synced /\ refused /\ shown = original

\* Mutant of Restore (ProfilesLeftTold): only a probe that was reported as written is
\* written back.
RestoreAccepted ==
  /\ pc = "restore" /\ item # "config" /\ Calling
  /\ IF Unrestorable
     THEN /\ told' = told \cup {item} /\ verdict' = Disposed(FALSE) /\ NextItem
          /\ UNCHANGED <<setting, flying, faults>>
     ELSE IF ~accepted THEN NextItem /\ UNCHANGED <<setting, flying, faults, notes>>
     ELSE \E x \in Answers : Write(x, original) /\ Step("verify") /\ UNCHANGED notes

Restore ==
  /\ pc = "restore" /\ item # "config" /\ Calling
  /\ IF Unrestorable
     THEN /\ told' = told \cup {item} /\ verdict' = Disposed(FALSE) /\ NextItem
          /\ UNCHANGED <<setting, flying, faults>>
     ELSE IF Unproven
     THEN /\ told' = told \cup {item} /\ NextItem /\ UNCHANGED <<setting, flying, verdict, faults>>
     ELSE \E x \in Answers :
            /\ Write(x, original)
            /\ IF item = "desc" /\ ~x.pass THEN verdict' = Disposed(FALSE) /\ NextItem /\ UNCHANGED told
               ELSE Step("verify") /\ UNCHANGED notes

\* Cleanup is judged by the state read back, not by what the restore returned.
Verify ==
  /\ pc = "verify" /\ Reading /\ UNCHANGED told /\ NextItem
  /\ \E r \in BOOLEAN : Fault(~r) /\ verdict' = Disposed(r /\ setting[item] = original)

-----------------------------------------------------------------------------
(* The backup and merge-restore of every profile.                             *)

\* Without a backup and the two reads before it there is no restore.
Backup ==
  /\ pc = "set" /\ item = "config" /\ Reading /\ UNCHANGED notes
  /\ \E r \in BOOLEAN : Fault(~r) /\ IF r THEN Step("merge") ELSE NextItem

\* The restore takes the resources of a partition that is not activated.
Merge ==
  /\ pc = "merge" /\ Calling /\ UNCHANGED notes /\ Step("reapply")
  /\ \E x \in Answers, takes \in BOOLEAN :
       Write(x, IF takes /\ ~active THEN "probe" ELSE setting["config"])

\* _reapply_unconfigured: a partition whose resources are gone, or that could not be read,
\* is named unless its profile was applied again.
Reapply ==
  /\ pc = "reapply" /\ Calling /\ UNCHANGED verdict /\ Step("judge")
  /\ \/ active /\ UNCHANGED <<setting, flying, faults, told>>
     \/ ~active /\ Fault(TRUE) /\ told' = told \cup {item} /\ UNCHANGED <<setting, flying>>
     \/ ~active /\ setting[item] # "probe" /\ UNCHANGED <<setting, flying, faults, told>>
     \/ /\ ~active /\ setting[item] = "probe"
        /\ \E x \in Answers : Write(x, "base") /\ told' = IF x.pass THEN told ELSE told \cup {item}

Judge ==
  /\ pc = "judge" /\ Reading /\ UNCHANGED told /\ NextItem
  /\ \E r \in BOOLEAN : Fault(~r) /\ verdict' = Disposed(r /\ setting[item] = "base")

\* The pool to remove is not named, so that call is made only where none is listed, and
\* must be refused.
Pool ==
  /\ pc = "set" /\ item = "pool" /\ item' = "desc" /\ pc' = "st15"
  /\ Reading /\ UNCHANGED <<trip, notes, faults>>

-----------------------------------------------------------------------------
(* Subtask 15.                                                                *)

\* The baseline's description and profile mode are written back, whatever is there now.
RestoreDescription ==
  /\ pc = "st15" /\ item = "desc" /\ Calling /\ UNCHANGED <<trip, verdict>>
  /\ IF Unrestorable
     THEN told' = told \cup {item} /\ UNCHANGED <<setting, flying, faults>>
     ELSE \E x \in Answers : Write(x, "base") /\ UNCHANGED told
  /\ item' = "mode" /\ pc' = "st15"

RestoreMode ==
  /\ pc = "st15" /\ item = "mode" /\ Calling /\ UNCHANGED verdict /\ Step("end")
  /\ CASE baseline["sync"] # "missing" /\ synced -> UNCHANGED <<setting, flying, faults, told>>
       [] baseline["mode"] = "missing" -> told' = told \cup {item} /\ UNCHANGED <<setting, flying, faults>>
       [] OTHER -> /\ UNCHANGED told
                   /\ IF Refuses THEN UNCHANGED <<setting, flying, faults>>
                      ELSE \E x \in Answers : Write(x, "base")

-----------------------------------------------------------------------------
(* Interrupts, and the HMC and its other users.                               *)

Interrupt ==
  /\ pc \notin {"capture", "inventory", "end"} /\ Fault(TRUE) /\ cut' = TRUE /\ Step("end")
  /\ UNCHANGED <<hmc, flying, baseline, notes, late, touches>>

Land(w) ==
  /\ pc # "end" /\ flying' = flying \ {w} /\ setting' = [setting EXCEPT ![w[1]] = w[2]]
  /\ late' = late \cup {w[1]}
  /\ UNCHANGED <<synced, active, baseline, item, pc, trip, notes, cut, faults, touches>>

\* Others change a setting.
Touch ==
  /\ pc # "end" /\ touches < MaxTouches /\ touches' = touches + 1
  /\ \E s \in Settings : setting' = [setting EXCEPT ![s] = "theirs"]
  /\ UNCHANGED <<synced, active, flying, baseline, item, pc, trip, notes, past, faults>>

\* The description may be one the CLI cannot write back.
Init ==
  /\ setting = [s \in Settings |-> "base"]
  /\ synced \in BOOLEAN /\ active \in BOOLEAN /\ flying = {}
  /\ baseline \in [{"desc", "mode", "sync"} -> {"captured", "unwritable"}]
  /\ baseline["mode"] = "captured" /\ baseline["sync"] = "captured"
  /\ item = "desc" /\ pc = "capture" /\ original = "base" /\ accepted = FALSE /\ refused = FALSE
  /\ shown = "unread" /\ verdict = [s \in Settings |-> "none"] /\ told = {}
  /\ late = {}  /\ cut = FALSE /\ faults = 0 /\ touches = 0

Next ==
  \/ Capture \/ Inventory \/ Skip \/ Probe \/ Look \/ Restore \/ Verify
  \/ Backup \/ Merge \/ Reapply \/ Judge \/ Pool \/ RestoreDescription \/ RestoreMode
  \/ Interrupt \/ Touch \/ \E w \in flying : Land(w)

Spec == Init /\ [][Next]_vars

-----------------------------------------------------------------------------
(* Properties.                                                                *)

ProfilesLiveTypeOK ==
  /\ setting \in [Settings -> {"base", "probe", "theirs"}]
  /\ baseline \in [{"desc", "mode", "sync"} -> {"captured", "unwritable", "missing"}]
  /\ original \in {"base", "theirs"} /\ told \subseteq Settings /\ late \subseteq Settings
  /\ verdict \in [Settings -> {"none", "passed", "failed"}]
  /\ {synced, active, accepted, refused, cut} \subseteq BOOLEAN

\* A run that came to its end tells of every setting that still has its probe, unless the
\* probe was written after the run had looked; whoever reads the rows finds each of them.
ProfilesLeftTold ==
  pc = "end" /\ ~cut =>
    \A s \in Settings : setting[s] = "probe" => s \in told \cup late \/ verdict[s] = "failed"

\* A round trip whose cleanup is called passed has left no probe.
ProfilesClean == \A s \in Settings : verdict[s] = "passed" => setting[s] # "probe" \/ s \in late
=============================================================================
