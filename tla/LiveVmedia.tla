----------------------------- MODULE LiveVmedia -----------------------------
(* The virtual-media arm of the live tests and the recovery check after it.  *)
(* scripts/live_test_runner.py runs the selected subtasks against a real     *)
(* HMC, each call answered PASS or FAIL whatever it did there, and writes    *)
(* one results document; scripts/live_test/vmedia.py holds subtasks 16-22;   *)
(* scripts/live_test_recovery.py reads the document and the HMC and says     *)
(* whether anything was left behind.                                         *)
(*                                                                           *)
(* A run may be interrupted, when it writes what it has as a partial         *)
(* document, or killed, when it writes nothing.  The VIOS, its configured    *)
(* volume group and the test partition are known throughout; the ISO file    *)
(* exists and the partition is not protected.                                *)
EXTENDS Naturals, Sequences, FiniteSets

CONSTANTS
  Runs,        \* bound: invocations of the runner
  Selections,  \* sequences of subtasks one invocation may be given
  MaxFaults,   \* bound: calls that fail, or take effect without a good answer
  MaxStops     \* bound: runs that are interrupted or killed

LiveAssumption ==
  /\ Runs \in Nat \ {0} /\ MaxFaults \in Nat /\ MaxStops \in Nat
  /\ Selections \subseteq Seq(16..22)

VARIABLES
  (* the HMC *)
  repo,       \* who made the media repository: a run, the Operator, or 0: there is none
  media,      \* the media in it
  importing,  \* media the HMC took the bytes of and may still import
  mounted,    \* media mapped to the test partition
  bare,       \* a server adapter toward the partition has no mapping
  running,    \* the run that left the partition on, or 0
  boot,       \* its pending boot order
  (* the run *)
  run, chosen, tasks, pc,
  arts,       \* LiveTestArtifacts: what the run has recorded as its own
  rows,       \* what its result rows show of the calls it made
  (* between runs *)
  doc,        \* the results document
  verdict,    \* the exit status of the last recovery check, if it is still current
  was,        \* history: the boot order when the run began, and the one saved before it
  late,       \* history: media imported when no artifact named them any more
  faults, stops

hmc  == <<repo, media, importing, mounted, bare, running, boot>>
mine == <<arts, rows>>
vars == <<hmc, run, chosen, tasks, pc, mine, doc, verdict, was, late, faults, stops>>

Operator == Runs + 1
Orders  == {"first", "devices", "none"}
Medium  == [kind : {"iso", "blank"}, run : 1..Runs, task : {18, 19, 20}]
NoName  == [kind |-> "none", run |-> 0, task |-> 0]
NoArts  == [vg |-> FALSE, owned |-> FALSE, blank |-> NoName, iso |-> NoName,
            mapping |-> FALSE, order |-> "none"]
NoRows  == [repository |-> FALSE, power_on |-> FALSE, boot_set |-> FALSE, base |-> "none"]
NoDoc   == [run |-> 0, chosen |-> {}, partial |-> FALSE, arts |-> NoArts, rows |-> NoRows]

Name(kind, task) == [kind |-> kind, run |-> run, task |-> task]
run_media_names(a) == {a.blank, a.iso} \ {NoName}
Forget(a, names) ==
  [a EXCEPT !.blank = IF @ \in names THEN NoName ELSE @, !.iso = IF @ \in names THEN NoName ELSE @]

-----------------------------------------------------------------------------
(* Calls.                                                                    *)

\* RunState.call: a call did what it was asked or not, and answered PASS or FAIL;
\* PASS says that it did.
Answers == [did : BOOLEAN, pass : BOOLEAN]
Answered(x) ==
  /\ x.pass => x.did
  /\ x.pass \/ faults < MaxFaults
  /\ faults' = faults + (IF x.pass THEN 0 ELSE 1)

\* A read is answered, or not.
Read(ok) == (ok \/ faults < MaxFaults) /\ faults' = faults + (IF ok THEN 0 ELSE 1)

\* RunState.record and the artifacts after a step.  An interrupt between the call
\* and its row leaves neither, and the document that is written then is partial.
Goes(a, r, next) ==
  /\ \/ /\ arts' = a /\ rows' = r /\ pc' = next /\ UNCHANGED <<doc, stops>>
     \/ /\ stops < MaxStops /\ stops' = stops + 1 /\ pc' = "idle"
        /\ doc' = [run |-> run, chosen |-> chosen, partial |-> TRUE, arts |-> arts, rows |-> rows]
        /\ UNCHANGED mine
  /\ UNCHANGED <<run, chosen, tasks, verdict, was, late>>

\* A step that changes nothing at the HMC.
Reads == UNCHANGED hmc
At(step) == pc = step

Uses(x) == repo' = x /\ UNCHANGED <<media, importing, mounted, bare, running, boot>>
Holds(m, i) == media' = m /\ importing' = i /\ UNCHANGED <<repo, mounted, bare, running, boot>>
Maps(m, b) == mounted' = m /\ bare' = b /\ UNCHANGED <<repo, media, importing, running, boot>>
Powers(p) == running' = p /\ UNCHANGED <<repo, media, importing, mounted, bare, boot>>
Boots(o) == boot' = o /\ UNCHANGED <<repo, media, importing, mounted, bare, running>>

-----------------------------------------------------------------------------
(* The runner.                                                               *)

\* main and _restore_artifacts_from_results: the artifacts of an existing document
\* are taken over, its rows are not.
Start(ts) ==
  /\ At("idle") /\ run < Runs
  /\ run' = run + 1 /\ tasks' = ts /\ chosen' = {ts[i] : i \in DOMAIN ts} /\ pc' = "next"
  /\ arts' = doc.arts /\ rows' = NoRows
  /\ verdict' = 9 /\ was' = {boot, doc.arts.order} \ {"none"}
  /\ UNCHANGED <<hmc, doc, late, faults, stops>>

FirstStep(t) ==
  CASE t = 16 -> "read16" [] t = 17 -> "own17" [] t = 18 -> "list18" [] t = 19 -> "look19"
    [] t = 20 -> "list20" [] t = 21 -> "next" [] t = 22 -> "guard22"

\* The loop over the subtasks; subtask 21 only reads.
NextTask ==
  /\ At("next") /\ tasks # <<>>
  /\ tasks' = Tail(tasks) /\ pc' = FirstStep(Head(tasks))
  /\ UNCHANGED <<hmc, run, chosen, mine, doc, verdict, was, late, faults, stops>>

\* write_results(partial=False), which replaces the document in one step.
Finish ==
  /\ At("next") /\ tasks = <<>> /\ pc' = "idle"
  /\ doc' = [run |-> run, chosen |-> chosen, partial |-> FALSE, arts |-> arts, rows |-> rows]
  /\ UNCHANGED <<hmc, run, chosen, tasks, mine, verdict, was, late, faults, stops>>

\* SIGKILL, or a document that cannot be written: the old one stays.
Kill ==
  /\ ~At("idle") /\ stops < MaxStops /\ stops' = stops + 1 /\ pc' = "idle"
  /\ UNCHANGED <<hmc, run, chosen, tasks, mine, doc, verdict, was, late, faults>>

-----------------------------------------------------------------------------
(* ST16 and ST17: the repository.                                            *)

\* vmedia_bootstrap_and_create_repo: an existing repository is used and never
\* claimed, also when the restored artifacts claimed it.
Find16 ==
  /\ At("read16") /\ Reads
  /\ \E listed, read \in BOOLEAN :
       /\ Read(listed /\ read)
       /\ \/ ~listed /\ Goes([arts EXCEPT !.vg = FALSE], rows, "next")
          \/ listed /\ ~read /\ Goes([arts EXCEPT !.vg = FALSE, !.owned = FALSE], rows, "next")
          \/ listed /\ read /\ repo # 0
             /\ Goes([arts EXCEPT !.vg = TRUE, !.owned = FALSE], rows, "next")
          \/ listed /\ read /\ repo = 0 /\ Goes([arts EXCEPT !.vg = FALSE], rows, "create16")

\* The rows of the repository's calls.
Repository == [rows EXCEPT !.repository = TRUE]

Create16 ==
  /\ At("create16")
  /\ \E x \in Answers : Answered(x) /\ Uses(IF x.did THEN run ELSE repo) /\ Goes(arts, Repository, "confirm16")

\* Owned once it reads back, whatever the create returned.
Confirm16 ==
  /\ At("confirm16") /\ Reads
  /\ \E ok \in BOOLEAN :
       /\ Read(ok)
       /\ Goes(IF ok /\ repo # 0 THEN [arts EXCEPT !.vg = TRUE, !.owned = TRUE] ELSE arts, rows, "next")

OwnsRepository == arts.owned /\ arts.vg

\* vmedia_short_repo_lifecycle: delete, create small, delete, create again, each
\* tried whatever the one before did.
Skip17 == At("own17") /\ Reads /\ UNCHANGED faults /\ Goes(arts, rows, IF OwnsRepository THEN "drop17" ELSE "next")

Remove17(step, next) ==
  /\ At(step)
  /\ \E x \in Answers :
       /\ Answered(x) /\ (x.did => media = {})
       /\ Uses(IF x.did THEN 0 ELSE repo) /\ Goes(arts, Repository, next)

Small17 ==
  /\ At("small17")
  /\ \E x \in Answers :
       /\ Answered(x) /\ (x.did => repo = 0)
       /\ Uses(IF x.did THEN run ELSE repo) /\ Goes(arts, Repository, "undo17")

Restore17 ==
  /\ At("main17")
  /\ \E x \in Answers :
       /\ Answered(x) /\ (x.did => repo = 0)
       /\ Uses(IF x.did THEN run ELSE repo)
       /\ Goes([arts EXCEPT !.owned = x.pass, !.vg = x.pass], Repository, "next")

-----------------------------------------------------------------------------
(* Media.                                                                    *)

\* A medium is recorded before the call that makes it, and only if the one before
\* it is not still recorded and the listing can be read.
List18 ==
  /\ At("list18") /\ Reads
  /\ \E ok \in BOOLEAN :
       /\ Read(ok)
       /\ IF arts.vg /\ arts.iso = NoName /\ ok
          THEN Goes([arts EXCEPT !.iso = Name("iso", 18)], rows, "upload18") ELSE Goes(arts, rows, "next")

\* hmc_upload_iso.  One that failed may still be imported later.
Upload(name, failed, next) ==
  \E x \in Answers :
    /\ Answered(x) /\ (x.did => repo # 0)
    /\ \/ Holds(IF x.did THEN media \cup {name} ELSE media, importing)
       \/ ~x.did /\ Holds(media, importing \cup {name})
    /\ Goes(arts, rows, IF x.pass THEN next ELSE failed)

Upload18 == At("upload18") /\ Upload(arts.iso, "after18", "after18")

\* Whatever the upload returned, a listed medium is removed, one that is not listed
\* is forgotten, and one that may be there keeps its record.
After18 ==
  /\ At("after18") /\ Reads
  /\ \E ok \in BOOLEAN :
       /\ Read(ok)
       /\ \/ ok /\ arts.iso \in media /\ Goes(arts, rows, "delete18")
          \/ ok /\ arts.iso \notin media /\ Goes(Forget(arts, {arts.iso}), rows, "next")
          \/ ~ok /\ Goes(arts, rows, "next")

\* _delete_run_media: the name is forgotten when a listing then shows it absent.
\* The listing shares its fault with the delete.
Delete(name, next) ==
  \E x \in Answers, ok \in BOOLEAN :
    /\ Answered(x) /\ (x.did => name \notin mounted) /\ (x.pass => ok)
    /\ Holds(IF x.did THEN media \ {name} ELSE media, importing)
    /\ Goes(IF ok /\ name \notin media' THEN Forget(arts, {name}) ELSE arts, rows, next)

Delete18 == At("delete18") /\ Delete(arts.iso, "next")

\* _RoundTrip.preconditions and baseline: the partition must be off.
Look19 ==
  /\ At("look19") /\ Reads
  /\ \E ok \in BOOLEAN :
       /\ Read(ok)
       /\ IF arts.vg /\ arts.blank = NoName /\ running = 0 /\ repo # 0 /\ ok
          THEN Goes([arts EXCEPT !.blank = Name("blank", 19)], rows, "create19") ELSE Goes(arts, rows, "next")

Create19 ==
  /\ At("create19")
  /\ \E x \in Answers :
       /\ Answered(x) /\ (x.did => repo # 0)
       /\ Holds(IF x.did THEN media \cup {arts.blank} ELSE media, importing)
       /\ Goes(arts, rows, "after19")

\* Nothing is mounted that is not listed.
After19 ==
  /\ At("after19") /\ Reads
  /\ \E ok \in BOOLEAN :
       /\ Read(ok)
       /\ \/ ok /\ arts.blank \in media /\ Goes(arts, rows, "mount19")
          \/ ok /\ arts.blank \notin media /\ Goes(Forget(arts, {arts.blank}), rows, "next")
          \/ ~ok /\ Goes(arts, rows, "next")

Mounts(name, x) == (x.did => name \in media) /\ Maps(IF x.did THEN mounted \cup {name} ELSE mounted, bare)

\* An unmount removes the mapping; the HMC may keep its adapter.
Unmounts(names, x) ==
  \/ Maps(IF x.did THEN mounted \ names ELSE mounted, bare)
  \/ x.did /\ names \cap mounted # {} /\ ~x.pass /\ Maps(mounted \ names, TRUE)

\* The mapping is read back: unknown stops the round trip, so that a medium that
\* may be mounted is not deleted.  The delete that is tried while it is mounted is
\* refused.
Mount19 ==
  /\ At("mount19")
  /\ \E x \in Answers : Answered(x) /\ Mounts(arts.blank, x) /\ Goes(arts, rows, "mapped19")

Mapped19 ==
  /\ At("mapped19") /\ Reads
  /\ \E ok \in BOOLEAN :
       /\ Read(ok)
       /\ Goes(arts, rows, IF ~ok THEN "next" ELSE IF arts.blank \in mounted THEN "unmount19" ELSE "delete19")

Unmount19 ==
  /\ At("unmount19")
  /\ \E x \in Answers : Answered(x) /\ Unmounts({arts.blank}, x) /\ Goes(arts, rows, "unmapped19")

Unmapped19 ==
  /\ At("unmapped19") /\ Reads
  /\ \E ok \in BOOLEAN : Read(ok) /\ Goes(arts, rows, IF ok /\ arts.blank \notin mounted THEN "delete19" ELSE "next")

Delete19 == At("delete19") /\ Delete(arts.blank, "next")

-----------------------------------------------------------------------------
(* ST20: boot from the medium.                                               *)

\* vmedia_boot_verification and _prepare_boot_media.
List20 ==
  /\ At("list20") /\ Reads
  /\ \E ok \in BOOLEAN :
       /\ Read(ok)
       /\ IF arts.vg /\ arts.iso = NoName /\ ok
          THEN Goes([arts EXCEPT !.iso = Name("iso", 20)], rows, "upload20") ELSE Goes(arts, rows, "next")

Upload20 == At("upload20") /\ Upload(arts.iso, "next", "off20")

PowerOff(step, next) ==
  /\ At(step)
  /\ \E x \in Answers : Answered(x) /\ Powers(IF x.did THEN 0 ELSE running) /\ Goes(arts, rows, next)

\* The mapping's identity is recorded only from a good answer that carries one.
Mount20 ==
  /\ At("mount20")
  /\ \E x \in Answers, known \in BOOLEAN :
       /\ Answered(x) /\ Mounts(arts.iso, x)
       /\ IF x.pass THEN Goes([arts EXCEPT !.mapping = known], rows, "boot20") ELSE Goes(arts, rows, "next")

\* _configure_boot_order: the order is saved before it is written, and not written
\* over an empty one.
Boot20 ==
  /\ At("boot20") /\ Reads
  /\ \E ok \in BOOLEAN :
       /\ Read(ok)
       /\ \/ ok /\ boot # "none"
             /\ Goes([arts EXCEPT !.order = boot], [rows EXCEPT !.base = boot], "set20")
          \/ (~ok \/ boot = "none") /\ Goes(arts, rows, "on20")

Set20 ==
  /\ At("set20")
  /\ \E x \in Answers :
       Answered(x) /\ Boots(IF x.did THEN "devices" ELSE boot) /\ Goes(arts, [rows EXCEPT !.boot_set = TRUE], "on20")

\* _run_boot_probe.
PowerOn20 ==
  /\ At("on20")
  /\ \E x \in Answers :
       Answered(x) /\ Powers(IF x.did THEN run ELSE running) /\ Goes(arts, [rows EXCEPT !.power_on = TRUE], "done20")

\* _restore_boot_configuration unmounts only what it knows the identity of.
Unmount20 ==
  /\ At("unmount20")
  /\ \/ /\ ~arts.mapping \/ arts.iso = NoName
        /\ Reads /\ UNCHANGED faults /\ Goes(arts, rows, "restore20")
     \/ /\ arts.mapping /\ arts.iso # NoName
        /\ \E x \in Answers :
             /\ Answered(x) /\ Unmounts({arts.iso}, x)
             /\ Goes(IF x.pass THEN [arts EXCEPT !.mapping = FALSE] ELSE arts, rows, "restore20")

\* The saved order is forgotten once it is written back.
RestoreOrder(step, next) ==
  /\ At(step)
  /\ \/ arts.order = "none" /\ Reads /\ UNCHANGED faults /\ Goes(arts, rows, next)
     \/ /\ arts.order # "none"
        /\ \E x \in Answers :
             /\ Answered(x) /\ Boots(IF x.did THEN arts.order ELSE boot)
             /\ Goes(IF x.pass THEN [arts EXCEPT !.order = "none"] ELSE arts,
                     [rows EXCEPT !.boot_set = TRUE], next)

Restore20 == RestoreOrder("restore20", "next")

-----------------------------------------------------------------------------
(* ST22: teardown.                                                           *)

Guard22 == RestoreOrder("guard22", "unmap22")

\* _remove_run_mappings: the media the run names, and nothing else.
Unmap22 ==
  /\ At("unmap22")
  /\ \/ Reads /\ Read(run_media_names(arts) \cap mounted = {}) /\ Goes(arts, rows, "media22")
     \/ \E x \in Answers :
          /\ run_media_names(arts) \cap mounted # {}
          /\ Answered(x) /\ Unmounts(run_media_names(arts), x)
          /\ Goes(IF x.pass /\ arts.iso \in mounted THEN [arts EXCEPT !.mapping = FALSE] ELSE arts,
                  rows, "media22")

\* _remove_run_media, one medium at a time; a medium the listing does not show is
\* forgotten, and without a group to list none is touched.
Media22 ==
  /\ At("media22")
  /\ \/ /\ Reads
        /\ \E ok \in BOOLEAN :
             /\ Read(ok)
             /\ IF ok /\ arts.vg THEN Goes(Forget(arts, run_media_names(arts) \ media), rows, "repo22")
                ELSE Goes(arts, rows, "repo22")
     \/ /\ arts.vg
        /\ \E name \in run_media_names(arts) \cap media : Delete(name, "media22")

\* _remove_repository: only the run's own.
Repo22 ==
  /\ At("repo22")
  /\ \/ ~OwnsRepository /\ Reads /\ UNCHANGED faults /\ Goes(arts, rows, "next")
     \/ /\ OwnsRepository
        /\ \E x \in Answers :
             /\ Answered(x) /\ (x.did => media = {})
             /\ Uses(IF x.did THEN 0 ELSE repo)
             /\ Goes(IF x.pass THEN [arts EXCEPT !.owned = FALSE] ELSE arts, Repository, "next")

-----------------------------------------------------------------------------
(* The HMC and the operator.                                                 *)

\* An import that outlived its call.
Import(name) ==
  /\ name \in importing /\ repo # 0 /\ Holds(media \cup {name}, importing \ {name})
  /\ late' = late \cup ({name} \ (IF At("idle") THEN {} ELSE {arts.iso}))
  /\ UNCHANGED <<run, chosen, tasks, pc, mine, doc, verdict, was, faults, stops>>

\* Between runs the operator may remove an empty repository, or make one.
OperatorActs ==
  /\ At("idle") /\ verdict # 0 /\ run < Runs /\ media = {}
  /\ Uses(IF repo = 0 THEN Operator ELSE 0)
  /\ UNCHANGED <<run, chosen, tasks, pc, mine, doc, verdict, was, late, faults, stops>>

-----------------------------------------------------------------------------
(* live_test_recovery.py.                                                    *)

\* Mutant: a repository the run never saw itself make is not looked for.
AppliesOwned(d) ==
  {"mapping", "adapter"}
    \cup {c \in {"media"} : run_media_names(d.arts) # {}}
    \cup {c \in {"repository"} : d.arts.owned}
    \cup {c \in {"running"} : d.rows.power_on}
    \cup {c \in {"boot"} : d.arts.order # "none" \/ d.rows.boot_set}

\* The classes a document makes the check read, and what it finds in each.
Applies(d) ==
  {"mapping", "adapter"}
    \cup {c \in {"media"} : run_media_names(d.arts) # {}}
    \cup {c \in {"repository"} : d.arts.owned \/ d.rows.repository}
    \cup {c \in {"running"} : d.rows.power_on}
    \cup {c \in {"boot"} : d.arts.order # "none" \/ d.rows.boot_set}

BootBaseline(d) == IF d.rows.base # "none" THEN d.rows.base ELSE d.arts.order

PartitionRunning(d) == running # 0
OpticalMappingLeft(d) == run_media_names(d.arts) \cap mounted # {}
RunMediaLeft(d) == run_media_names(d.arts) \cap media # {}
UnmappedServerAdapters == bare
RepositoryLeft(d) == repo # 0
BootStringDrift(d) == boot # BootBaseline(d)

\* What the document does not say cannot be read.
Missing(d) ==
  {c \in Applies(d) \cap {"media", "repository"} : ~d.arts.vg}
    \cup {c \in Applies(d) \cap {"boot"} : BootBaseline(d) = "none"}

Left(d, classes) ==
  \/ "running" \in classes /\ PartitionRunning(d)
  \/ "mapping" \in classes /\ OpticalMappingLeft(d)
  \/ "media" \in classes /\ RunMediaLeft(d)
  \/ "adapter" \in classes /\ UnmappedServerAdapters
  \/ "repository" \in classes /\ RepositoryLeft(d)
  \/ "boot" \in classes /\ BootStringDrift(d)

\* check_test_partition reads every class, also after one that cannot be read.
Exit(d, unread) ==
  IF unread \cup Missing(d) # {} \/ d.partial THEN 2
  ELSE IF Left(d, Applies(d)) THEN 1 ELSE 0

\* main: a check reads the document there is, and changes nothing.
Check ==
  /\ At("idle") /\ doc # NoDoc /\ verdict = 9
  /\ \E unread \in {{}} \cup {{c} : c \in Applies(doc)} : verdict' = Exit(doc, unread)
  /\ UNCHANGED <<hmc, run, chosen, tasks, pc, mine, doc, was, late, faults, stops>>

-----------------------------------------------------------------------------
Init ==
  /\ repo \in {0, Operator} /\ boot \in {"first", "none"}
  /\ media = {} /\ importing = {} /\ mounted = {} /\ bare = FALSE /\ running = 0
  /\ run = 0 /\ chosen = {} /\ tasks = <<>> /\ pc = "idle"
  /\ arts = NoArts /\ rows = NoRows /\ doc = NoDoc /\ verdict = 9
  /\ was = {} /\ late = {} /\ faults = 0 /\ stops = 0

Subtask ==
  \/ Find16 \/ Create16 \/ Confirm16
  \/ Skip17 \/ Remove17("drop17", "small17") \/ Small17 \/ Remove17("undo17", "main17") \/ Restore17
  \/ List18 \/ Upload18 \/ After18 \/ Delete18
  \/ Look19 \/ Create19 \/ After19 \/ Mount19 \/ Mapped19 \/ Unmount19 \/ Unmapped19 \/ Delete19
  \/ List20 \/ Upload20 \/ PowerOff("off20", "mount20") \/ Mount20 \/ Boot20 \/ Set20
  \/ PowerOn20 \/ PowerOff("done20", "unmount20") \/ Unmount20 \/ Restore20
  \/ Guard22 \/ Unmap22 \/ Media22 \/ Repo22

Next ==
  \/ \E ts \in Selections : Start(ts)
  \/ NextTask \/ Finish \/ Kill \/ Subtask
  \/ \E name \in importing : Import(name)
  \/ OperatorActs \/ Check

Spec == Init /\ [][Next]_vars

-----------------------------------------------------------------------------
(* Properties.                                                               *)

LiveTypeOK ==
  /\ repo \in 0..Operator
  /\ media \subseteq Medium /\ importing \subseteq Medium /\ mounted \subseteq media
  /\ bare \in BOOLEAN /\ running \in 0..Runs /\ boot \in Orders /\ was \subseteq Orders
  /\ arts.order \in Orders /\ run_media_names(arts) \subseteq Medium
  /\ verdict \in {0, 1, 2, 9}

\* Exit 0 means that nothing the run of the document made is left, whatever its
\* calls answered, where it was interrupted and what earlier runs left: no medium
\* of its, mounted or not, no repository, no bare adapter, the partition off and
\* its boot order as the run found it.  Only an import that ends after the arm has
\* seen its medium missing escapes the check.
CleanTrue ==
  verdict = 0 =>
    /\ \A m \in media : m.run = doc.run => m \in late
    /\ \A m \in mounted : m.run # doc.run
    /\ repo # doc.run /\ ~bare /\ running # doc.run
    /\ doc.run = run /\ boot # "none" => boot \in was

\* A run deletes only a repository that a run made, but for one case: the claim of
\* an earlier document taken over without subtask 16, which would have dropped it.
OwnRemoved     == repo = Operator /\ repo' # Operator /\ ~At("idle") => 16 \notin chosen
OnlyOwnRemoved == [][OwnRemoved]_vars
=============================================================================
