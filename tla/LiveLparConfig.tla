--------------------------- MODULE LiveLparConfig ---------------------------
(* The lpar-config arm of the live tests (subtask 39,                         *)
(* scripts/live_test/lpar_config.py) and the recovery check after it.  The    *)
(* arm makes a scratch partition, lends its profile a dedicated slot, changes *)
(* and renames it, activates it and deletes it.  A call is answered PASS or   *)
(* FAIL whatever it did, and what it asked for may be carried out later;      *)
(* others use the HMC too, and the run may be interrupted or killed.          *)
EXTENDS Naturals

CONSTANTS
  MaxFaults,    \* bound: calls that fail, or take effect without a good answer, and stops
  MaxTouches    \* bound: changes other users make

ConfigLiveAssumption == {MaxFaults, MaxTouches} \subseteq Nat

VARIABLES
  (* the HMC *)
  scratch,   \* the scratch partition, or None
  slots,     \* the dedicated slot: whose profile lists it, and whether it is unowned
  pools,     \* other names, processors and memory: "same" as in the baseline
  changed,   \* the operations carried out on the scratch partition
  flying,    \* what was sent and is not carried out yet
  (* the run *)
  probe,     \* a dedicated slot was selected
  pc,        \* the step
  cut,       \* the run was interrupted, and only cleans up
  attempted, \* run.create_attempted
  known,     \* run.uuid is set
  created,   \* run.created
  name,      \* run.name, without the suffix
  held,      \* the assertions the cases established
  restored,  \* probe.restored
  deleted,   \* run.deleted
  rows,      \* failed rows about the partition, the profile and the pools
  passed,    \* observations that passed
  verdict,   \* exit status of the recovery check, 9 before it
  (* history *)
  late,      \* a creation was carried out after the run's last look
  harm,      \* a partition was deleted that had not read as the run's own
  stale,     \* someone restamped it after that read
  faults, touches

hmc    == <<scratch, slots, pools, changed, flying>>
facts  == <<attempted, known, created, name, held, restored, deleted>>
past   == <<late, harm, stale>>
vars   == <<hmc, probe, pc, cut, facts, rows, passed, verdict, past, faults, touches>>

None == [token |-> "none", as |-> "none", power |-> "off"]
Fresh == [token |-> "own", as |-> "base", power |-> "off"]
Free == [profile |-> "empty", others |-> "same", unowned |-> TRUE]
Removed == scratch' = None /\ slots' = [slots EXCEPT !.profile = "empty"]
There == scratch # None
Ours == scratch.token = "own"

\* What the cases change but for the name: memory, units, both DLPAR tools, boot order.
Cases == {"modify", "dlpar_mem", "dlpar_proc", "boot_order"}

Fault(c) == (c => faults < MaxFaults) /\ faults' = faults + (IF c THEN 1 ELSE 0)
Answers == [did : BOOLEAN, pass : BOOLEAN]
Answered(x, can) == (x.pass => x.did) /\ (x.did => can) /\ Fault(can /\ ~x.pass)
Flies(x, what) == flying' \in {flying, IF x.did THEN flying ELSE flying \cup {what}}
Shows(r, c) == (r => c) /\ Fault(c /\ ~r)

\* The parts of the state most steps leave alone.
Reading == UNCHANGED <<hmc, probe, cut, attempted, created, held, passed, verdict, past, touches>>
Calling == UNCHANGED <<pools, probe, cut, passed, verdict, late, stale, touches>>
Teardown == pc' = "teardown"

-----------------------------------------------------------------------------
(* Creation.                                                                  *)

\* A step of the answer may have failed: the partition is known, and not created.
Create ==
  /\ pc = "create" /\ Calling /\ attempted' = TRUE
  /\ UNCHANGED <<slots, changed, name, held, restored, deleted, rows, harm>>
  /\ \E x \in Answers, steps \in BOOLEAN :
       /\ (x.pass => x.did) /\ (steps => x.pass) /\ Fault(~steps)
       /\ scratch' = (IF x.did THEN Fresh ELSE scratch) /\ Flies(x, "create")
       /\ known' = x.pass /\ created' = steps
       /\ pc' = IF steps THEN (IF probe THEN "safe" ELSE "change")
                ELSE IF x.pass THEN "teardown" ELSE "adopt"

\* _adopt_by_name: the partition of that name, if it carries the run's token.
Adopt ==
  /\ pc \in {"adopt", "find"} /\ Reading /\ UNCHANGED <<name, restored, deleted, rows>>
  /\ \E r \in BOOLEAN :
       /\ Shows(r, Ours /\ scratch.as = name) /\ known' = r
       /\ pc' = IF pc = "adopt" THEN "teardown" ELSE IF r THEN "off" ELSE "gone"

-----------------------------------------------------------------------------
(* The dedicated slot: assigned to the scratch profile and taken back.        *)

Safe ==
  /\ pc = "safe" /\ Reading /\ UNCHANGED <<known, name, restored, deleted, rows>>
  /\ \E r \in BOOLEAN :
       /\ Shows(r, slots = Free /\ Ours /\ scratch.power = "off")
       /\ pc' = IF r THEN "assign" ELSE "teardown"

Profile(step, what, value, next) ==
  /\ pc = step /\ Calling /\ pc' = next
  /\ UNCHANGED <<scratch, changed, attempted, known, created, name, restored, deleted, rows, harm>>
  /\ \E x \in Answers :
       /\ Answered(x, There)
       /\ slots' = IF x.did THEN [slots EXCEPT !.profile = value] ELSE slots
       /\ Flies(x, what) /\ held' = IF x.pass THEN held \cup {what} ELSE held

\* What the assignment changed is read back, and nothing but it.
ReadBack ==
  /\ pc = "readback" /\ pc' = "restore"
  /\ UNCHANGED <<hmc, probe, cut, attempted, known, created, name, restored, deleted, rows>>
  /\ UNCHANGED <<passed, verdict, past, touches>>
  /\ \E r \in BOOLEAN :
       /\ Fault(~r)
       /\ held' = held \cup (IF r /\ slots.profile = "slot" THEN {"assigned"} ELSE {})
                       \cup (IF r /\ slots.others = "same" THEN {"others"} ELSE {})

\* _dedicated_restore: it takes the slot back only from its own, inactive partition
\* whose profile holds just that slot, while no other profile differs.
Restore ==
  /\ pc = "restore" /\ Reading /\ UNCHANGED <<known, name, restored, deleted>>
  /\ \E r \in BOOLEAN :
       /\ Fault(~r)
       /\ pc' = IF ~r \/ slots.others # "same" THEN "teardown"
                ELSE IF slots.profile = "empty" THEN "unowned"
                ELSE IF slots.profile = "slot" /\ Ours /\ scratch.power = "off" THEN "unassign"
                ELSE "teardown"
       /\ rows' = IF ~r \/ slots.others # "same" THEN rows \cup {"profile"} ELSE rows

\* Without a call to take it back the profiles are not read again.
Restored ==
  /\ pc \in {"confirm", "unowned"} /\ Reading /\ UNCHANGED <<known, name, deleted>>
  /\ \E r \in BOOLEAN :
       /\ Shows(r, slots.unowned /\ (pc = "confirm" => slots = Free))
       /\ restored' = r /\ rows' = IF r THEN rows ELSE rows \cup {"profile"}
       /\ pc' = IF r /\ ~cut THEN "change" ELSE "teardown"

-----------------------------------------------------------------------------
(* The cases.  Each asserts what it read back after a call that passed.       *)

Change ==
  /\ pc = "change" /\ Calling /\ pc' = "rename"
  /\ UNCHANGED <<scratch, slots, attempted, known, created, name, restored, deleted, rows, harm>>
  /\ \E failed \in {{}, Cases} \cup {{c} : c \in Cases}, did \in BOOLEAN :
       /\ (~There => failed = Cases /\ ~did) /\ Fault(There /\ failed # {})
       /\ changed' = changed \cup (IF did THEN Cases ELSE Cases \ failed)
       /\ held' = held \cup (Cases \ failed)
       /\ flying' \in {flying, IF did THEN flying ELSE flying \cup failed}

\* _rename: run.name follows the answer, not the partition.
Rename(step, from, to, next, otherwise) ==
  /\ pc = step /\ Calling
  /\ UNCHANGED <<slots, changed, attempted, known, created, restored, deleted, rows, harm>>
  /\ \E x \in Answers, r \in BOOLEAN :
       /\ (x.pass => x.did) /\ (x.did => There) /\ (r => x.pass /\ Ours)
       /\ Fault((There /\ ~x.pass) \/ (x.pass /\ Ours /\ ~r))
       /\ scratch' = IF x.did THEN [scratch EXCEPT !.as = to] ELSE scratch
       /\ Flies(x, to) /\ name' = IF x.pass THEN to ELSE from
       /\ held' = IF r THEN held \cup {step} ELSE held
       /\ pc' = IF x.pass THEN next ELSE otherwise

PowerOn ==
  /\ pc = "activate" /\ Calling /\ Teardown
  /\ UNCHANGED <<slots, changed, facts, rows, harm>>
  /\ \E x \in Answers :
       /\ Answered(x, There) /\ Flies(x, "on")
       /\ scratch' = IF x.did THEN [scratch EXCEPT !.power = "on"] ELSE scratch

-----------------------------------------------------------------------------
(* Teardown: the finally of exercise_lpar_config.                             *)

Manual == rows' = rows \cup {"partition"}
Ends == pc' = IF cut THEN "end" ELSE "compare"

\* A slot that may still be in its profile keeps the partition.
Begin ==
  /\ pc = "teardown" /\ Reading /\ UNCHANGED <<known, name, restored, deleted, faults>>
  /\ IF attempted /\ probe /\ ~restored THEN Manual /\ Ends
     ELSE /\ UNCHANGED rows
          /\ IF ~attempted THEN Ends ELSE pc' = IF known THEN "off" ELSE "find"

\* A partition that does not read Not Activated is powered off, and must read so then.
PowerOff ==
  /\ pc = "off" /\ Calling /\ UNCHANGED <<slots, changed, facts, harm>>
  /\ \/ /\ scratch.power = "off" /\ There /\ pc' = "token"
        /\ UNCHANGED <<scratch, flying, rows, faults>>
     \/ \E x \in Answers, r \in BOOLEAN :
          /\ (x.pass => x.did) /\ (x.did => There) /\ Fault(There /\ (~x.pass \/ ~r))
          /\ scratch' = IF x.did THEN [scratch EXCEPT !.power = "off"] ELSE scratch
          /\ Flies(x, "off") /\ (r => scratch'.power = "off" /\ There)
          /\ IF r THEN pc' = "token" /\ UNCHANGED rows ELSE Manual /\ Ends

Token ==
  /\ pc = "token" /\ Reading /\ UNCHANGED <<known, name, restored, deleted>>
  /\ \E r \in BOOLEAN :
       /\ Shows(r, Ours)
       /\ IF r THEN pc' = "delete" /\ UNCHANGED rows ELSE Manual /\ Ends

Delete ==
  /\ pc = "delete" /\ Calling /\ UNCHANGED <<changed, facts>>
  /\ \E x \in Answers :
       /\ Answered(x, There) /\ Flies(x, "delete")
       /\ IF x.did THEN Removed ELSE UNCHANGED <<scratch, slots>>
       /\ harm' = (harm \/ (x.did /\ ~Ours /\ ~stale))
       /\ IF x.pass THEN pc' = "gone" /\ UNCHANGED rows ELSE Manual /\ Ends

\* _gone lists the names of the run, renamed or not.
Gone ==
  /\ pc = "gone" /\ Reading /\ UNCHANGED <<known, name, restored>> /\ Ends
  /\ \E r \in BOOLEAN :
       /\ Shows(r, ~There) /\ deleted' = r
       /\ IF r THEN UNCHANGED rows ELSE Manual

\* The operations whose assertions all hold.
Passed ==
  (held \cap Cases)
    \cup (IF {"rename", "back"} \subseteq held THEN {"rename"} ELSE {})
    \cup (IF probe /\ {"assign", "assigned", "others", "unassign"} \subseteq held
          THEN {"dedicated"} ELSE {})

\* _compare and _dedicated_compare, and the observations they decide.
Compare ==
  /\ pc = "compare" /\ pc' = "end"
  /\ UNCHANGED <<hmc, probe, cut, facts, verdict, past, touches>>
  /\ \E r \in BOOLEAN :
       LET same == ~There /\ pools = "same" /\ (probe => slots = Free) IN
       /\ Shows(r, same) /\ rows' = IF r THEN rows ELSE rows \cup {"baseline"}
       /\ passed' = IF ~created \/ ~deleted \/ ~r THEN {} ELSE Passed

-----------------------------------------------------------------------------
(* Interrupts and kills, and live_test_recovery.py.                           *)

\* The finally blocks run: the slot's, then the partition's.  The create may be on its way.
Interrupt ==
  /\ pc \in {"create", "adopt", "safe", "assign", "readback", "restore", "unassign", "confirm",
             "unowned", "change", "rename", "back", "activate"}
  /\ ~cut /\ Fault(TRUE) /\ cut' = TRUE
  /\ pc' = IF pc \in {"assign", "readback"} THEN "restore" ELSE "teardown"
  /\ IF pc = "create" THEN attempted' = TRUE /\ flying' = flying \cup {"create"}
     ELSE UNCHANGED <<attempted, flying>>
  /\ UNCHANGED <<scratch, slots, pools, changed, probe, known, created, name, held, restored>>
  /\ UNCHANGED <<deleted, rows, passed, verdict, past, touches>>

Kill ==
  /\ pc \notin {"end", "killed"} /\ Fault(TRUE) /\ pc' = "killed"
  /\ UNCHANGED <<hmc, probe, cut, facts, rows, passed, verdict, past, touches>>

\* check_lpar_config: partitions by their prefix.  Without the whole document it is 2.
Recover ==
  /\ pc \in {"end", "killed"} /\ verdict = 9
  /\ \E r \in BOOLEAN :
       verdict' = IF ~r \/ cut \/ pc = "killed" THEN 2 ELSE IF There THEN 1 ELSE 0
  /\ UNCHANGED <<hmc, probe, pc, cut, facts, rows, passed, past, faults, touches>>

-----------------------------------------------------------------------------
(* The HMC and its other users.                                               *)

Land(x) ==
  /\ verdict = 9 /\ flying' = flying \ {x}
  /\ IF x = "delete" THEN Removed ELSE
     /\ scratch' = CASE x = "create" /\ ~There -> Fresh
                     [] x \in {"base", "rn"} /\ There -> [scratch EXCEPT !.as = x]
                     [] x \in {"on", "off"} /\ There -> [scratch EXCEPT !.power = x]
                     [] OTHER -> scratch
     /\ slots' = CASE x = "assign" /\ There -> [slots EXCEPT !.profile = "slot"]
                   [] x = "unassign" -> [slots EXCEPT !.profile = "empty"]
                   [] OTHER -> slots
  /\ changed' = IF x \in Cases /\ There THEN changed \cup {x} ELSE changed
  /\ late' = (late \/ (x = "create" /\ pc = "end"))
  /\ UNCHANGED <<pools, probe, pc, cut, facts, rows, passed, verdict, harm, stale, faults, touches>>

Touch ==
  /\ verdict = 9 /\ touches < MaxTouches /\ touches' = touches + 1
  /\ \/ There /\ Removed /\ UNCHANGED <<pools, stale>>
     \/ There /\ scratch' = [scratch EXCEPT !.token = "other"] /\ stale' = (stale \/ pc = "delete")
        /\ UNCHANGED <<slots, pools>>
     \/ slots' \in {[slots EXCEPT !.others = "differ"], [slots EXCEPT !.unowned = FALSE]}
        /\ UNCHANGED <<scratch, pools, stale>>
     \/ pools' = "differ" /\ UNCHANGED <<scratch, slots, stale>>
  /\ UNCHANGED <<changed, flying, probe, pc, cut, facts, rows, passed, verdict, late, harm, faults>>

Init ==
  /\ scratch = None /\ slots = Free /\ pools = "same" /\ changed = {} /\ flying = {}
  /\ probe \in BOOLEAN /\ pc = "create" /\ cut = FALSE
  /\ attempted = FALSE /\ known = FALSE /\ created = FALSE /\ name = "base" /\ held = {}
  /\ restored = FALSE /\ deleted = FALSE /\ rows = {} /\ passed = {} /\ verdict = 9
  /\ late = FALSE /\ harm = FALSE /\ stale = FALSE /\ faults = 0 /\ touches = 0

Next ==
  \/ Create \/ Adopt
  \/ Safe \/ Profile("assign", "assign", "slot", "readback") \/ ReadBack \/ Restore
  \/ Profile("unassign", "unassign", "empty", "confirm") \/ Restored
  \/ Change \/ Rename("rename", "base", "rn", "back", "activate")
  \/ Rename("back", "rn", "base", "activate", "activate") \/ PowerOn
  \/ Begin \/ PowerOff \/ Token \/ Delete \/ Gone \/ Compare
  \/ Interrupt \/ Kill \/ Recover \/ Touch
  \/ \E x \in flying : Land(x)

Spec == Init /\ [][Next]_vars

-----------------------------------------------------------------------------
(* Properties.                                                                *)

ConfigLiveTypeOK ==
  /\ scratch \in [token : {"own", "other", "none"}, as : {"base", "rn", "none"}, power : {"on", "off"}]
  /\ slots \in [profile : {"empty", "slot"}, others : {"same", "differ"}, unowned : BOOLEAN]
  /\ changed \subseteq Cases /\ rows \subseteq {"partition", "profile", "baseline"}
  /\ passed \subseteq Cases \cup {"rename", "dedicated"} /\ verdict \in {0, 1, 2, 9}

\* A run that came to its end, or was interrupted, tells of the partition it leaves, unless
\* that was made after its last look, and of a slot its profile keeps.
ConfigLeftTold ==
  pc = "end" =>
    /\ There => rows # {} \/ late
    /\ slots.profile = "slot" => rows # {}

\* What an observation calls passed was carried out and is gone, and a recovery check that
\* exits 0 finds no partition left.
ConfigClean ==
  /\ passed # {} => (passed \cap Cases) \subseteq changed /\ (There => late)
  /\ verdict = 0 => ~There

\* The arm deletes no partition that did not read as its own, and none by its name.
ConfigOwnRemoved == ~harm
=============================================================================
