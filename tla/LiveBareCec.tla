----------------------------- MODULE LiveBareCec -----------------------------
(* The bare-CEC arm of the live tests (subtask 25,                            *)
(* scripts/live_test/bare_cec.py) with the fixture create and the guarded     *)
(* cleanup it shares with the dedicated arm (pcie.py).  The arm creates a     *)
(* partition, gives its profile a slot, activates and powers it off in        *)
(* several ways, and takes slot and partition away again, each only while the *)
(* partition reads back as its own.  A power job may outlive the wait for it, *)
(* and whatever was sent may be carried out after its call failed.            *)
EXTENDS Naturals

CONSTANTS
  MaxFaults,    \* bound: calls that fail, or take effect without a good answer, and stops
  MaxTouches    \* bound: changes other users make

BareLiveAssumption == {MaxFaults, MaxTouches} \subseteq Nat

VARIABLES
  (* the HMC *)
  box,       \* the fixture partition: its stamp, its power and the slots of its profile
  flying,    \* what was sent and is not carried out yet
  (* the run *)
  dump,      \* the operator accepts a platform dump
  pc,        \* the step
  cut,       \* the run was interrupted, and only cleans up
  made,      \* fixture.created
  ready,     \* run.create_ok
  applied,   \* fixture.applied_io_slots: what the profile listed, {} for None
  listed,    \* the slots the teardown read in the profile
  assigned,  \* run.assign_holds: "none", or whether both its assertions hold
  rows,      \* a MANUAL RECOVERY row names the partition
  clean,     \* the cleanup disposition of what the run made
  (* history *)
  late,      \* the partition was made after the run had looked for it
  moved,     \* what changed since the run last read it: who, power, slots
  harm,      \* what the run did to a partition that had not read as it should
  faults, touches

hmc   == <<box, flying>>
facts == <<made, ready, applied, listed, assigned>>
told  == <<rows, clean>>
past  == <<late, moved, harm>>
vars  == <<hmc, dump, pc, cut, facts, told, past, faults, touches>>

None == [stamp |-> "none", power |-> "off", slots |-> {}]
There == box.stamp # "none"
Ours == box.stamp = "own"
Off == box.power = "off"

Fault(c) == (c => faults < MaxFaults) /\ faults' = faults + (IF c THEN 1 ELSE 0)
Shows(r, c) == (r => c) /\ Fault(c /\ ~r)
Answers == [did : BOOLEAN, pass : BOOLEAN]
Answered(x) == (x.pass => x.did) /\ (x.did => There) /\ Fault(There /\ ~x.pass)
Flies(x, what) == flying' \in {flying, IF x.did THEN flying ELSE flying \cup {what}}
Fresh(what) == moved' = moved \ what /\ UNCHANGED <<late, harm>>

Reading == UNCHANGED <<hmc, dump, cut, touches>>
Calling == UNCHANGED <<dump, cut, clean, late, touches>>
Hitting == UNCHANGED <<dump, cut, touches>>
Manual == rows' = TRUE
\* The run's next step, or its teardown.
Goes(ok, next) == pc' = IF ok THEN next ELSE "teardown"

-----------------------------------------------------------------------------
(* create_fixture_partition, and the assignment.                              *)

\* The stamp may not have landed with the partition.
Create ==
  /\ pc = "create" /\ Calling /\ UNCHANGED <<ready, applied, listed, assigned, rows, moved, harm>>
  /\ \E x \in Answers, stamp \in {"own", "blank"} :
       /\ (x.pass => x.did) /\ Fault(~x.pass \/ stamp = "blank")
       /\ box' = (IF x.did THEN [None EXCEPT !.stamp = stamp] ELSE box) /\ Flies(x, "create")
       /\ made' = x.pass /\ pc' = IF x.pass THEN "confirm" ELSE "look"

\* _created_despite_failure: a partition that carries the run's marker is handed to the
\* cleanup, one that is not confirmed absent is told of, and another's is taken for absence.
Look ==
  /\ pc = "look" /\ Reading /\ Fresh({}) /\ UNCHANGED <<ready, applied, listed, assigned, clean>>
  /\ pc' = "teardown"
  /\ \/ box.stamp \in {"none", "other"} /\ UNCHANGED <<made, rows, faults>>
     \/ box.stamp = "blank" /\ Manual /\ UNCHANGED <<made, faults>>
     \/ Ours /\ made' = TRUE /\ Manual /\ UNCHANGED faults
     \/ Fault(TRUE) /\ Manual /\ UNCHANGED made

\* Stamp, UUID and baseline must read, then the one profile it is activated with.
Confirm ==
  /\ pc \in {"confirm", "profile"} /\ Reading /\ Fresh({})
  /\ UNCHANGED <<made, applied, listed, assigned, told>>
  /\ \E r \in BOOLEAN :
       /\ Shows(r, Ours) /\ Goes(r, IF pc = "confirm" THEN "profile" ELSE "assign")
       /\ ready' = IF pc = "confirm" THEN r ELSE ready

Assign ==
  /\ pc = "assign" /\ Calling /\ pc' = "readback"
  /\ UNCHANGED <<made, ready, applied, listed, rows, moved, harm>>
  /\ \E x \in Answers :
       /\ Answered(x) /\ Flies(x, "assign") /\ assigned' = IF x.pass THEN "passed" ELSE "failed"
       /\ box' = IF x.did THEN [box EXCEPT !.slots = @ \cup {"ours"}] ELSE box

\* The slot is read back whatever the call reported.
ReadBack ==
  /\ pc = "readback" /\ Reading /\ Fresh({}) /\ UNCHANGED <<made, ready, listed, told>>
  /\ \E r \in BOOLEAN :
       /\ Shows(r, "ours" \in box.slots) /\ applied' = (IF r THEN box.slots ELSE {})
       /\ Goes(r /\ assigned = "passed", "bare")
       /\ assigned' = IF r THEN assigned ELSE "failed"

-----------------------------------------------------------------------------
(* Power.  A wait that passes carries a job that ended; one that fails may     *)
(* leave its job running.                                                      *)

Powers(x, to) ==
  /\ Flies(x, to) /\ box' = IF x.did THEN [box EXCEPT !.power = to] ELSE box

\* The step goes on when its call passed and the partition then read in that state.
Power(step, to, next) ==
  /\ pc = step /\ Calling /\ UNCHANGED <<facts, rows, moved, harm>>
  /\ \E x \in Answers, r \in BOOLEAN :
       /\ (x.pass => x.did) /\ (x.did => There) /\ Powers(x, to)
       /\ (r => x.pass) /\ Fault(There /\ ~r) /\ Goes(r, next)

\* A PowerOn without a profile, and an osshutdown without an operating system, may be
\* refused, and both may be carried out; what the partition reads then decides.  The
\* first one is undone, and neither goes on over a job that outlives its wait.
Refused(step, to, wanted, undo, next) ==
  /\ pc = step /\ Calling /\ UNCHANGED <<facts, rows, moved, harm>>
  /\ \E did, timed, r \in BOOLEAN :
       /\ (did => There) /\ Fault(timed \/ (There /\ ~r))
       /\ box' = IF did THEN [box EXCEPT !.power = to] ELSE box
       /\ flying' \in {flying, IF timed /\ ~did THEN flying \cup {to} ELSE flying}
       /\ (r => There /\ ~timed)
       /\ pc' = IF ~r THEN "teardown" ELSE IF box'.power = wanted THEN next ELSE undo

Steps ==
  \/ Refused("bare", "on", "off", "unbare", "activate") \/ Power("unbare", "off", "activate")
  \/ Power("activate", "on", "off") \/ Power("off", "off", "again")
  \/ Power("again", "on", "restart") \/ Power("restart", "on", "osshutdown")
  \/ Refused("osshutdown", "off", "on", "teardown", "dump")
  \/ IF dump THEN Power("dump", "on", "teardown")
     ELSE pc = "dump" /\ pc' = "teardown"
          /\ UNCHANGED <<hmc, dump, cut, facts, told, past, faults, touches>>

-----------------------------------------------------------------------------
(* _teardown_fixture.  Each call to the partition counts what it hits.        *)

Hits(x, what) ==
  harm' = harm \cup (IF x.did THEN {w \in what \ moved :
                       \/ w = "who" /\ ~Ours
                       \/ w = "power" /\ ~Off
                       \/ w = "slots" /\ box.slots # {}} ELSE {})

Ends(disposition) == pc' = "end" /\ clean' = disposition

Begin ==
  /\ pc = "teardown" /\ Reading /\ UNCHANGED <<facts, rows, past, faults>>
  /\ IF ~made THEN Ends("none")
     ELSE pc' = (IF ready THEN "identity" ELSE "guard_a") /\ UNCHANGED clean

\* The identity is read twice before a mismatch is believed; the profile is read with it,
\* and counts as read only when it could be.
Identity ==
  /\ pc = "identity" /\ Reading /\ Fresh({"who", "slots"})
  /\ UNCHANGED <<made, ready, applied, assigned>>
  /\ \E r, slots \in BOOLEAN :
       /\ (r => Ours) /\ Fault(Ours /\ ~(r /\ slots))
       /\ listed' = IF slots THEN box.slots ELSE {"unread"}
       /\ IF r THEN pc' = "state" /\ UNCHANGED told ELSE Manual /\ Ends("failed")

\* A partition that does not read Not Activated is powered off, and must read so then; its
\* profile is read again.
PowerOff ==
  /\ pc = "state" /\ Hitting /\ UNCHANGED <<made, ready, applied, assigned, late>>
  /\ \/ Off /\ There /\ pc' = "slots" /\ moved' = moved \ {"power"}
        /\ UNCHANGED <<hmc, listed, told, harm, faults>>
     \/ \E x \in Answers, r, slots \in BOOLEAN :
          /\ (x.pass => x.did) /\ (x.did => There) /\ Fault(There /\ ~(x.pass /\ r /\ slots))
          /\ Powers(x, "off") /\ Hits(x, {"who"}) /\ (r => box'.power = "off" /\ There)
          /\ listed' = IF slots THEN box.slots ELSE {"unread"}
          /\ moved' = IF r THEN moved \ {"power", "slots"} ELSE moved
          /\ IF r THEN pc' = "slots" /\ UNCHANGED told ELSE Manual /\ Ends("failed")

\* The profile is at its baseline, or lists just what the run applied, or is left to the
\* guards.
Slots ==
  /\ pc = "slots" /\ Reading /\ UNCHANGED <<facts, told, past, faults>>
  /\ pc' = CASE listed = {} -> "delete"
             [] listed = applied /\ listed # {} -> "unassign"
             [] OTHER -> "guard_a"

Unassign(step, next, otherwise) ==
  /\ pc = step /\ Hitting /\ UNCHANGED <<facts, late>>
  /\ \E x \in Answers, r \in BOOLEAN :
       /\ (x.pass => x.did) /\ (x.did => There) /\ Hits(x, {"who", "power"})
       /\ box' = IF x.did THEN [box EXCEPT !.slots = @ \ {"ours"}] ELSE box
       /\ Flies(x, "unassign") /\ (r => box'.slots = {} /\ There)
       /\ (step = "guard_b" => (r => x.pass))
       /\ Fault(There /\ (~x.pass \/ (box'.slots = {} /\ ~r)))
       /\ moved' = moved \ {"slots"}
       /\ IF r THEN pc' = next /\ UNCHANGED told
          ELSE IF otherwise = "end" THEN Manual /\ Ends("failed")
          ELSE pc' = otherwise /\ UNCHANGED told

\* Mutant of LastLook (BareOwnRemoved): the last look is at the profile only.
LastLookProfile(step, next, otherwise) ==
  /\ pc = step /\ Reading /\ Fresh({"who", "slots"}) /\ UNCHANGED facts
  /\ \E r \in BOOLEAN :
       /\ Shows(r, ready => box.slots = {})
       /\ IF r THEN pc' = next /\ UNCHANGED told
          ELSE IF otherwise = "end" THEN Manual /\ Ends("failed")
          ELSE pc' = otherwise /\ UNCHANGED told

\* _delete: a last look at the identity and the profile, the delete, and the absence of the
\* name; then the slot must be unowned and in no profile.
LastLook(step, next, otherwise) ==
  /\ pc = step /\ Reading /\ Fresh({"who", "slots"}) /\ UNCHANGED facts
  /\ \E r \in BOOLEAN :
       /\ Shows(r, Ours /\ (ready => box.slots = {}))
       /\ IF r THEN pc' = next /\ UNCHANGED told
          ELSE IF otherwise = "end" THEN Manual /\ Ends("failed")
          ELSE pc' = otherwise /\ UNCHANGED told

Delete ==
  /\ pc = "remove" /\ Hitting /\ UNCHANGED <<ready, applied, listed, assigned, late, moved>>
  /\ \E x \in Answers, absent, released \in BOOLEAN :
       /\ (x.pass => x.did) /\ (x.did => There /\ Off) /\ Hits(x, {"who", "power", "slots"})
       /\ Flies(x, "delete") /\ box' = IF x.did THEN None ELSE box
       /\ (absent => box' = None) /\ (released => absent)
       /\ Fault(There /\ Off /\ ~(x.pass /\ released))
       /\ made' = ~absent
       /\ IF absent THEN Ends(IF x.pass /\ released THEN "passed" ELSE "failed") /\ UNCHANGED rows
          ELSE pc' = "guard_a" /\ UNCHANGED told

\* cleanup_dedicated: its guards decide again on what they read.  Without a baseline,
\* which only a confirmed create has read, they do not look at the profile.
GuardA ==
  /\ pc = "guard_a" /\ Reading /\ Fresh({"who", "slots"}) /\ UNCHANGED facts
  /\ \E r \in BOOLEAN :
       /\ Shows(r, Ours)
       /\ IF r /\ (~ready \/ box.slots = {}) THEN pc' = "guard_c" /\ UNCHANGED told
          ELSE IF r /\ applied = box.slots THEN pc' = "guard_b" /\ UNCHANGED told
          ELSE Manual /\ Ends("failed")

DeleteGuarded ==
  /\ pc = "guard_d" /\ Hitting /\ UNCHANGED <<facts, late, moved>>
  /\ \E x \in Answers :
       /\ (x.pass => x.did) /\ (x.did => There /\ Off) /\ Hits(x, {"who", "slots"})
       /\ Flies(x, "delete") /\ box' = IF x.did THEN None ELSE box
       /\ Fault(There /\ Off /\ ~x.pass)
       /\ Ends("failed") /\ rows' = (rows \/ ~x.pass)

-----------------------------------------------------------------------------
(* Interrupts, and the HMC and its other users.                               *)

Interrupt ==
  /\ pc \in {"create", "look", "confirm", "profile", "assign", "readback", "bare", "unbare",
             "activate", "off", "again", "restart", "osshutdown", "dump"}
  /\ Fault(TRUE) /\ cut' = TRUE /\ pc' = "teardown"
  /\ flying' = IF pc = "create" THEN flying \cup {"create"} ELSE flying
  /\ UNCHANGED <<box, dump, facts, told, past, touches>>

Land(x) ==
  /\ flying' = flying \ {x}
  /\ box' = CASE x = "create" /\ ~There -> [None EXCEPT !.stamp = "own"]
              [] x = "delete" /\ Off -> None
              [] x \in {"on", "off"} /\ There -> [box EXCEPT !.power = x]
              [] x = "assign" /\ There -> [box EXCEPT !.slots = @ \cup {"ours"}]
              [] x = "unassign" /\ There -> [box EXCEPT !.slots = @ \ {"ours"}]
              [] OTHER -> box
  /\ late' = (late \/ (x = "create" /\ pc \notin {"create", "look"}))
  /\ moved' = moved \cup (IF x \in {"on", "off"} THEN {"power"} ELSE {"slots"})
  /\ UNCHANGED <<dump, pc, cut, facts, told, harm, faults, touches>>

\* Others remove the partition, take it over, power it or give it a slot.
Touch ==
  /\ pc # "end" /\ There /\ touches < MaxTouches /\ touches' = touches + 1
  /\ \/ box' = None /\ moved' = moved \cup {"who", "slots"}
     \/ box' = [box EXCEPT !.stamp = "other"] /\ moved' = moved \cup {"who"}
     \/ box' = [box EXCEPT !.power = IF Off THEN "on" ELSE "off"] /\ moved' = moved \cup {"power"}
     \/ box' = [box EXCEPT !.slots = @ \cup {"theirs"}] /\ moved' = moved \cup {"slots"}
  /\ UNCHANGED <<flying, dump, pc, cut, facts, told, late, harm, faults>>

Init ==
  /\ box = None /\ flying = {} /\ dump \in BOOLEAN /\ pc = "create" /\ cut = FALSE
  /\ made = FALSE /\ ready = FALSE /\ applied = {} /\ listed = {} /\ assigned = "none"
  /\ rows = FALSE /\ clean = "none" /\ late = FALSE /\ moved = {} /\ harm = {}
  /\ faults = 0 /\ touches = 0

Next ==
  \/ Create \/ Look \/ Confirm \/ Assign \/ ReadBack \/ Steps
  \/ Begin \/ Identity \/ PowerOff \/ Slots \/ Unassign("unassign", "delete", "guard_a")
  \/ LastLook("delete", "remove", "guard_a") \/ Delete
  \/ GuardA \/ Unassign("guard_b", "guard_c", "end") \/ LastLook("guard_c", "guard_d", "end")
  \/ DeleteGuarded
  \/ Interrupt \/ Touch \/ \E x \in flying : Land(x)

Spec == Init /\ [][Next]_vars

-----------------------------------------------------------------------------
(* Properties.                                                                *)

BareLiveTypeOK ==
  /\ box \in [stamp : {"own", "blank", "other", "none"}, power : {"on", "off"},
             slots : SUBSET {"ours", "theirs"}]
  /\ made \in BOOLEAN /\ ready \in BOOLEAN /\ rows \in BOOLEAN
  /\ assigned \in {"none", "passed", "failed"} /\ clean \in {"none", "passed", "failed"}
  /\ applied \subseteq {"ours", "theirs"} /\ listed \subseteq {"ours", "theirs", "unread"}
  /\ moved \cup harm \subseteq {"who", "power", "slots"}

\* A run that came to its end tells of the partition it leaves, unless that was made after
\* the run had looked for it, or had been taken over by then.
BareLeftTold == pc = "end" /\ box.stamp \in {"own", "blank"} /\ ~cut => rows \/ late

\* A cleanup called passed is one: the partition is gone.
BareClean == clean = "passed" => ~There \/ late

\* The run powers off, empties and deletes only what it has read to be its own, takes the
\* slot only from what has read as Not Activated, and deletes only what has read as bare;
\* what changes after that read is beyond it, and a profile without a baseline is not read.
BareOwnRemoved == harm \subseteq IF ready THEN {} ELSE {"slots"}
=============================================================================
