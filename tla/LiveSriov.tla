------------------------------ MODULE LiveSriov ------------------------------
(* The SR-IOV arm of the live tests (subtask 23, scripts/live_test/pcie.py): a  *)
(* logical port is given to a partition the run did not make, taken out of its  *)
(* profile, given again, and at the end taken away.  A call is answered PASS or *)
(* FAIL whatever it did, a refused assignment may still be carried out later,   *)
(* and other users of the HMC change the port and the profile meanwhile.  The   *)
(* partition is not activated; the steps inside one operation are PcieChange.   *)
EXTENDS Naturals

CONSTANTS
  MaxFaults,    \* bound: calls that fail, or take effect without a good answer
  MaxTouches,   \* bound: changes other users make
  MaxStops      \* bound: interrupts

SriovLiveAssumption == {MaxFaults, MaxTouches, MaxStops} \subseteq Nat

VARIABLES
  (* the HMC *)
  port,      \* the partition that has the port: "lp3", another one, or none
  profile,   \* the ports lp3's profile lists: the one under test, and others
  flying,    \* an assignment was sent and is not carried out yet
  (* the run *)
  pc,
  pass,      \* the assignment went well
  evidence,  \* _SriovEvidence: an assignment that changed something was read back
  read,      \* the final inventory showed the port unconfigured
  told,      \* subtask 28 has a FAIL row
  judged,    \* cleanup disposition of the recorded assignments
  (* history *)
  mine,      \* the run gave lp3 the port it has
  moved,     \* the port, or the profile, changed after the run last read it
  stolen,    \* the run took away a port it had not given and had seen to be lp3's
  faults, touches, stops

hmc    == <<port, profile, flying>>
past   == <<mine, moved, stolen>>
counts == <<faults, touches, stops>>
vars   == <<hmc, pc, pass, evidence, read, told, judged, past, counts>>

Owners   == {"none", "lp3", "other"}
Profiles == SUBSET {"ours", "theirs"}
Failed   == "unread"

Baseline == {"prerequisites", "port", "profile"}
Scenario == {"assign", "verify", "unassign", "unassigned", "reassign", "reassigned"}
Cleanup  == {"pre", "clear", "remove", "final_port", "final_profile"}

At(step) == pc = step
Faulty(c) == faults' = faults + (IF c THEN 1 ELSE 0) /\ (c => faults < MaxFaults)

\* _read_sriov_state, one read of it at a time.
ReadsPort(r) ==
  /\ r \in {port, Failed} /\ Faulty(r = Failed) /\ moved' = moved \ {"port"}
  /\ UNCHANGED <<hmc, mine, stolen, touches>>
ReadsProfile(r) ==
  /\ r \in {profile, {Failed}} /\ Faulty(r = {Failed}) /\ moved' = moved \ {"profile"}
  /\ UNCHANGED <<hmc, mine, stolen, touches>>

\* An interrupt in the scenario leads to the cleanup, one in the cleanup to its end;
\* the recorded assignments are then not called undone.
Goes(next) ==
  \/ pc' = next /\ UNCHANGED <<judged, stops>>
  \/ /\ stops < MaxStops /\ stops' = stops + 1
     /\ pc' = IF pc \in Scenario THEN "pre" ELSE "stopped"
     /\ judged' = IF pc \in Cleanup /\ evidence THEN "failed" ELSE judged

\* Mutant: an assignment that found the port in place is recorded too.
EndsAlways(restored) == pc' = "done" /\ judged' = (IF restored THEN "passed" ELSE "failed") /\ UNCHANGED stops

\* _record_sriov_assignments, once the cleanup has decided.
Ends(restored) ==
  /\ pc' = "done" /\ judged' = IF ~evidence THEN "none" ELSE IF restored THEN "passed" ELSE "failed"
  /\ UNCHANGED stops

-----------------------------------------------------------------------------
(* ST23: the baseline.  Whatever fails, the cleanup follows.                   *)

Prerequisites ==
  /\ At("prerequisites") /\ UNCHANGED <<hmc, pass, evidence, read, told, past, faults, touches>>
  /\ Goes("port") \/ Goes("pre")

LogicalPortClean ==
  /\ At("port") /\ UNCHANGED <<pass, evidence, read, told>>
  /\ \E r \in Owners \cup {Failed} : ReadsPort(r) /\ Goes(IF r = "none" THEN "profile" ELSE "pre")

\* A profile that lists the port, or cannot be read, is clean enough.
ProfileClean ==
  /\ At("profile") /\ UNCHANGED <<pass, evidence, read, told>>
  /\ \E r \in Profiles \cup {{Failed}} :
       ReadsProfile(r) /\ Goes(IF r = {"theirs"} THEN "pre" ELSE "assign")

-----------------------------------------------------------------------------
(* ST24 to ST27: assign, verify, unassign, reassign.                           *)

\* hmc_assign_sriov_logical_port: lp3's own port is left as it is, another's is
\* refused, and a command that failed may still be on its way.
Assigns(ok, changed) ==
  /\ UNCHANGED <<profile, moved, stolen, touches>>
  /\ \/ ok /\ ~changed /\ port = "lp3" /\ UNCHANGED <<port, flying, mine, faults>>
     \/ ok /\ changed /\ port = "none" /\ port' = "lp3" /\ mine' = TRUE /\ UNCHANGED <<flying, faults>>
     \/ ~ok /\ ~changed /\ Faulty(port # "other")
        /\ \/ UNCHANGED <<port, flying, mine>>
           \/ port = "none" /\ port' = "lp3" /\ mine' = TRUE /\ UNCHANGED flying
           \/ port = "none" /\ flying' = TRUE /\ UNCHANGED <<port, mine>>

\* Whether the assignment went well, and whether it was one: a call that found the
\* port in place backs no observation.
Assign ==
  /\ At("assign") /\ UNCHANGED <<read, told>>
  /\ \E ok, changed \in BOOLEAN :
       Assigns(ok, changed) /\ pass' = ok /\ evidence' = changed /\ Goes("verify")

VerifyAssigned ==
  /\ At("verify") /\ UNCHANGED <<pass, evidence, read, told>>
  /\ \E r \in Owners \cup {Failed} :
       ReadsPort(r) /\ Goes(IF pass /\ r = "lp3" THEN "unassign" ELSE "pre")

\* hmc_unassign_sriov_logical_port empties a profile that lists the port alone; the
\* partition keeps the port.
Unassigns(ok) ==
  /\ UNCHANGED <<port, flying, past, touches>>
  /\ \/ ok /\ profile \in {{}, {"ours"}} /\ profile' = {} /\ UNCHANGED faults
     \/ ~ok /\ Faulty(profile \in {{}, {"ours"}})
        /\ (UNCHANGED profile \/ (profile = {"ours"} /\ profile' = {}))

Unassign ==
  /\ At("unassign") /\ UNCHANGED <<pass, evidence, read, told>>
  /\ \E ok \in BOOLEAN : Unassigns(ok) /\ Goes(IF ok THEN "unassigned" ELSE "pre")

Unassigned ==
  /\ At("unassigned") /\ UNCHANGED <<pass, evidence, read, told>>
  /\ \E r \in Profiles \cup {{Failed}} :
       ReadsProfile(r) /\ Goes(IF r \in {{}, {Failed}} THEN "reassign" ELSE "pre")

Reassign ==
  /\ At("reassign") /\ UNCHANGED <<pass, read, told>>
  /\ \E ok, changed \in BOOLEAN :
       Assigns(ok, changed) /\ evidence' = (evidence \/ changed) /\ Goes(IF ok THEN "reassigned" ELSE "pre")

Reassigned ==
  /\ At("reassigned") /\ UNCHANGED <<pass, evidence, read, told>>
  /\ \E r \in Owners \cup {Failed} : ReadsPort(r) /\ Goes("pre")

-----------------------------------------------------------------------------
(* ST28: cleanup_sriov.                                                        *)

\* Another partition's port stays; one that is not listed needs no removal.
PreCleanup ==
  /\ At("pre") /\ UNCHANGED <<pass, evidence, read>>
  /\ \E r \in Owners \cup {Failed} :
       /\ ReadsPort(r)
       /\ \/ r \in {"none", Failed} /\ Goes("final_port") /\ UNCHANGED told
          \/ r = "lp3" /\ Goes("clear") /\ UNCHANGED told
          \/ r = "other" /\ Ends(FALSE) /\ told' = TRUE

Clear ==
  /\ At("clear") /\ UNCHANGED <<pass, evidence, read>>
  /\ \E ok \in BOOLEAN :
       /\ Unassigns(ok) /\ told' = (told \/ ~ok)
       /\ IF ok THEN Goes("remove") ELSE Ends(FALSE)

\* chhwres -o r -p lp3: whatever gave lp3 the port.
Remove ==
  /\ At("remove") /\ UNCHANGED <<profile, flying, moved, pass, evidence, read, touches>>
  /\ \E did, ok \in BOOLEAN :
       /\ (ok => did) /\ (did => port = "lp3") /\ Faulty(~ok /\ port = "lp3")
       /\ IF did THEN /\ port' = "none" /\ mine' = FALSE
                      /\ stolen' = (stolen \/ (~mine /\ "port" \notin moved))
          ELSE UNCHANGED <<port, mine, stolen>>
       /\ told' = (told \/ ~ok)
       /\ IF ok THEN Goes("final_port") ELSE Ends(FALSE)

\* _verify_cleanup_inventory: a list that cannot be read is a FAIL row of its own, a
\* profile that cannot be read is none.
FinalPort ==
  /\ At("final_port") /\ UNCHANGED <<pass, evidence>>
  /\ \E r \in Owners \cup {Failed} :
       /\ ReadsPort(r) /\ read' = (r = "none") /\ told' = (told \/ r # "none") /\ Goes("final_profile")

FinalProfile ==
  /\ At("final_profile") /\ UNCHANGED <<pass, evidence, read>>
  /\ \E r \in Profiles \cup {{Failed}} :
       /\ ReadsProfile(r) /\ told' = (told \/ r \notin {{}, {Failed}}) /\ Ends(read /\ r = {})

-----------------------------------------------------------------------------
Land ==
  /\ flying /\ flying' = FALSE /\ moved' = moved \cup {"port"}
  /\ IF port = "none" THEN port' = "lp3" /\ mine' = TRUE ELSE UNCHANGED <<port, mine>>
  /\ UNCHANGED <<profile, pc, pass, evidence, read, told, judged, stolen, counts>>

\* Another user gives the port away, takes it back, or edits lp3's profile.
Touch ==
  /\ touches < MaxTouches /\ touches' = touches + 1
  /\ \/ /\ \E o \in Owners : port' = o
        /\ mine' = FALSE /\ moved' = moved \cup {"port"} /\ UNCHANGED profile
     \/ /\ \E p \in Profiles : profile' = p
        /\ moved' = moved \cup {"profile"} /\ UNCHANGED <<port, mine>>
  /\ UNCHANGED <<flying, pc, pass, evidence, read, told, judged, stolen, faults, stops>>

Init ==
  /\ port \in Owners /\ profile \in Profiles /\ flying = FALSE /\ pc = "prerequisites"
  /\ pass = FALSE /\ evidence = FALSE /\ read = FALSE /\ told = FALSE /\ judged = "none"
  /\ mine = FALSE /\ moved = {} /\ stolen = FALSE /\ faults = 0 /\ touches = 0 /\ stops = 0

Next ==
  \/ Prerequisites \/ LogicalPortClean \/ ProfileClean
  \/ Assign \/ VerifyAssigned \/ Unassign \/ Unassigned \/ Reassign \/ Reassigned
  \/ PreCleanup \/ Clear \/ Remove \/ FinalPort \/ FinalProfile
  \/ Land \/ Touch

Spec == Init /\ [][Next]_vars

-----------------------------------------------------------------------------
(* Properties.                                                                 *)

SriovLiveTypeOK ==
  /\ port \in Owners /\ profile \in Profiles /\ judged \in {"none", "passed", "failed"}
  /\ pc \in Baseline \cup Scenario \cup Cleanup \cup {"done", "stopped"} /\ moved \subseteq {"port", "profile"}
  /\ {flying, pass, evidence, read, told, mine, stolen} \subseteq BOOLEAN
  /\ judged # "none" => evidence

\* Assignments are called undone only when the run has read that the port is free and
\* the profile empty, and a run that ends by itself leaves lp3 the port it gave it only
\* with a FAIL row in its cleanup; changes after its last reads aside.
PortTold ==
  /\ judged = "passed" => /\ port = "none" \/ "port" \in moved
                          /\ profile = {} \/ "profile" \in moved
  /\ pc = "done" /\ port = "lp3" /\ mine => told \/ "port" \in moved

\* A port that some other use of the HMC gave lp3 is not the run's to mutate.
OthersKeep == ~stolen
=============================================================================
