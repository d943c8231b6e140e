-------------------------------- MODULE LivePcm --------------------------------
(* The pcm arm of the live tests (subtask 38, scripts/live_test/metrics.py):  *)
(* each collection preference of the managed system is toggled and all of     *)
(* them are restored to what the first read showed.  The HMC couples them:    *)
(* aggregation needs long-term monitoring and, where the system is capable,   *)
(* turns energy monitoring on, and a toggle off is held while it is on.  The  *)
(* preference that nothing couples stands for the two there are.              *)
EXTENDS Naturals, Sequences

CONSTANTS
  MaxFaults,    \* bound: calls that fail, or take effect without a good answer, and stops
  MaxTouches    \* bound: changes other users make

PcmAssumption == {MaxFaults, MaxTouches} \subseteq Nat

VARIABLES
  (* the HMC *)
  prefs,     \* the preferences
  capable,   \* the system can monitor energy
  flying,    \* the writes that were sent and are not carried out yet
  (* the run *)
  pc,        \* the step
  snapshot,  \* what the first read showed
  turn,      \* the preference that is toggled
  accepted,  \* the last write was reported as done
  current,   \* the last read, <<>> when it did not read
  fits,      \* the preferences that were seen to be toggled, or held
  verdict,   \* "none", "passed", "failed" with the row for manual recovery, or "skipped"
  (* history *)
  cut,       \* the run was interrupted or killed
  late,      \* the preferences changed after the last look at them
  faults, touches

hmc == <<prefs, capable, flying>>
vars == <<hmc, pc, snapshot, turn, accepted, current, fits, verdict, cut, late, faults, touches>>

Order == <<"ltm", "agg", "stm", "em">>
Flags == {"ltm", "agg", "stm", "em"}
Off(S) == [f \in S |-> FALSE]
Fault(c) == (c => faults < MaxFaults) /\ faults' = faults + (IF c THEN 1 ELSE 0)

-----------------------------------------------------------------------------
(* The HMC: aggregation holds on what it needs, and a write that turns it     *)
(* off may hold what it held or release it.                                   *)

Held(agg, was, is) ==
  [f \in Flags |->
    IF f = "em" /\ ~capable THEN FALSE
    ELSE is[f] \/ (agg /\ (f = "ltm" \/ (f = "em" /\ (was["em"] \/ ~was["agg"]))))]
After(w) ==
  LET is == [f \in Flags |-> IF f \in DOMAIN w THEN w[f] ELSE prefs[f]]
  IN {Held(is["agg"], prefs, is)} \cup {Held(is["agg"] \/ prefs["agg"], prefs, is)}

\* A write is carried out or not, at once or later, and reported as done only when it was.
Write(w) ==
  \E did, pass \in BOOLEAN :
    /\ (pass => did) /\ Fault(~pass) /\ accepted' = pass
    /\ IF did THEN prefs' \in After(w) /\ UNCHANGED flying
       ELSE UNCHANGED prefs /\ flying' \in {flying, flying \cup {w}}

Read(see) == \E r \in BOOLEAN : Fault(~r) /\ see' = IF r THEN prefs ELSE <<>>

-----------------------------------------------------------------------------
(* exercise_pcm_preferences.                                                  *)

Snapshot ==
  /\ pc = "snapshot" /\ Read(snapshot) /\ UNCHANGED <<hmc, turn, accepted, current, fits, cut, late, touches>>
  /\ IF snapshot' = <<>> THEN pc' = "end" /\ verdict' = "skipped" ELSE pc' = "toggle" /\ UNCHANGED verdict

Flag == Order[turn]
Running == UNCHANGED <<capable, snapshot, cut, late, touches>>
Writes(w, next) ==
  /\ Write(w) /\ pc' = next /\ Running /\ UNCHANGED <<turn, current, fits, verdict>>
Looks(next) == Read(current) /\ pc' = next /\ Running /\ UNCHANGED <<prefs, flying, accepted, verdict>>

Toggle == pc = "toggle" /\ Writes([f \in {Flag} |-> ~snapshot[f]], "toggled")

\* _held_by_aggregation: what is expected to be held must have been accepted, too.
HeldOn == IF snapshot["agg"] THEN {"ltm"} \cup (IF capable /\ snapshot["em"] THEN {"em"} ELSE {}) ELSE {}
Toggled ==
  /\ pc = "toggled" /\ Looks("restore") /\ UNCHANGED turn
  /\ fits' = IF accepted /\ current' # <<>> /\ (current'[Flag] = snapshot[Flag]) = (Flag \in HeldOn)
             THEN fits \cup {Flag} ELSE fits

Restore == pc = "restore" /\ Writes(snapshot, "restored")

\* The next preference, or the end; a restore that failed is the last.
Next1(restored, failing) ==
  IF ~restored THEN pc' = failing /\ UNCHANGED turn
  ELSE IF turn < Len(Order) THEN pc' = "toggle" /\ turn' = turn + 1
  ELSE pc' = "final" /\ UNCHANGED turn

\* _needs_ordered_restore: aggregation has to be off before what it held.
NeedsOrder ==
  current' # <<>> /\ ~snapshot["agg"] /\ \E f \in {"ltm", "em"} : ~snapshot[f] /\ current'[f]

Restored ==
  /\ pc = "restored" /\ Read(current) /\ Running /\ UNCHANGED <<prefs, flying, accepted, fits, verdict>>
  /\ Next1(accepted /\ current' = snapshot, IF accepted /\ NeedsOrder THEN "off" ELSE "failing")

AggregationOff == pc = "off" /\ Writes(Off({"agg"}), "released")
Released ==
  /\ pc = "released" /\ Read(current) /\ Running /\ UNCHANGED <<prefs, flying, turn, accepted, fits, verdict>>
  /\ pc' = IF accepted /\ current' # <<>> /\ ~current'["agg"] THEN "retry" ELSE "failing"
Retry == pc = "retry" /\ Writes(snapshot, "retried")
Retried ==
  /\ pc = "retried" /\ Read(current) /\ Running /\ UNCHANGED <<prefs, flying, accepted, fits, verdict>>
  /\ Next1(accepted /\ current' = snapshot, "failing")

\* The last read decides the cleanup; a row tells the snapshot when it was not brought back.
Final ==
  /\ pc \in {"final", "failing"} /\ Read(current) /\ pc' = "end"
  /\ UNCHANGED <<hmc, snapshot, turn, accepted, fits, cut, touches>> /\ late' = FALSE
  /\ verdict' = IF pc = "final" /\ current' = snapshot THEN (IF fits = Flags THEN "passed" ELSE "restored")
                ELSE "failed"

-----------------------------------------------------------------------------
(* Interrupts, what lands later, and others.                                  *)

\* The results document has the snapshot, when the run still writes it.
Interrupt ==
  /\ pc # "end" /\ Fault(TRUE) /\ pc' = "end" /\ cut' = TRUE
  /\ UNCHANGED <<hmc, snapshot, turn, accepted, current, fits, verdict, late, touches>>

Land ==
  /\ \E w \in flying : prefs' \in After(w) /\ flying' = flying \ {w}
  /\ late' = (pc = "end")
  /\ UNCHANGED <<capable, pc, snapshot, turn, accepted, current, fits, verdict, cut, faults, touches>>

Touch ==
  /\ pc # "end" /\ touches < MaxTouches /\ touches' = touches + 1
  /\ \E f \in Flags : prefs' \in After([g \in {f} |-> ~prefs[f]])
  /\ UNCHANGED <<capable, flying, pc, snapshot, turn, accepted, current, fits, verdict, cut, late, faults>>

Init ==
  /\ capable \in BOOLEAN /\ prefs \in [Flags -> BOOLEAN] /\ flying = {}
  /\ (prefs["agg"] => prefs["ltm"]) /\ (prefs["em"] => capable)
  /\ pc = "snapshot" /\ snapshot = <<>> /\ turn = 1 /\ accepted = FALSE /\ current = <<>> /\ fits = {}
  /\ verdict = "none" /\ cut = FALSE /\ late = FALSE /\ faults = 0 /\ touches = 0

Next ==
  \/ Snapshot \/ Toggle \/ Toggled \/ Restore \/ Restored \/ AggregationOff \/ Released \/ Retry
  \/ Retried \/ Final \/ Interrupt \/ Land \/ Touch

Spec == Init /\ [][Next]_vars

-----------------------------------------------------------------------------
(* Properties.                                                                *)

PcmTypeOK ==
  /\ prefs \in [Flags -> BOOLEAN] /\ turn \in 1..Len(Order) /\ fits \subseteq Flags
  /\ {capable, accepted, cut, late} \subseteq BOOLEAN
  /\ verdict \in {"none", "passed", "restored", "failed", "skipped"}

\* Preferences that are reported as restored are what the first read showed.
PcmClean == verdict \in {"passed", "restored"} => (prefs = snapshot \/ late)

\* What the run changes and does not bring back is told of; and when nothing fails and nobody
\* interferes, all of it is brought back, and toggled or held where the system can monitor
\* energy, unless aggregation was on without the energy monitoring that it would hold.
PcmLeftTold ==
  pc = "end" =>
    /\ prefs = snapshot \/ verdict \in {"failed", "skipped"} \/ cut \/ late
    /\ (faults = 0 /\ touches = 0) =>
         \/ verdict = "passed" \/ (verdict = "restored" /\ ~capable)
         \/ snapshot["agg"] /\ capable /\ ~snapshot["em"]
=============================================================================
