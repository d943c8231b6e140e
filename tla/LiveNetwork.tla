----------------------------- MODULE LiveNetwork -----------------------------
(* The network arm of the live tests (subtask 9, scripts/live_test/network.py)*)
(* and the recovery check after it.  On the test partition and the VIOS that  *)
(* serves it the arm makes and removes a virtual network, client adapters, a  *)
(* port label and a group label.  Each round trip reads a baseline, removes   *)
(* what differs from it afterwards and reads it again; a reversal that is not *)
(* confirmed stops the arm.  A call is answered PASS or FAIL whatever it did, *)
(* and what it asked for may be carried out later; others use the HMC too.    *)
EXTENDS Naturals

CONSTANTS
  MaxFaults,    \* bound: calls that fail, or take effect without a good answer, and stops
  MaxTouches    \* bound: changes other users make

NetworkLiveAssumption == {MaxFaults, MaxTouches} \subseteq Nat

VARIABLES
  (* the HMC *)
  there,     \* networks, client adapters and group labels: <<kind, tag>>
  label,     \* the label of the first Fibre Channel port
  side,      \* who changed the server adapters or mappings of the VIOS: "same" is nobody
  flying,    \* what was sent and is not carried out yet
  (* the run *)
  served,    \* exactly one VIOS serves the test partition
  used,      \* the partition has a vSCSI client, whose slot an add collides with
  first,     \* the port's label in the baseline
  pc,        \* <<step, kind>>
  base,      \* kind -> the tags its baseline read
  todo,      \* what the current removal still deletes
  restored,  \* the adapters read as in the baseline
  judged,    \* kind -> cleanup disposition of its observations
  rows,      \* kinds a MANUAL RECOVERY row names
  differs,   \* kinds whose final compare did not pass
  verdict,   \* exit status of the recovery check, 9 before it
  (* history *)
  looks,     \* last looks the run and the check have taken
  late,      \* what was carried out after which of them
  harm,      \* what the run removed and had not made
  faults, touches

hmc    == <<there, label, side, flying>>
init   == <<served, used, first>>
told   == <<judged, rows, differs>>
past   == <<looks, late, harm>>
counts == <<faults, touches>>
vars   == <<hmc, init, pc, base, todo, restored, told, verdict, past, counts>>

Clients  == {"scsi", "fc"}             \* the paired client adapters
Adapters == Clients \cup {"cna"}
Sets     == Adapters \cup {"network", "group"}
Kinds    == Sets \cup {"label"}
Own      == {"own", "more"}            \* the second: a duplicate, a collision, a rename
Tags(k)  == {t \in Own \cup {"base", "again", "other"} : <<k, t>> \in there}
Left == {x \in there : x[2] \in Own} \cup (IF label = "test" THEN {<<"label", "own">>} ELSE {})

Unread == {"unread"}
At(step, k) == pc = <<step, k>>
Goes(step, k) == pc' = <<step, k>>
Fault(c) == (c => faults < MaxFaults) /\ faults' = faults + (IF c THEN 1 ELSE 0)
Answers == [did : BOOLEAN, pass : BOOLEAN]
Answered(x) == (x.pass => x.did) /\ Fault(~x.pass)
Shows(r, c) == (r => c) /\ Fault(c /\ ~r)
Reading == UNCHANGED <<hmc, init, touches>>
Writing == UNCHANGED <<side, init, base, restored, told, verdict, looks, late, touches>>
Quiet   == UNCHANGED <<told, verdict, past>>
Sees(k, look) == looks' = looks \cup {<<look, k>>} /\ UNCHANGED <<late, harm>>

\* The order of the round trips (mutate_virtual_networking).
After(k) ==
  CASE k = "network" -> IF served THEN <<"base", "scsi">> ELSE <<"compare", "all">>
    [] k = "scsi"    -> <<"base", "fc">>
    [] k = "fc"      -> <<"base", "label">>
    [] k = "label"   -> <<"base", "group">>
    [] OTHER         -> <<"compare", "all">>

-----------------------------------------------------------------------------
(* Baselines and what is added.                                               *)

\* A baseline that cannot be read, or that offers nothing to use, skips the round trip.
Baseline(k, kinds, next) ==
  /\ At("base", k) /\ Reading /\ Quiet /\ UNCHANGED <<todo, restored>>
  /\ \/ pc' = After(k) /\ UNCHANGED base /\ Fault(TRUE)
     \/ /\ base' = [j \in Kinds |-> IF j \in kinds THEN Tags(j) ELSE base[j]]
        /\ Goes(next, k) /\ UNCHANGED faults

Add(step, k, tag, next) ==
  /\ At(step, k) /\ Writing /\ UNCHANGED <<label, todo, harm>> /\ pc' = next
  /\ \E x \in Answers :
       /\ Answered(x)
       /\ there' = IF x.did THEN there \cup {<<k, tag>>} ELSE there
       /\ flying' \in {flying, IF x.did THEN flying ELSE flying \cup {<<k, tag>>}}

\* The HMC refuses what is there already, a VLAN or a slot that is used; it should.
Collide(k, next) ==
  /\ At("more", k) /\ Writing /\ UNCHANGED <<label, flying, todo, harm>> /\ pc' = next
  /\ \E did \in BOOLEAN : Fault(did) /\ there' = IF did THEN there \cup {<<k, "more">>} ELSE there

\* What the run added is listed, or the rest of the round trip is left out.
Listed(k, next, otherwise) ==
  /\ At("listed", k) /\ Reading /\ Quiet /\ UNCHANGED <<base, todo, restored>>
  /\ \E r \in BOOLEAN : Shows(r, <<k, "own">> \in there) /\ pc' = IF r THEN next ELSE otherwise

\* The group is created once more, which the HMC should refuse while it is there.
Again(step, next) ==
  \/ Add(step, "group", "own", <<next, "group">>)
  \/ /\ At(step, "group") /\ <<"group", "own">> \in there
     /\ Writing /\ UNCHANGED <<there, label, flying, todo, harm, faults>> /\ Goes(next, "group")

\* rename_group.
Rename ==
  /\ At("rename", "group") /\ Writing /\ UNCHANGED <<label, todo, harm>> /\ Goes("find", "group")
  /\ \E x \in Answers :
       /\ Answered(x) /\ (x.did => <<"group", "own">> \in there)
       /\ there' = IF x.did THEN (there \ {<<"group", "own">>}) \cup {<<"group", "more">>} ELSE there
       /\ flying' \in {flying, IF x.did THEN flying ELSE flying \cup {<<"rename", "group">>}}

-----------------------------------------------------------------------------
(* Reversals.                                                                 *)

\* An unconfirmed reversal gets a row and stops the arm; the network of an adapter that
\* is left stays with it.
Manual(k) ==
  /\ rows' = rows \cup (IF k = "cna" THEN {"cna", "network"} ELSE {k})
  /\ UNCHANGED differs /\ Goes("compare", "all")
Judges(k, ok) == judged' = [judged EXCEPT ![k] = IF ok THEN "passed" ELSE "failed"]

\* What a round trip takes for its own: networks and groups by their names, adapters as
\* all that is new, but for one in the place of a baseline adapter that is gone.
Mine(k) ==
  LET seen == Tags(k) IN
  IF k \in Adapters
  THEN {t \in seen \ base[k] : t = "again" => "base" \in seen}
  ELSE seen \cap Own

\* Without a listing networks and adapters are left, groups are removed by their names.
Find(k) ==
  /\ At("find", k) /\ Reading /\ UNCHANGED <<base, verdict, past>>
  /\ \/ todo' = Mine(k) /\ Goes("drop", k) /\ UNCHANGED <<told, restored, faults>>
     \/ /\ Fault(TRUE)
        /\ CASE k = "group"    -> todo' = Own /\ Goes("drop", k) /\ UNCHANGED <<told, restored>>
             [] k \in Clients  -> restored' = FALSE /\ Goes("side", k) /\ UNCHANGED <<told, todo>>
             [] OTHER          -> Judges(k, FALSE) /\ Manual(k) /\ UNCHANGED <<restored, todo>>

Drop(k) ==
  /\ At("drop", k) /\ UNCHANGED <<label, flying, init, base, restored>>
  /\ UNCHANGED <<told, verdict, looks, late, touches>>
  /\ IF todo = {} THEN Goes("check", k) /\ UNCHANGED <<there, side, harm, todo, faults>>
     ELSE \E t \in todo, x \in Answers, kept \in BOOLEAN :
            /\ Answered(x) /\ todo' = todo \ {t} /\ UNCHANGED pc
            /\ there' = IF x.did THEN there \ {<<k, t>>} ELSE there
            /\ harm' = IF x.did /\ <<k, t>> \in there /\ t \notin Own THEN harm \cup {<<k, t>>} ELSE harm
            /\ side' = IF kept \/ k \notin Clients THEN side ELSE "run"

\* The last read of a round trip; of the paired clients, the VIOS is read after it.
Check(k) ==
  /\ At("check", k) /\ k \in Sets /\ Reading /\ Sees(k, "judged") /\ UNCHANGED <<base, todo, verdict>>
  /\ \E r \in BOOLEAN :
       /\ Shows(r, Tags(k) = base[k])
       /\ IF k \in Clients THEN restored' = r /\ Goes("side", k) /\ UNCHANGED told
          ELSE /\ Judges(k, r) /\ UNCHANGED restored
               /\ IF ~r THEN Manual(k)
                  ELSE /\ UNCHANGED <<rows, differs>>
                       /\ pc' = IF k = "cna" THEN <<"find", "network">> ELSE After(k)

Side(k) ==
  /\ At("side", k) /\ Reading /\ UNCHANGED <<base, todo, restored, verdict, past>>
  /\ \E r \in BOOLEAN :
       /\ Shows(r, side = "same") /\ Judges(k, r /\ restored)
       /\ IF r /\ restored THEN pc' = After(k) /\ UNCHANGED <<rows, differs>> ELSE Manual(k)

-----------------------------------------------------------------------------
(* The port label: set, removed and, when there was one, set again.           *)

Relabel(step, value, next) ==
  /\ At(step, "label") /\ Writing /\ UNCHANGED <<there, todo, harm>> /\ Goes(next, "label")
  /\ \E x \in Answers :
       /\ Answered(x)
       /\ label' = IF x.did THEN value ELSE label
       /\ flying' \in {flying, IF x.did THEN flying ELSE flying \cup {<<"label", value>>}}

Restore ==
  \/ first # "none" /\ Relabel("restore", first, "check")
  \/ /\ At("restore", "label") /\ (first = "none" \/ label = first) /\ Reading /\ Quiet
     /\ Goes("check", "label") /\ UNCHANGED <<base, todo, restored, faults>>

CheckLabel ==
  /\ At("check", "label") /\ Reading /\ Sees("label", "judged")
  /\ UNCHANGED <<base, todo, restored, verdict>>
  /\ \E r \in BOOLEAN :
       /\ Shows(r, label = first) /\ Judges("label", r)
       /\ IF r THEN pc' = After("label") /\ UNCHANGED <<rows, differs>> ELSE Manual("label")

-----------------------------------------------------------------------------
(* The final compare, and live_test_recovery.py.                              *)

\* compare_baselines rereads every baseline that was read; a read that fails differs.
Off(k) == IF k = "label" THEN label # first ELSE Tags(k) # base[k]
Compare ==
  /\ At("compare", "all") /\ Reading /\ Sees("all", "compared") /\ Goes("end", "all")
  /\ UNCHANGED <<base, todo, restored, judged, rows, verdict>>
  /\ LET open == {k \in Kinds : base[k] # Unread} IN
     \E failed \in {{}} \cup {{k} : k \in open} :
       /\ Fault(failed # {}) /\ differs' = failed \cup {k \in open : Off(k)}

Stopped == pc[1] \in {"end", "stopped"}

\* An interrupt or a kill: the arm undoes nothing.
Stop ==
  /\ ~Stopped /\ Fault(TRUE) /\ Goes("stopped", "all")
  /\ UNCHANGED <<hmc, init, base, todo, restored, told, verdict, past, touches>>

\* check_network: networks of the VLAN, adapters and the label by their baselines, groups
\* by their prefix.  Without the whole document, or with an unreadable state, it is 2.
Recover ==
  /\ Stopped /\ verdict = 9 /\ Sees("all", "recovery")
  /\ \E read \in BOOLEAN :
       verdict' = IF ~read \/ pc[1] = "stopped" THEN 2
                  ELSE IF \/ \E x \in Left : x[1] \in {"network", "group"}
                          \/ \E k \in Adapters : base[k] \notin {Unread, Tags(k)}
                          \/ base["label"] # Unread /\ label # first
                       THEN 1 ELSE 0
  /\ UNCHANGED <<hmc, init, pc, base, todo, restored, told, counts>>

-----------------------------------------------------------------------------
(* The HMC and its other users.                                               *)

Land(x) ==
  /\ verdict = 9 /\ flying' = flying \ {x}
  /\ IF x[1] = "label" THEN label' = x[2] /\ UNCHANGED there
     ELSE /\ UNCHANGED label
          /\ there' = IF x[1] # "rename" THEN there \cup {x}
                      ELSE IF <<"group", "own">> \in there
                           THEN (there \ {<<"group", "own">>}) \cup {<<"group", "more">>} ELSE there
  /\ late' = late \cup {<<IF x[1] = "rename" THEN "group" ELSE x[1], l>> : l \in looks}
  /\ UNCHANGED <<side, init, pc, base, todo, restored, told, verdict, looks, harm, counts>>

\* Others add, remove or make anew, label the port, and map.
Touch ==
  /\ verdict = 9 /\ touches < MaxTouches /\ touches' = touches + 1
  /\ \/ \E k \in Sets :
          /\ there' \in {there \cup {<<k, "other">>}, there \ {<<k, "base">>},
                         (there \ {<<k, "base">>}) \cup {<<k, "again">>}}
          /\ UNCHANGED <<label, side>>
     \/ label' = "other" /\ UNCHANGED <<there, side>>
     \/ side = "same" /\ side' = "others" /\ UNCHANGED <<there, label>>
  /\ UNCHANGED <<flying, init, pc, base, todo, restored, told, verdict, past, faults>>

-----------------------------------------------------------------------------
\* find_boundary: the test partition is not activated, and is served by one VIOS or not.
Init ==
  /\ there = {<<k, "base">> : k \in Sets} /\ first \in {"orig", "none"} /\ label = first
  /\ side = "same" /\ flying = {} /\ served \in BOOLEAN /\ used \in BOOLEAN
  /\ pc = <<"base", "network">> /\ base = [k \in Kinds |-> Unread] /\ todo = {} /\ restored = FALSE
  /\ judged = [k \in Kinds |-> "none"] /\ rows = {} /\ differs = {} /\ verdict = 9
  /\ looks = {} /\ late = {} /\ harm = {} /\ faults = 0 /\ touches = 0

VlanRoundTrip ==
  \/ Baseline("network", {"network", "cna"}, "add")
  \/ Add("add", "network", "own", <<"listed", "network">>)
  \/ Listed("network", <<"more", "network">>, <<"find", "network">>)
  \/ Collide("network", <<"add", "cna">>)
  \/ Add("add", "cna", "own", <<"find", "cna">>)
ClientRoundTrip(k) ==
  \/ Baseline(k, {k}, IF used THEN "more" ELSE "add") \/ Collide(k, <<"add", k>>)
  \/ Add("add", k, "own", <<"find", k>>) \/ Side(k)
LabelRoundTrip ==
  \/ Baseline("label", {"label"}, "set") \/ Relabel("set", "test", "remove")
  \/ Relabel("remove", "none", "restore") \/ Restore \/ CheckLabel
GroupRoundTrip ==
  \/ Baseline("group", {"group"}, "add") \/ Add("add", "group", "own", <<"listed", "group">>)
  \/ Listed("group", <<"more", "group">>, <<"unlisted", "group">>)
  \/ Again("more", "rename") \/ Again("unlisted", "find") \/ Rename

Next ==
  \/ VlanRoundTrip \/ LabelRoundTrip \/ GroupRoundTrip \/ \E k \in Clients : ClientRoundTrip(k)
  \/ \E k \in Sets : Find(k) \/ Drop(k) \/ Check(k)
  \/ Compare \/ Stop \/ Recover \/ Touch
  \/ \E x \in flying : Land(x)

Spec == Init /\ [][Next]_vars

-----------------------------------------------------------------------------
(* Properties.                                                                *)

NetworkLiveTypeOK ==
  /\ there \subseteq Sets \X (Own \cup {"base", "again", "other"})
  /\ label \in {"orig", "none", "test", "other"} /\ side \in {"same", "run", "others"}
  /\ judged \in [Kinds -> {"none", "passed", "failed"}] /\ rows \cup differs \subseteq Kinds
  /\ todo \subseteq Own \cup {"base", "again", "other"} /\ verdict \in {0, 1, 2, 9}

\* A run that came to its end tells of what is left of its own, unless it was carried out
\* after the final compare, and of a change it made on the side of the VIOS.
NetworkLeftTold ==
  At("end", "all") =>
    /\ \A x \in Left : x[1] \in rows \cup differs \/ <<x[1], <<"compared", "all">>>> \in late
    /\ side = "run" => rows \cap Clients # {}

\* Observations called clean, and a recovery check that exits 0, are right: nothing is
\* left but what was carried out after their last look.
NetworkClean ==
  /\ \A x \in Left : judged[x[1]] = "passed" => <<x[1], <<"judged", x[1]>>>> \in late
  /\ verdict = 0 => \A x \in Left : <<x[1], <<"recovery", "all">>>> \in late

\* The arm removes no network and no group of others, and no adapter that was there when
\* it began, also when the HMC has given that adapter another identifier.
NetworkOwnRemoved == harm \subseteq Adapters \X {"other"}
=============================================================================
