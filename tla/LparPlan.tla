-------------------------------- MODULE LparPlan --------------------------------
(* hmc_plan_lpar (operations/lpar/plan.py): whether a request for a partition   *)
(* fits a system, and which.  The systems are resolved first, then each is      *)
(* looked at by one read after another, and the tightest one that nothing       *)
(* speaks against is selected.  Nothing is reserved: what a read showed may     *)
(* have changed when the plan is made.  An HMC that stops answering is asked    *)
(* nothing more; any other failure, or a denial, speaks against one system.     *)
EXTENDS Naturals, FiniteSets

CONSTANTS
  NSystems,     \* the systems of the connection, in the order of their UUIDs
  NVios,        \* the VIOSes of each
  MaxFaults,    \* bound: reads that fail or are denied
  MaxTouches    \* bound: what is not as the request needs it, before the plan or from then on

Systems == 1..NSystems
Vioses == 1..NVios
PlanAssumption == {NSystems, NVios, MaxFaults, MaxTouches} \subseteq Nat

VARIABLES
  (* the HMC *)
  sys,         \* the systems: [operating, mem, named, vlan, vios]
  (* the plan *)
  request,     \* what is asked for: [kind, vios, all]
  pc,          \* the step
  at,          \* the system that is resolved or looked at
  shot,        \* the entry of each system as it was resolved
  stalled,     \* the HMC stopped answering
  left,        \* the VIOSes that are still to be read
  pairs,       \* the VIOSes with a group that qualifies, and how many such groups
  complete,    \* no VIOS was left unread
  speaks,      \* what speaks against each system
  selected,    \* the system of the plan, or 0
  digest,      \* the plan has a digest
  (* history *)
  touched,     \* the systems that were changed since the plan began
  after,       \* the HMC was asked after it had stopped answering
  faults, touches

run == <<request, pc, at, shot, stalled, left, pairs, complete, speaks, selected, digest>>
vars == <<sys, run, touched, after, faults, touches>>

Need == 2   \* the memory that is asked for; 1 is less than that
NoShot == [operating |-> FALSE, mem |-> 0, known |-> FALSE]
Fault(c) == (c => faults < MaxFaults) /\ faults' = faults + (IF c THEN 1 ELSE 0)

\* What a VIOS has for the request: it is down, no group qualifies, one does, one does whose
\* disk is mapped already, or two do.
States == {"down", "empty", "fits", "mapped", "two"}
Groups(st) ==
  CASE st = "two" -> 2 [] st = "fits" -> 1 [] st = "mapped" /\ request.kind = "disk" -> 1 [] OTHER -> 0

-----------------------------------------------------------------------------
(* check_request and the systems: the one that is named, or all there are.    *)

\* The kinds: a new virtual disk, one that is there, or a physical volume.
Requests ==
  {q \in [kind : {"new", "disk", "pv"}, vios : Vioses \cup {0}, all : BOOLEAN] : q.vios \in {0, 1}}

Fails(outcome) == outcome \in {"denied", "failed", "stalled"}
Outcomes == {"ok", "denied", "failed", "stalled"}
Speaks(s, why) == speaks' = [speaks EXCEPT ![s] = @ \cup why]
Keep == UNCHANGED <<sys, request, selected, digest, touched, touches>>

\* A read: it is admitted, and answers; what was read before stays.
Reads(o) ==
  /\ o \in Outcomes /\ Fault(Fails(o))
  /\ after' = (after \/ (stalled /\ o # "denied")) /\ stalled' = (stalled \/ o = "stalled")

\* _resolve: a selector that is denied or does not resolve is out; after a stall none is looked up.
Resolve ==
  /\ pc = "resolve" /\ ~request.all /\ at \in Systems
  /\ \E o \in Outcomes :
       /\ IF stalled THEN o = "failed" /\ UNCHANGED <<stalled, faults, after>> ELSE Reads(o)
       /\ shot' = [shot EXCEPT ![at] = IF o = "ok" THEN [operating |-> sys[at].operating, mem |-> sys[at].mem, known |-> TRUE]
                                      ELSE @]
  /\ at' = at + 1 /\ Keep /\ UNCHANGED <<pc, left, pairs, complete, speaks>>

\* _enumerate: one list and each entry; a failure of any of them leaves no candidate.
Enumerate ==
  /\ pc = "resolve" /\ request.all /\ at = 1
  /\ \E o \in Outcomes :
       /\ Fault(Fails(o)) /\ UNCHANGED <<stalled, after>>
       /\ shot' = IF o = "ok" THEN [s \in Systems |-> [operating |-> sys[s].operating, mem |-> sys[s].mem, known |-> TRUE]]
                  ELSE shot
  /\ at' = NSystems + 1 /\ Keep /\ UNCHANGED <<pc, left, pairs, complete, speaks>>

Resolved ==
  /\ pc = "resolve" /\ at > NSystems /\ at' = 1 /\ pc' = "capacity"
  /\ Keep /\ UNCHANGED <<shot, stalled, left, pairs, complete, speaks, after, faults>>

-----------------------------------------------------------------------------
(* _Evaluator: one system after another.                                      *)

Next1(next) == pc' = next /\ UNCHANGED at
NextSystem == pc' = "capacity" /\ at' = at + 1
Looking == at \in Systems /\ Keep /\ UNCHANGED shot

\* The capacity grant is asked for once, and holds for all systems.
DeniedBefore == \E s \in 1..(at - 1) : "denied" \in speaks[s]
Asked == \E s \in 1..(at - 1) : shot[s].known /\ shot[s].operating
Granted(denied) == IF Asked THEN denied = DeniedBefore ELSE denied \in BOOLEAN

\* evaluate and _capacity: the entry is the one that was resolved.
CheckCapacity ==
  /\ pc = "capacity" /\ Looking /\ UNCHANGED <<stalled, left, after>>
  /\ pairs' = {} /\ complete' = TRUE
  /\ IF ~shot[at].known THEN NextSystem /\ UNCHANGED <<speaks, faults>>
     ELSE IF stalled THEN NextSystem /\ Speaks(at, {"unavailable"}) /\ UNCHANGED faults
     ELSE IF ~shot[at].operating THEN NextSystem /\ Speaks(at, {"system_not_operating"}) /\ UNCHANGED faults
     ELSE \E denied \in BOOLEAN :
            /\ Granted(denied) /\ Fault(denied /\ ~DeniedBefore) /\ Next1("name")
            /\ Speaks(at, IF denied THEN {"denied"} ELSE IF shot[at].mem < Need THEN {"insufficient_memory"} ELSE {})

\* A check that fails goes on to the next one, unless the HMC stopped answering.
Check(step, next, bad, why) ==
  /\ pc = step /\ Looking /\ UNCHANGED <<left, pairs, complete>>
  /\ \E o \in Outcomes :
       /\ Reads(o)
       /\ Speaks(at, IF Fails(o) THEN {"unavailable"} ELSE IF bad THEN {why} ELSE {})
       /\ IF o = "stalled" THEN NextSystem ELSE Next1(next)

Name == Check("name", "vlan", at \in Systems /\ sys[at].named, "name_exists")
Vlan == Check("vlan", "vios", at \in Systems /\ ~sys[at].vlan, "vlan_missing")

\* _vioses: those that run, or the one that is named.
Running(s) == {v \in Vioses : sys[s].vios[v] # "down" /\ request.vios \in {0, v}}

VioStates ==
  /\ pc = "vios" /\ Looking /\ UNCHANGED complete
  /\ \E o \in Outcomes :
       /\ Reads(o)
       /\ IF Fails(o) THEN NextSystem /\ Speaks(at, {"unavailable"}) /\ UNCHANGED <<left, pairs>>
          ELSE IF Running(at) = {} THEN NextSystem /\ Speaks(at, {"vios_not_running"}) /\ UNCHANGED <<left, pairs>>
          ELSE IF request.kind # "pv" THEN Next1("groups") /\ left' = Running(at) /\ UNCHANGED <<pairs, speaks>>
          ELSE IF request.vios = 0 THEN NextSystem /\ Speaks(at, {"storage_unplaceable"}) /\ UNCHANGED <<left, pairs>>
          ELSE Next1("mapping") /\ pairs' = {<<request.vios, 1>>} /\ UNCHANGED <<left, speaks>>

\* _groups and _qualifying: a VIOS that was not read might have made the choice ambiguous.
VolumeGroups ==
  /\ pc = "groups" /\ left # {} /\ Looking
  /\ LET v == CHOOSE x \in left : \A y \in left : x <= y
     IN \E o \in Outcomes :
          /\ Reads(o) /\ left' = left \ {v} /\ complete' = (complete /\ ~Fails(o))
          /\ pairs' = IF Fails(o) \/ Groups(sys[at].vios[v]) = 0 THEN pairs
                      ELSE pairs \cup {<<v, Groups(sys[at].vios[v])>>}
          /\ Speaks(at, IF Fails(o) THEN {"unavailable"} ELSE {})
          /\ IF o = "stalled" THEN NextSystem ELSE Next1("groups")

\* _storage: exactly one pair of a VIOS and a group.
One == \E v \in Vioses : pairs = {<<v, 1>>}
Storage ==
  /\ pc = "groups" /\ left = {} /\ Looking /\ UNCHANGED <<stalled, left, pairs, complete, after, faults>>
  /\ IF ~complete THEN NextSystem /\ UNCHANGED speaks
     ELSE IF pairs = {} THEN NextSystem /\ Speaks(at, {"storage_unplaceable"})
     ELSE IF ~One THEN NextSystem /\ Speaks(at, {"ambiguous"})
     ELSE IF request.kind = "new" THEN NextSystem /\ UNCHANGED speaks
     ELSE Next1("mapping") /\ UNCHANGED speaks

Mapping ==
  /\ pc = "mapping" /\ Looking /\ NextSystem /\ UNCHANGED <<left, pairs, complete>>
  /\ \E o \in Outcomes :
       /\ Reads(o)
       /\ Speaks(at, IF Fails(o) THEN {"unavailable"}
                     ELSE IF \E p \in pairs : sys[at].vios[p[1]] = "mapped" THEN {"storage_mapped"} ELSE {})

-----------------------------------------------------------------------------
(* plan_lpar: the tightest fit, and the digest of a request that has no       *)
(* blocker of its own.                                                        *)

Unblocked == {s \in Systems : shot[s].known /\ speaks[s] = {}}
\* _request_blockers: what speaks against the request wherever it goes.
Digest(blocked) == digest' = (Unblocked # {} /\ ~blocked)
Tightest(S) == CHOOSE s \in S : \A t \in S : shot[s].mem < shot[t].mem \/ (shot[s].mem = shot[t].mem /\ s <= t)

Select ==
  /\ pc = "capacity" /\ at > NSystems /\ pc' = "end"
  /\ selected' = IF Unblocked = {} THEN 0 ELSE Tightest(Unblocked)
  /\ \E blocked \in BOOLEAN : Digest(blocked)
  /\ UNCHANGED <<sys, request, at, shot, stalled, left, pairs, complete, speaks, touched, after, faults, touches>>

-----------------------------------------------------------------------------
(* Other users, and the start.                                                *)

Good == [operating |-> TRUE, mem |-> Need, named |-> FALSE, vlan |-> TRUE,
         vios |-> [v \in Vioses |-> IF v = 1 THEN "fits" ELSE "empty"]]
Flawed(x) ==
  {[x EXCEPT !.operating = ~@], [x EXCEPT !.named = ~@], [x EXCEPT !.vlan = ~@]}
    \cup {[x EXCEPT !.mem = m] : m \in 1..3} \cup {[x EXCEPT !.vios[v] = st] : v \in Vioses, st \in States}

\* A system that was looked at already is read no more.
Touch ==
  /\ pc # "end" /\ touches < MaxTouches /\ touches' = touches + 1
  /\ \E s \in {t \in Systems : pc = "resolve" \/ t >= at} : \E x \in Flawed(sys[s]) \ {sys[s]} :
       sys' = [sys EXCEPT ![s] = x] /\ touched' = IF pc = "resolve" /\ at = 1 THEN touched ELSE touched \cup {s}
  /\ UNCHANGED <<run, after, faults>>

Init ==
  /\ sys = [s \in Systems |-> Good] /\ request \in Requests
  /\ pc = "resolve" /\ at = 1 /\ shot = [s \in Systems |-> NoShot] /\ stalled = FALSE /\ left = {} /\ pairs = {}
  /\ complete = TRUE /\ speaks = [s \in Systems |-> {}] /\ selected = 0 /\ digest = FALSE
  /\ touched = {} /\ after = FALSE /\ faults = 0 /\ touches = 0

Next ==
  \/ Resolve \/ Enumerate \/ Resolved \/ CheckCapacity \/ Name \/ Vlan \/ VioStates \/ VolumeGroups
  \/ Storage \/ Mapping \/ Select \/ Touch

Spec == Init /\ [][Next]_vars

-----------------------------------------------------------------------------
(* Properties.                                                                *)

\* What a system must be like for the request, all at once.
Fits(s) ==
  /\ sys[s].operating /\ sys[s].mem >= Need /\ ~sys[s].named /\ sys[s].vlan
  /\ IF request.kind = "pv" THEN request.vios \in Running(s) /\ sys[s].vios[request.vios] # "mapped"
     ELSE \E v \in Running(s) :
            /\ Groups(sys[s].vios[v]) = 1 /\ sys[s].vios[v] # "mapped"
            /\ \A w \in Running(s) \ {v} : Groups(sys[s].vios[w]) = 0

PlanTypeOK ==
  /\ at \in 1..(NSystems + 1) /\ left \subseteq Vioses /\ selected \in Systems \cup {0} /\ touched \subseteq Systems
  /\ {stalled, complete, digest, after} \subseteq BOOLEAN
  /\ pc \in {"resolve", "capacity", "name", "vlan", "vios", "groups", "mapping", "end"}

\* A system that the plan selects has all that the request needs at once, unless it was changed
\* while the plan was made, and no other that fits is tighter; a plan without a system, when
\* nothing failed or changed, is of a request that fits none.  An HMC that stopped answering is
\* asked nothing more.
PlanTrue ==
  /\ ~after
  /\ pc = "end" =>
       /\ selected # 0 => selected \in touched \/ Fits(selected)
       /\ (faults = 0 /\ touched = {}) =>
            \A s \in Systems : Fits(s) => selected # 0 /\ sys[selected].mem <= sys[s].mem
       /\ (digest => selected # 0)
=============================================================================
