------------------------- MODULE DecommissionProofs -------------------------
(* The safety properties of Decommission, for any adapters and mappings and   *)
(* any number of changes by other agents.                                     *)
EXTENDS Decommission, TLAPS

Inventory == {"authorize", "snapshot", "list_adapters", "list_mappings"}
PowerOff  == {"authorize_power", "submit", "await", "authorize_mappings", "check_mappings"}
Detach    == {"check_adapters", "authorize_adapters", "refresh"}

\* What has been sent at each point, and what is recorded of it.
SentInv ==
  /\ ending = "none" <=> pc # "done"
  /\ pc # "done" => failed = {} /\ \A s \in Step : steps[s] \in {"none", "ok"}
  /\ pc \in Inventory \cup {"authorize_power", "submit"} => sent = {}
  /\ pc \in PowerOff => sent \subseteq {"power_off"}
  /\ pc \in {"get", "post"} \cup Detach => sent \subseteq Mapping \cup {"power_off"}
  /\ pc \in {"unplug", "delete"} => sent \subseteq Mapping \cup Adapter \cup {"power_off"}
  /\ sent \cap Mapping \subseteq detached \cup failed
  /\ detached \subseteq removed /\ unplugged \subseteq removed

\* The loops work off the inventory, and an ETag that still matches means that the
\* mappings read are those there are.
TodoInv ==
  /\ pc \in {"get", "post"} => todo \subseteq inv.detaches
  /\ pc = "post" => cur \in inv.detaches /\ (fresh => view = client)
  /\ pc = "unplug" => todo \subseteq inv.adapters
  /\ OnlyInventoried

\* What the partition still has was inventoried, or changed by another agent since.
BareInv ==
  /\ pc \in PowerOff => Targets \subseteq inv.detaches \cup touched
  /\ pc = "get" => Targets \subseteq todo \cup touched
  /\ pc = "post" => Targets \subseteq todo \cup {cur} \cup touched
  /\ pc \in Detach \cup {"unplug", "delete"} => Targets \subseteq touched
  /\ pc \in {"list_mappings", "get", "post"} \cup PowerOff \cup Detach =>
       adapters \subseteq inv.adapters \cup touched
  /\ pc = "unplug" => adapters \subseteq todo \cup touched
  /\ pc = "delete" => adapters \subseteq touched

\* A stamp is another agent's exactly while `seized' names its phase, and no phase
\* went past an authorization that found the partition under its name with a stamp
\* from before.
SeizedInv ==
  /\ seized = Never <=> owner \in {"mine", "unstamped"}
  /\ ~override /\ bore /\ pc \in {"submit", "await"} => seized >= 1
  /\ ~override /\ bore
     /\ pc \in {"check_mappings", "get", "post", "check_adapters", "authorize_adapters"} =>
       seized >= 2
  /\ ~override /\ bore /\ pc \in {"refresh", "unplug", "delete"} => seized >= 3

\* The same of an activated partition and the state checks.
WokenInv ==
  /\ woken = Never <=> power = "not activated"
  /\ pc \in {"get", "post", "check_adapters"} => woken >= 2
  /\ pc \in {"authorize_adapters", "refresh", "unplug", "delete"} => woken >= 3

IInv == TypeOK /\ SentInv /\ TodoInv /\ BareInv /\ SeizedInv /\ WokenInv /\ Truthful
-----------------------------------------------------------------------------
(* Every step keeps the invariant.                                           *)

\* No name is another one.
LEMMA NamesApart ==
  /\ \A s \in Step : s \notin Mapping /\ s \notin Adapter
  /\ \A a \in Adapter : a \notin Mapping
BY NamesAssumption

\* What never happened is later than any phase.
LEMMA NeverIsLate == Never >= 1 /\ Never >= 2 /\ Never >= 3 /\ Never \notin {0, 1, 2, 3}
BY DEF Never

\* Nothing was sent, seen or taken.
LEMMA InitInv == Init => IInv
<1>0. 0 \in 0..Turns
  BY TurnsAssumption
<1> SUFFICES ASSUME Init PROVE IInv
  OBVIOUS
<1> USE DEF Init
<1>1. ResultType /\ CallType /\ HmcType
  BY DEF ResultType, CallType, HmcType, PCs
<1>2. HistoryType /\ woken \in {0, Never} /\ seized \in {0, Never} /\ turns = 0
  BY DEF HistoryType
<1>3. TypeOK
  BY <1>0, <1>1, <1>2 DEF TypeOK, PhaseType
<1>4. SentInv /\ TodoInv /\ BareInv /\ Truthful
  BY DEF SentInv, TodoInv, BareInv, Truthful, OnlyInventoried, Inventory, PowerOff, Detach
<1>5. /\ pc = "authorize"
      /\ \/ owner \in {"mine", "unstamped"} /\ seized = Never
         \/ owner \notin {"mine", "unstamped"} /\ seized = 0
      /\ \/ power = "not activated" /\ woken = Never
         \/ power # "not activated" /\ woken = 0
  BY DEF Stamps
<1> HIDE DEF Init
<1>6. SeizedInv
  BY <1>5, NeverIsLate DEF SeizedInv
<1>7. WokenInv
  BY <1>5, NeverIsLate DEF WokenInv
<1> QED
  BY <1>3, <1>4, <1>6, <1>7 DEF IInv

\* A failed step leaves statuses.
LEMMA StopsType ==
  ASSUME ResultType, NEW s \in Step, Stops(s) PROVE ResultType'
<1>1. steps' \in [Step -> {"none", "ok", "error", "skipped", "dry_run"}]
  BY DEF Stops, ResultType
<1> QED
  BY <1>1 DEF Stops, ResultType, PCs

\* So does a step that succeeded.
LEMMA OkType ==
  ASSUME ResultType, NEW s \in Step, steps' = [steps EXCEPT ![s] = "ok"]
  PROVE  steps' \in [Step -> {"none", "ok", "error", "skipped", "dry_run"}]
BY DEF ResultType

\* And a preview.
LEMMA StartsType ==
  ASSUME ResultType, NEW found, NEW complete, Starts(found, complete) PROVE ResultType'
<1>1. CASE dryRun
  BY <1>1 DEF Starts, ResultType, PCs
<1>2. CASE ~dryRun /\ ~complete
  BY <1>2 DEF Starts, ResultType, PCs
<1>3. CASE ~dryRun /\ complete /\ inv.state = "not activated"
  <2>1. pc' = "authorize_mappings" /\ ending' = ending
        /\ steps' = [steps EXCEPT !["power_off"] = "ok"]
    BY <1>3 DEF Starts, Passes
  <2> QED
    BY <2>1, OkType DEF ResultType, PCs, Step
<1>4. CASE ~dryRun /\ complete /\ inv.state # "not activated"
  BY <1>4 DEF Starts, Goes, ResultType, PCs
<1> QED
  BY <1>1, <1>2, <1>3, <1>4

\* The phase an authorization opens is one of four.
LEMMA OwnerPhaseType == ASSUME pc \in PCs PROVE OwnerPhase \in {0, 1, 2, 3}
BY DEF OwnerPhase, PCs

\* And it is the one SeizedInv asks of each request.
LEMMA OwnerPhases ==
  /\ pc \in {"submit", "await"} => OwnerPhase >= 1
  /\ pc \in {"check_mappings", "get", "post", "check_adapters", "authorize_adapters"} => OwnerPhase >= 2
  /\ pc \in {"refresh", "unplug", "delete"} => OwnerPhase >= 3
BY DEF OwnerPhase

\* The phase a state check opens is one of three.
LEMMA PowerPhaseType == PowerPhase \in {1, 2, 3}
BY DEF PowerPhase

\* And it is the one WokenInv asks of each request.
LEMMA PowerPhases ==
  /\ pc \in {"get", "post", "check_adapters"} => PowerPhase >= 2
  /\ pc \in {"authorize_adapters", "refresh", "unplug", "delete"} => PowerPhase >= 3
BY DEF PowerPhase

\* Other agents keep to their bound.
LEMMA TurnsType == ASSUME turns \in 0..Turns, Turn PROVE turns' \in 0..Turns
BY TurnsAssumption DEF Turn

\* The result stays one the call can report.
LEMMA ResultStep ==
  ASSUME TypeOK, Next PROVE ResultType'
<1> USE DEF call, hmc, history, TypeOK, ResultType, PCs, Step
<1>1. CASE Authorize
  BY <1>1 DEF Authorize, Goes, Raises, Looks
<1>2. CASE Snapshot
  BY <1>2 DEF Snapshot, Goes, Raises, Looks
<1>3. CASE ListAdapters
  BY <1>3 DEF ListAdapters, Goes, Raises, Looks
<1>4. CASE ListMappings
  BY <1>4, StartsType DEF ListMappings
<1>5. CASE CheckState
  BY <1>5, StopsType DEF CheckState, Goes
<1>6. CASE AuthorizeAdapters
  BY <1>6, StopsType DEF AuthorizeAdapters, Goes
<1>7. CASE Refresh
  BY <1>7, StopsType DEF Refresh, Goes
<1>8. CASE Submit
  BY <1>8, StopsType DEF Submit, Goes
<1>9. CASE Await
  BY <1>9 DEF Await, Passes, Stops, Looks
<1>10. CASE GetMappings
  BY <1>10 DEF GetMappings, Passes, Goes, Stops
<1>11. CASE PostMappings
  BY <1>11 DEF PostMappings, Writes, Goes, Stops
<1>12. CASE Unplug
  BY <1>12 DEF Unplug, Passes, Goes, Stops
<1>13. CASE DeleteLpar
  <2>1. CASE Stops("delete_lpar")
    BY <2>1, StopsType
  <2>2. CASE ~Stops("delete_lpar")
    <3>1. pc' = "done" /\ ending' = "complete" /\ steps' = [steps EXCEPT !["delete_lpar"] = "ok"]
      BY <1>13, <2>2 DEF DeleteLpar
    <3> QED
      BY <3>1, OkType
  <2> QED
    BY <2>1, <2>2
<1>14. CASE Restamp
  BY <1>14 DEF Restamp, Others, OwnerPhase
<1>15. CASE Activate
  BY <1>15 DEF Activate, Others, PowerPhase
<1>16. CASE Replug
  BY <1>16 DEF Replug, Others
<1>17. CASE Remap
  BY <1>17 DEF Remap, Others
<1>18. CASE Vanish
  BY <1>18 DEF Vanish, Others
<1>19. CASE Rename
  BY <1>19 DEF Rename, Turn
<1>20. CASE JobEnds
  BY <1>20 DEF JobEnds
<1> QED
  BY <1>1, <1>2, <1>3, <1>4, <1>5, <1>6, <1>7, <1>8, <1>9, <1>10, <1>11, <1>12, <1>13,
     <1>14, <1>15, <1>16, <1>17, <1>18, <1>19, <1>20 DEF Next, Work

\* The variables of the call keep their types.
LEMMA CallStep ==
  ASSUME TypeOK, TodoInv, Next PROVE CallType'
<1> USE DEF call, hmc, history, TypeOK, CallType, HmcType, TodoInv, Targets
<1>1. CASE Authorize
  BY <1>1 DEF Authorize, Goes, Raises, Looks
<1>2. CASE Snapshot
  BY <1>2 DEF Snapshot, Goes, Raises, Looks
<1>3. CASE ListAdapters
  BY <1>3 DEF ListAdapters, Goes, Raises, Looks
<1>4. CASE ListMappings
  <2>1. PICK found \in SUBSET Mapping : inv' = [inv EXCEPT !.detaches = found]
    BY <1>4 DEF ListMappings
  <2> QED
    BY <1>4, <2>1 DEF ListMappings, Looks
<1>5. CASE CheckState
  BY <1>5 DEF CheckState, Goes, Stops, Looks
<1>6. CASE AuthorizeAdapters
  BY <1>6 DEF AuthorizeAdapters, Goes, Stops, Looks
<1>7. CASE Refresh
  BY <1>7 DEF Refresh, Goes, Stops, Looks
<1>8. CASE Submit
  BY <1>8 DEF Submit, Goes, Stops
<1>9. CASE Await
  BY <1>9 DEF Await, Passes, Stops, Looks
<1>10. CASE GetMappings
  BY <1>10 DEF GetMappings, Passes, Goes, Stops
<1>11. CASE PostMappings
  BY <1>11 DEF PostMappings, Writes, Goes, Stops
<1>12. CASE Unplug
  BY <1>12 DEF Unplug, Passes, Goes, Stops
<1>13. CASE DeleteLpar
  BY <1>13 DEF DeleteLpar, Stops
<1>14. CASE Restamp
  BY <1>14 DEF Restamp, Others, OwnerPhase
<1>15. CASE Activate
  BY <1>15 DEF Activate, Others, PowerPhase
<1>16. CASE Replug
  BY <1>16 DEF Replug, Others
<1>17. CASE Remap
  BY <1>17 DEF Remap, Others
<1>18. CASE Vanish
  BY <1>18 DEF Vanish, Others
<1>19. CASE Rename
  BY <1>19 DEF Rename, Turn
<1>20. CASE JobEnds
  BY <1>20 DEF JobEnds
<1> QED
  BY <1>1, <1>2, <1>3, <1>4, <1>5, <1>6, <1>7, <1>8, <1>9, <1>10, <1>11, <1>12, <1>13,
     <1>14, <1>15, <1>16, <1>17, <1>18, <1>19, <1>20 DEF Next, Work

\* The variables of the HMC keep their types.
LEMMA HmcStep ==
  ASSUME TypeOK, Next PROVE HmcType'
<1> USE DEF call, hmc, history, TypeOK, CallType, HmcType, Stamps
<1>1. CASE Authorize
  BY <1>1 DEF Authorize, Goes, Raises, Looks
<1>2. CASE Snapshot
  BY <1>2 DEF Snapshot, Goes, Raises, Looks
<1>3. CASE ListAdapters
  BY <1>3 DEF ListAdapters, Goes, Raises, Looks
<1>4. CASE ListMappings
  BY <1>4 DEF ListMappings, Starts, Goes, Passes, Looks, Targets
<1>5. CASE CheckState
  BY <1>5 DEF CheckState, Goes, Stops, Looks
<1>6. CASE AuthorizeAdapters
  BY <1>6 DEF AuthorizeAdapters, Goes, Stops, Looks
<1>7. CASE Refresh
  BY <1>7 DEF Refresh, Goes, Stops, Looks
<1>8. CASE Submit
  BY <1>8 DEF Submit, Goes, Stops
<1>9. CASE Await
  BY <1>9 DEF Await, Passes, Stops, Looks
<1>10. CASE GetMappings
  BY <1>10 DEF GetMappings, Passes, Goes, Stops
<1>11. CASE PostMappings
  BY <1>11 DEF PostMappings, Writes, Goes, Stops
<1>12. CASE Unplug
  BY <1>12 DEF Unplug, Passes, Goes, Stops
<1>13. CASE DeleteLpar
  BY <1>13 DEF DeleteLpar, Stops
<1>14. CASE Restamp
  BY <1>14 DEF Restamp, Others, OwnerPhase
<1>15. CASE Activate
  BY <1>15 DEF Activate, Others, PowerPhase
<1>16. CASE Replug
  BY <1>16 DEF Replug, Others
<1>17. CASE Remap
  <2>1. \E m \in Mapping, c \in {"absent", "target", "other"} : client' = [client EXCEPT ![m] = c]
    BY <1>17 DEF Remap
  <2>2. client' \in [Mapping -> {"absent", "target", "other"}]
    BY <2>1
  <2>3. fresh' = FALSE /\ UNCHANGED <<power, exists, owner, bearer, adapters, job>>
    BY <1>17 DEF Remap
  <2> QED
    BY <2>2, <2>3
<1>18. CASE Vanish
  BY <1>18 DEF Vanish, Others
<1>19. CASE Rename
  BY <1>19 DEF Rename, Turn
<1>20. CASE JobEnds
  BY <1>20 DEF JobEnds
<1> QED
  BY <1>1, <1>2, <1>3, <1>4, <1>5, <1>6, <1>7, <1>8, <1>9, <1>10, <1>11, <1>12, <1>13,
     <1>14, <1>15, <1>16, <1>17, <1>18, <1>19, <1>20 DEF Next, Work

\* The history variables keep their types.
LEMMA HistoryStep ==
  ASSUME TypeOK, TodoInv, Next PROVE HistoryType'
<1> USE DEF call, hmc, history, TypeOK, HistoryType
<1>1. CASE Authorize
  BY <1>1 DEF Authorize, Goes, Raises, Looks
<1>2. CASE Snapshot
  BY <1>2 DEF Snapshot, Goes, Raises, Looks
<1>3. CASE ListAdapters
  BY <1>3 DEF ListAdapters, Goes, Raises, Looks
<1>4. CASE ListMappings
  BY <1>4 DEF ListMappings, Starts, Goes, Passes, Looks, Targets
<1>5. CASE CheckState
  BY <1>5 DEF CheckState, Goes, Stops, Looks
<1>6. CASE AuthorizeAdapters
  BY <1>6 DEF AuthorizeAdapters, Goes, Stops, Looks
<1>7. CASE Refresh
  BY <1>7 DEF Refresh, Goes, Stops, Looks
<1>8. CASE Submit
  BY <1>8 DEF Submit, Step
<1>9. CASE Await
  BY <1>9 DEF Await, Passes, Stops, Looks
<1>10. CASE GetMappings
  BY <1>10 DEF GetMappings, Passes, Goes, Stops
<1>11. CASE PostMappings
  <2>1. cur \in Mapping
    BY <1>11 DEF PostMappings, TodoInv, CallType
  <2>2. sent' = sent \cup {cur} /\ removed' \in {removed, removed \cup {cur}} /\ touched' = touched
    BY <1>11 DEF PostMappings, Writes
  <2>3. collateral' \subseteq collateral \cup Mapping
    BY <1>11 DEF PostMappings, Writes
  <2> QED
    BY <2>1, <2>2, <2>3
<1>12. CASE Unplug
  <2>1. todo \subseteq Adapter /\ UNCHANGED <<collateral, touched>>
    BY <1>12 DEF Unplug, TodoInv, CallType
  <2>2. sent' \subseteq sent \cup todo /\ removed' \subseteq removed \cup todo
    BY <1>12 DEF Unplug
  <2> QED
    BY <2>1, <2>2
<1>13. CASE DeleteLpar
  BY <1>13 DEF DeleteLpar, Step
<1>14. CASE Restamp
  BY <1>14 DEF Restamp, Others, OwnerPhase
<1>15. CASE Activate
  BY <1>15 DEF Activate, Others, PowerPhase
<1>16. CASE Replug
  BY <1>16 DEF Replug, Others
<1>17. CASE Remap
  BY <1>17 DEF Remap, Others
<1>18. CASE Vanish
  BY <1>18 DEF Vanish, Others
<1>19. CASE Rename
  BY <1>19 DEF Rename, Turn
<1>20. CASE JobEnds
  BY <1>20 DEF JobEnds
<1> QED
  BY <1>1, <1>2, <1>3, <1>4, <1>5, <1>6, <1>7, <1>8, <1>9, <1>10, <1>11, <1>12, <1>13,
     <1>14, <1>15, <1>16, <1>17, <1>18, <1>19, <1>20 DEF Next, Work

\* Phases and changes stay in their bounds.
LEMMA PhaseStep ==
  ASSUME TypeOK, Next PROVE PhaseType'
<1> USE DEF call, hmc, history, TypeOK, PhaseType
<1>1. CASE Authorize
  BY <1>1 DEF Authorize, Goes, Raises, Looks
<1>2. CASE Snapshot
  BY <1>2 DEF Snapshot, Goes, Raises, Looks
<1>3. CASE ListAdapters
  BY <1>3 DEF ListAdapters, Goes, Raises, Looks
<1>4. CASE ListMappings
  BY <1>4 DEF ListMappings, Starts, Goes, Passes, Looks, Targets
<1>5. CASE CheckState
  BY <1>5 DEF CheckState, Goes, Stops, Looks
<1>6. CASE AuthorizeAdapters
  BY <1>6 DEF AuthorizeAdapters, Goes, Stops, Looks
<1>7. CASE Refresh
  BY <1>7 DEF Refresh, Goes, Stops, Looks
<1>8. CASE Submit
  BY <1>8 DEF Submit, Goes, Stops
<1>9. CASE Await
  BY <1>9 DEF Await, Passes, Stops, Looks
<1>10. CASE GetMappings
  BY <1>10 DEF GetMappings, Passes, Goes, Stops
<1>11. CASE PostMappings
  BY <1>11 DEF PostMappings, Writes, Goes, Stops
<1>12. CASE Unplug
  BY <1>12 DEF Unplug, Passes, Goes, Stops
<1>13. CASE DeleteLpar
  BY <1>13 DEF DeleteLpar, Stops
<1>14. CASE Restamp
  <2>1. turns' \in 0..Turns
    BY <1>14, TurnsType DEF Restamp, Others
  <2>2. OwnerPhase \in {0, 1, 2, 3}
    BY OwnerPhaseType DEF ResultType
  <2>3. seized' \in {Never, seized, OwnerPhase} /\ woken' = woken /\ bore' = bore
    BY <1>14 DEF Restamp
  <2> QED
    BY <2>1, <2>2, <2>3
<1>15. CASE Activate
  <2>1. turns' \in 0..Turns
    BY <1>15, TurnsType DEF Activate, Others
  <2>2. woken' = PowerPhase /\ seized' = seized /\ bore' = bore
    BY <1>15 DEF Activate
  <2> QED
    BY <2>1, <2>2, PowerPhaseType
<1>16. CASE Replug
  <2>1. turns' \in 0..Turns
    BY <1>16, TurnsType DEF Replug, Others
  <2> QED
    BY <1>16, <2>1 DEF Replug
<1>17. CASE Remap
  <2>1. turns' \in 0..Turns
    BY <1>17, TurnsType DEF Remap, Others
  <2> QED
    BY <1>17, <2>1 DEF Remap
<1>18. CASE Vanish
  <2>1. turns' \in 0..Turns
    BY <1>18, TurnsType DEF Vanish, Others
  <2> QED
    BY <1>18, <2>1 DEF Vanish
<1>19. CASE Rename
  <2>1. turns' \in 0..Turns
    BY <1>19, TurnsType DEF Rename
  <2> QED
    BY <1>19, <2>1 DEF Rename
<1>20. CASE JobEnds
  BY <1>20 DEF JobEnds
<1> QED
  BY <1>1, <1>2, <1>3, <1>4, <1>5, <1>6, <1>7, <1>8, <1>9, <1>10, <1>11, <1>12, <1>13,
     <1>14, <1>15, <1>16, <1>17, <1>18, <1>19, <1>20 DEF Next, Work

\* The statuses before a call has ended say nothing but success.
LEMMA OkSteps ==
  ASSUME ResultType, NEW s \in Step, \A t \in Step : steps[t] \in {"none", "ok"},
         steps' = [steps EXCEPT ![s] = "ok"]
  PROVE  \A t \in Step : steps'[t] \in {"none", "ok"}
BY DEF ResultType

\* Nothing is sent out of turn or left unrecorded.
LEMMA SentStep ==
  ASSUME TypeOK, SentInv, TodoInv, Next PROVE SentInv'
<1> USE DEF call, hmc, history, TypeOK, ResultType, CallType, HistoryType, SentInv, Step, Inventory, PowerOff, Detach
<1>1. CASE Authorize
  BY <1>1 DEF Authorize, Goes, Raises, Looks
<1>2. CASE Snapshot
  BY <1>2 DEF Snapshot, Goes, Raises, Looks
<1>3. CASE ListAdapters
  BY <1>3 DEF ListAdapters, Goes, Raises, Looks
<1>4. CASE ListMappings
  <2>1. sent' = {} /\ UNCHANGED <<detached, failed, unplugged, removed>>
    BY <1>4 DEF ListMappings, Looks
  <2>2. CASE pc' = "done" /\ ending' # "none"
    BY <2>1, <2>2, <1>4 DEF ListMappings
  <2>3. CASE /\ pc' = "authorize_mappings" /\ ending' = ending
             /\ steps' = [steps EXCEPT !["power_off"] = "ok"]
    <3>1. \A t \in Step : steps'[t] \in {"none", "ok"}
      BY <1>4, <2>3, OkSteps DEF ListMappings
    <3> QED
      BY <2>1, <2>3, <3>1, <1>4 DEF ListMappings
  <2>4. CASE pc' = "authorize_power" /\ UNCHANGED <<steps, ending>>
    BY <2>1, <2>4, <1>4 DEF ListMappings
  <2> QED
    BY <1>4, <2>2, <2>3, <2>4 DEF ListMappings, Starts, Passes, Goes
<1>5. CASE CheckState
  BY <1>5 DEF CheckState, Goes, Stops, Looks
<1>6. CASE AuthorizeAdapters
  BY <1>6 DEF AuthorizeAdapters, Goes, Stops, Looks
<1>7. CASE Refresh
  BY <1>7 DEF Refresh, Goes, Stops, Looks
<1>8. CASE Submit
  <2>1. sent' = {"power_off"} /\ "power_off" \notin Mapping
    BY <1>8, NamesApart DEF Submit
  <2>2. UNCHANGED <<detached, failed, unplugged, removed>>
    BY <1>8 DEF Submit
  <2>3. \/ pc' = "await" /\ UNCHANGED <<steps, ending>>
        \/ pc' = "done" /\ ending' = "incomplete"
    BY <1>8 DEF Submit, Goes, Stops
  <2>4. pc = "submit"
    BY <1>8 DEF Submit
  <2> QED
    BY <2>1, <2>2, <2>3, <2>4
<1>9. CASE Await
  BY <1>9 DEF Await, Passes, Stops, Looks
<1>10. CASE GetMappings
  <2>1. pc = "get" /\ UNCHANGED <<sent, detached, unplugged, removed>>
    BY <1>10 DEF GetMappings
  <2>2. CASE pc' = "done" /\ ending' # "none"
    BY <2>1, <2>2, <1>10 DEF GetMappings
  <2>3. CASE /\ pc' = "check_adapters" /\ UNCHANGED <<ending, failed>>
             /\ steps' = [steps EXCEPT !["detach_storage_mappings"] = "ok"]
    <3>1. \A t \in Step : steps'[t] \in {"none", "ok"}
      BY <2>1, <2>3, OkSteps
    <3> QED
      BY <2>1, <2>3, <3>1
  <2>4. CASE pc' = "post" /\ UNCHANGED <<steps, ending, failed>>
    BY <2>1, <2>4
  <2> QED
    BY <1>10, <2>2, <2>3, <2>4 DEF GetMappings, Passes, Goes, Stops
<1>11. CASE PostMappings
  <2>1. sent' = sent \cup {cur} /\ sent \subseteq Mapping \cup {"power_off"} /\ UNCHANGED unplugged
    BY <1>11 DEF PostMappings
  <2>2. removed \subseteq removed' /\ detached \subseteq detached' /\ detached' \subseteq removed'
    BY <1>11 DEF PostMappings, Writes
  <2>3. \/ /\ pc' = "get" /\ UNCHANGED <<steps, ending, failed>>
           /\ detached' = detached \cup {cur}
        \/ /\ pc' = "done" /\ ending' = "incomplete"
           /\ failed' = {cur}
    BY <1>11 DEF PostMappings, Goes, Stops
  <2>4. pc = "post" /\ cur \in Mapping
    BY <1>11 DEF PostMappings, TodoInv
  <2> QED
    BY <2>1, <2>2, <2>3, <2>4
<1>12. CASE Unplug
  <2>1. CASE todo = {}
    <3>1. /\ pc = "unplug" /\ pc' = "delete"
          /\ UNCHANGED <<sent, detached, failed, unplugged, removed, ending>>
      BY <1>12, <2>1 DEF Unplug, Passes
    <3>2. steps' = [steps EXCEPT !["detach_adapters"] = "ok"]
      BY <1>12, <2>1 DEF Unplug, Passes
    <3>3. \A t \in Step : steps'[t] \in {"none", "ok"}
      BY <3>1, <3>2, OkSteps
    <3> QED
      BY <3>1, <3>3
  <2>2. CASE todo # {}
    <3>1. PICK a \in todo : sent' = sent \cup {a}
      BY <1>12, <2>2 DEF Unplug
    <3>2. a \in Adapter /\ a \notin Mapping
      BY <1>12, NamesApart DEF Unplug, TodoInv
    <3>3. UNCHANGED <<detached, failed>> /\ pc = "unplug"
      BY <1>12 DEF Unplug
    <3>4. removed \subseteq removed' /\ unplugged' \subseteq removed'
      BY <1>12, <2>2 DEF Unplug
    <3>5. \/ pc' = "unplug" /\ UNCHANGED <<steps, ending>>
          \/ pc' = "done" /\ ending' = "incomplete"
      BY <1>12, <2>2 DEF Unplug, Goes, Stops
    <3> QED
      BY <3>1, <3>2, <3>3, <3>4, <3>5
  <2> QED
    BY <2>1, <2>2
<1>13. CASE DeleteLpar
  <2>1. pc = "delete" /\ pc' = "done" /\ ending' # "none"
    BY <1>13 DEF DeleteLpar, Stops
  <2>2. UNCHANGED <<detached, unplugged, failed, removed>>
    BY <1>13 DEF DeleteLpar
  <2>3. sent' = sent \cup {"delete_lpar"} /\ "delete_lpar" \notin Mapping
    BY <1>13, NamesApart DEF DeleteLpar
  <2> QED
    BY <2>1, <2>2, <2>3
<1>14. CASE Restamp
  BY <1>14 DEF Restamp, Others, OwnerPhase
<1>15. CASE Activate
  BY <1>15 DEF Activate, Others, PowerPhase
<1>16. CASE Replug
  BY <1>16 DEF Replug, Others
<1>17. CASE Remap
  BY <1>17 DEF Remap, Others
<1>18. CASE Vanish
  BY <1>18 DEF Vanish, Others
<1>19. CASE Rename
  BY <1>19 DEF Rename, Turn
<1>20. CASE JobEnds
  BY <1>20 DEF JobEnds
<1> QED
  BY <1>1, <1>2, <1>3, <1>4, <1>5, <1>6, <1>7, <1>8, <1>9, <1>10, <1>11, <1>12, <1>13,
     <1>14, <1>15, <1>16, <1>17, <1>18, <1>19, <1>20 DEF Next, Work

\* No write leaves the inventory or changes another mapping.
LEMMA TodoStep ==
  ASSUME TypeOK, SentInv, TodoInv, Next PROVE TodoInv'
<1> USE DEF call, hmc, history, TodoInv, OnlyInventoried
<1>1. CASE Authorize
  BY <1>1 DEF Authorize, Goes, Raises, Looks
<1>2. CASE Snapshot
  <2>1. inv'.adapters = inv.adapters /\ inv'.detaches = inv.detaches
    BY <1>2 DEF Snapshot, TypeOK, CallType
  <2>2. pc' \notin {"get", "post", "unplug"} /\ UNCHANGED <<collateral, sent>>
    BY <1>2 DEF Snapshot, Goes, Raises, Looks
  <2> QED
    BY <2>1, <2>2
<1>3. CASE ListAdapters
  <2>1. sent = {} /\ pc' \notin {"get", "post", "unplug"}
    BY <1>3 DEF ListAdapters, Goes, Raises, SentInv, Inventory
  <2> QED
    BY <1>3, <2>1 DEF ListAdapters, Looks
<1>4. CASE ListMappings
  <2>1. sent = {} /\ pc' \notin {"get", "post", "unplug"}
    BY <1>4 DEF ListMappings, Starts, Passes, Goes, SentInv, Inventory
  <2> QED
    BY <1>4, <2>1 DEF ListMappings, Looks
<1>5. CASE CheckState
  BY <1>5 DEF CheckState, Goes, Stops, Looks
<1>6. CASE AuthorizeAdapters
  BY <1>6 DEF AuthorizeAdapters, Goes, Stops, Looks
<1>7. CASE Refresh
  BY <1>7 DEF Refresh, Goes, Stops, Looks
<1>8. CASE Submit
  <2>1. pc' \in {"await", "done"} /\ UNCHANGED <<inv, collateral>> /\ sent' = sent \cup {"power_off"}
    BY <1>8 DEF Submit, Goes, Stops
  <2> QED
    BY <2>1 DEF Step
<1>9. CASE Await
  BY <1>9 DEF Await, Passes, Stops, Looks
<1>10. CASE GetMappings
  <2>1. UNCHANGED <<inv, collateral, sent>> /\ pc = "get"
    BY <1>10 DEF GetMappings
  <2>2. \/ pc' \notin {"get", "post", "unplug"}
        \/ /\ pc' = "post" /\ cur' \in todo /\ todo' \subseteq todo
           /\ view' = client' /\ fresh' = TRUE
    BY <1>10 DEF GetMappings, Passes, Goes, Stops
  <2> QED
    BY <2>1, <2>2
<1>11. CASE PostMappings
  <2>1. pc = "post" /\ pc' \in {"get", "done"} /\ UNCHANGED <<inv, todo>> /\ sent' = sent \cup {cur}
    BY <1>11 DEF PostMappings, Goes, Stops
  <2>2. collateral' \in {collateral, collateral \cup {m \in Mapping \ {cur} : view[m] # client[m]}}
        /\ (collateral' # collateral => fresh)
    BY <1>11 DEF PostMappings, Writes
  <2>3. collateral' = {}
    BY <2>1, <2>2
  <2> QED
    BY <2>1, <2>3
<1>12. CASE Unplug
  <2>1. sent' \subseteq sent \cup todo /\ todo' \subseteq todo
    BY <1>12 DEF Unplug
  <2>2. pc = "unplug" /\ pc' \in {"unplug", "delete", "done"} /\ UNCHANGED <<inv, collateral>>
    BY <1>12 DEF Unplug, Passes, Goes, Stops
  <2> QED
    BY <2>1, <2>2
<1>13. CASE DeleteLpar
  <2>1. pc' = "done" /\ UNCHANGED <<inv, collateral>> /\ sent' = sent \cup {"delete_lpar"}
    BY <1>13 DEF DeleteLpar, Stops
  <2> QED
    BY <2>1 DEF Step
<1>14. CASE Restamp
  BY <1>14 DEF Restamp, Others, OwnerPhase
<1>15. CASE Activate
  BY <1>15 DEF Activate, Others, PowerPhase
<1>16. CASE Replug
  BY <1>16 DEF Replug, Others
<1>17. CASE Remap
  <2>1. UNCHANGED <<pc, inv, todo, cur, collateral, sent>> /\ fresh' = FALSE
    BY <1>17 DEF Remap
  <2> QED
    BY <2>1
<1>18. CASE Vanish
  BY <1>18 DEF Vanish, Others
<1>19. CASE Rename
  BY <1>19 DEF Rename, Turn
<1>20. CASE JobEnds
  BY <1>20 DEF JobEnds
<1> QED
  BY <1>1, <1>2, <1>3, <1>4, <1>5, <1>6, <1>7, <1>8, <1>9, <1>10, <1>11, <1>12, <1>13,
     <1>14, <1>15, <1>16, <1>17, <1>18, <1>19, <1>20 DEF Next, Work

\* What is left is still to be removed or another agent's.
LEMMA BareStep ==
  ASSUME TypeOK, TodoInv, BareInv, Next PROVE BareInv'
<1> USE DEF call, hmc, history, TypeOK, CallType, HmcType, TodoInv, BareInv, Targets, Inventory, PowerOff, Detach
<1>1. CASE Authorize
  BY <1>1 DEF Authorize, Goes, Raises, Looks
<1>2. CASE Snapshot
  BY <1>2 DEF Snapshot, Goes, Raises, Looks
<1>3. CASE ListAdapters
  BY <1>3 DEF ListAdapters, Goes, Raises, Looks
<1>4. CASE ListMappings
  <2>1. pc = "list_mappings" /\ UNCHANGED <<client, adapters, touched>> /\ inv'.adapters = inv.adapters
    BY <1>4 DEF ListMappings, Looks
  <2>2. \/ pc' = "done"
        \/ pc' \in {"authorize_mappings", "authorize_power"} /\ inv'.detaches = Targets
    BY <1>4 DEF ListMappings, Starts, Passes, Goes
  <2> QED
    BY <2>1, <2>2
<1>5. CASE CheckState
  BY <1>5 DEF CheckState, Goes, Stops, Looks
<1>6. CASE AuthorizeAdapters
  BY <1>6 DEF AuthorizeAdapters, Goes, Stops, Looks
<1>7. CASE Refresh
  BY <1>7 DEF Refresh, Goes, Stops, Looks
<1>8. CASE Submit
  BY <1>8 DEF Submit, Goes, Stops
<1>9. CASE Await
  BY <1>9 DEF Await, Passes, Stops, Looks
<1>10. CASE GetMappings
  BY <1>10 DEF GetMappings, Passes, Goes, Stops
<1>11. CASE PostMappings
  BY <1>11 DEF PostMappings, Writes, Goes, Stops
<1>12. CASE Unplug
  BY <1>12 DEF Unplug, Passes, Goes, Stops
<1>13. CASE DeleteLpar
  BY <1>13 DEF DeleteLpar, Stops
<1>14. CASE Restamp
  BY <1>14 DEF Restamp, Others, OwnerPhase
<1>15. CASE Activate
  BY <1>15 DEF Activate, Others, PowerPhase
<1>16. CASE Replug
  BY <1>16 DEF Replug, Others
<1>17. CASE Remap
  <2>1. UNCHANGED <<pc, inv, todo, cur, adapters>> /\ touched \subseteq touched'
    BY <1>17 DEF Remap
  <2>2. CASE pc \in {"authorize", "snapshot", "list_adapters", "list_mappings"}
    BY <2>1, <2>2
  <2>3. CASE pc \notin {"authorize", "snapshot", "list_adapters", "list_mappings"}
    <3>1. Targets' \subseteq Targets \cup touched'
      BY <1>17, <2>3 DEF Remap
    <3> HIDE DEF Targets
    <3> QED
      BY <2>1, <3>1
  <2> QED
    BY <2>2, <2>3
<1>18. CASE Vanish
  BY <1>18 DEF Vanish, Others
<1>19. CASE Rename
  BY <1>19 DEF Rename, Turn
<1>20. CASE JobEnds
  BY <1>20 DEF JobEnds
<1> QED
  BY <1>1, <1>2, <1>3, <1>4, <1>5, <1>6, <1>7, <1>8, <1>9, <1>10, <1>11, <1>12, <1>13,
     <1>14, <1>15, <1>16, <1>17, <1>18, <1>19, <1>20 DEF Next, Work

\* No phase passes its authorization with a foreign stamp from before.
LEMMA SeizedStep ==
  ASSUME TypeOK, SeizedInv, Next PROVE SeizedInv'
<1> USE DEF call, hmc, history, SeizedInv
<1>1. CASE Authorize
  <2>1. UNCHANGED <<owner, seized, override>>
    BY <1>1 DEF Authorize, Looks
  <2>2. \/ pc' = "done"
        \/ /\ ~override /\ bore' => seized = Never
           /\ pc' \in {"snapshot", "submit", "check_mappings"}
    BY <1>1 DEF Authorize, Authorized, Description, Goes, Raises
  <2> QED
    BY <2>1, <2>2, NeverIsLate
<1>2. CASE Snapshot
  BY <1>2 DEF Snapshot, Goes, Raises, Looks
<1>3. CASE ListAdapters
  BY <1>3 DEF ListAdapters, Goes, Raises, Looks
<1>4. CASE ListMappings
  BY <1>4 DEF ListMappings, Starts, Goes, Passes, Looks, Targets
<1>5. CASE CheckState
  BY <1>5 DEF CheckState, Goes, Stops, Looks
<1>6. CASE AuthorizeAdapters
  <2>1. UNCHANGED <<owner, seized, override>>
    BY <1>6 DEF AuthorizeAdapters, Looks
  <2>2. \/ pc' = "done"
        \/ pc' = "refresh" /\ (~override /\ bore' => seized = Never)
    BY <1>6 DEF AuthorizeAdapters, Authorized, Description, Goes, Stops
  <2> QED
    BY <2>1, <2>2, NeverIsLate
<1>7. CASE Refresh
  BY <1>7 DEF Refresh, Goes, Stops, Looks
<1>8. CASE Submit
  BY <1>8 DEF Submit, Goes, Stops
<1>9. CASE Await
  BY <1>9 DEF Await, Passes, Stops, Looks
<1>10. CASE GetMappings
  BY <1>10 DEF GetMappings, Passes, Goes, Stops
<1>11. CASE PostMappings
  BY <1>11 DEF PostMappings, Writes, Goes, Stops
<1>12. CASE Unplug
  BY <1>12 DEF Unplug, Passes, Goes, Stops
<1>13. CASE DeleteLpar
  BY <1>13 DEF DeleteLpar, Stops
<1>14. CASE Restamp
  <2>1. pc \in PCs /\ UNCHANGED <<pc, override>>
    BY <1>14 DEF Restamp, TypeOK, ResultType
  <2>2. CASE owner' \in {"mine", "unstamped"}
    BY <1>14, <2>2, NeverIsLate DEF Restamp
  <2>3. CASE owner' \notin {"mine", "unstamped"} /\ seized # Never
    BY <1>14, <2>1, <2>3 DEF Restamp
  <2>4. CASE owner' \notin {"mine", "unstamped"} /\ seized = Never
    <3>1. seized' = OwnerPhase /\ OwnerPhase # Never
      BY <1>14, <2>1, <2>4, OwnerPhaseType, NeverIsLate DEF Restamp
    <3> QED
      BY <2>1, <2>4, <3>1, OwnerPhases
  <2> QED
    BY <2>2, <2>3, <2>4
<1>15. CASE Activate
  BY <1>15 DEF Activate, Others, PowerPhase
<1>16. CASE Replug
  BY <1>16 DEF Replug, Others
<1>17. CASE Remap
  BY <1>17 DEF Remap, Others
<1>18. CASE Vanish
  BY <1>18 DEF Vanish, Others
<1>19. CASE Rename
  BY <1>19 DEF Rename, Turn
<1>20. CASE JobEnds
  BY <1>20 DEF JobEnds
<1> QED
  BY <1>1, <1>2, <1>3, <1>4, <1>5, <1>6, <1>7, <1>8, <1>9, <1>10, <1>11, <1>12, <1>13,
     <1>14, <1>15, <1>16, <1>17, <1>18, <1>19, <1>20 DEF Next, Work

\* No phase passes its state check with an activation from before.
LEMMA WokenStep ==
  ASSUME TypeOK, WokenInv, Next PROVE WokenInv'
<1> USE DEF call, hmc, history, WokenInv
<1>1. CASE Authorize
  BY <1>1 DEF Authorize, Goes, Raises, Looks
<1>2. CASE Snapshot
  BY <1>2 DEF Snapshot, Goes, Raises, Looks
<1>3. CASE ListAdapters
  BY <1>3 DEF ListAdapters, Goes, Raises, Looks
<1>4. CASE ListMappings
  BY <1>4 DEF ListMappings, Starts, Goes, Passes, Looks, Targets
<1>5. CASE CheckState
  <2>1. UNCHANGED <<power, woken>>
    BY <1>5 DEF CheckState, Looks
  <2>2. \/ power = "not activated" /\ pc' \in {"get", "authorize_adapters"}
        \/ pc' = "done"
    BY <1>5 DEF CheckState, Goes, Stops
  <2> QED
    BY <2>1, <2>2, NeverIsLate
<1>6. CASE AuthorizeAdapters
  BY <1>6 DEF AuthorizeAdapters, Goes, Stops, Looks
<1>7. CASE Refresh
  BY <1>7 DEF Refresh, Goes, Stops, Looks
<1>8. CASE Submit
  BY <1>8 DEF Submit, Goes, Stops
<1>9. CASE Await
  BY <1>9 DEF Await, Passes, Stops, Looks
<1>10. CASE GetMappings
  BY <1>10 DEF GetMappings, Passes, Goes, Stops
<1>11. CASE PostMappings
  BY <1>11 DEF PostMappings, Writes, Goes, Stops
<1>12. CASE Unplug
  BY <1>12 DEF Unplug, Passes, Goes, Stops
<1>13. CASE DeleteLpar
  BY <1>13 DEF DeleteLpar, Stops
<1>14. CASE Restamp
  BY <1>14 DEF Restamp, Others, OwnerPhase
<1>15. CASE Activate
  <2>1. woken' = PowerPhase /\ power' # "not activated" /\ UNCHANGED pc /\ PowerPhase # Never
    BY <1>15, PowerPhaseType, NeverIsLate DEF Activate
  <2> QED
    BY <2>1, PowerPhases
<1>16. CASE Replug
  BY <1>16 DEF Replug, Others
<1>17. CASE Remap
  BY <1>17 DEF Remap, Others
<1>18. CASE Vanish
  BY <1>18 DEF Vanish, Others
<1>19. CASE Rename
  BY <1>19 DEF Rename, Turn
<1>20. CASE JobEnds
  <2>1. CASE power' = "not activated" /\ woken' = Never
    BY <2>1, NeverIsLate
  <2>2. CASE UNCHANGED <<power, woken>>
    BY <1>20, <2>2 DEF JobEnds
  <2> QED
    BY <1>20, <2>1, <2>2 DEF JobEnds
<1> QED
  BY <1>1, <1>2, <1>3, <1>4, <1>5, <1>6, <1>7, <1>8, <1>9, <1>10, <1>11, <1>12, <1>13,
     <1>14, <1>15, <1>16, <1>17, <1>18, <1>19, <1>20 DEF Next, Work

-----------------------------------------------------------------------------
(* What a call reports when it ends.                                         *)

\* What may have been sent when step s fails.
Before(s) ==
  CASE s = "power_off" -> {"power_off"}
    [] s = "detach_storage_mappings" -> Mapping \cup {"power_off"}
    [] s = "detach_adapters" -> Mapping \cup Adapter \cup {"power_off"}
    [] s = "delete_lpar" -> Mapping \cup Adapter \cup Step

\* The steps are told apart and worked off in this order.
LEMMA Ranks ==
  /\ Rank["power_off"] < Rank["detach_storage_mappings"]
  /\ Rank["power_off"] < Rank["detach_adapters"] /\ Rank["power_off"] < Rank["delete_lpar"]
  /\ Rank["detach_storage_mappings"] < Rank["detach_adapters"]
  /\ Rank["detach_storage_mappings"] < Rank["delete_lpar"]
  /\ Rank["detach_adapters"] < Rank["delete_lpar"]
BY DEF Rank

\* A step that is reported skipped comes after the one that failed and sent nothing.
LEMMA SkippedLater ==
  ASSUME NEW s \in Step, \A t \in Step : steps[t] \in {"none", "ok"}, Stops(s),
         sent' \subseteq Before(s)
  PROVE  \A t \in Step : steps'[t] \in {"skipped", "dry_run"} => ~Attempted(t)'
<1> SUFFICES ASSUME NEW t \in Step, steps'[t] \in {"skipped", "dry_run"}
             PROVE  ~Attempted(t)'
  OBVIOUS
<1>1. t # s /\ ~(Rank[t] < Rank[s])
  BY DEF Stops
<1>2. CASE s = "power_off"
  <2>1. sent' \subseteq {"power_off"} /\ t # "power_off"
    BY <1>1, <1>2 DEF Before
  <2> QED
    BY <2>1, NamesApart DEF Attempted, Step
<1>3. CASE s = "detach_storage_mappings"
  <2>1. sent' \subseteq Mapping \cup {"power_off"} /\ t \in {"detach_adapters", "delete_lpar"}
    BY <1>1, <1>3, Ranks DEF Before, Step
  <2> QED
    BY <2>1, NamesApart DEF Attempted, Step
<1>4. CASE s = "detach_adapters"
  <2>1. sent' \subseteq Mapping \cup Adapter \cup {"power_off"} /\ t = "delete_lpar"
    BY <1>1, <1>4, Ranks DEF Before, Step
  <2> QED
    BY <2>1, NamesApart DEF Attempted, Step
<1>5. CASE s = "delete_lpar"
  BY <1>1, <1>5, Ranks DEF Step
<1> QED
  BY <1>2, <1>3, <1>4, <1>5 DEF Step

\* What the result says of the mappings and adapters is what was done to them.
LEMMA Reported ==
  ASSUME CallType', SentInv',
         \A t \in Step : steps'[t] \in {"skipped", "dry_run"} => ~Attempted(t)'
  PROVE  Truthful'
<1>1. detached' \subseteq removed' /\ unplugged' \subseteq removed'
      /\ sent' \cap Mapping \subseteq detached' \cup failed'
  BY DEF SentInv
<1>2. inv'.detaches \subseteq Mapping
  BY DEF CallType
<1>3. ASSUME NEW m \in inv'.detaches
      PROVE  /\ Disposition(m)' = "detached" => m \in removed'
             /\ Disposition(m)' \in {"retained", "planned detach"} => m \notin sent'
  <2>1. CASE m \in detached'
    BY <1>1, <2>1 DEF Disposition
  <2>2. CASE m \notin detached' /\ m \in failed'
    BY <2>2 DEF Disposition
  <2>3. CASE m \notin detached' /\ m \notin failed'
    <3>1. Disposition(m)' # "detached"
      BY <2>3 DEF Disposition
    <3> QED
      BY <1>1, <1>2, <2>3, <3>1
  <2> QED
    BY <2>1, <2>2, <2>3
<1> QED
  BY <1>1, <1>3 DEF Truthful

\* Whatever ends the call, its report is true.
LEMMA TruthStep ==
  ASSUME TypeOK, SentInv, TodoInv, Truthful, Next, TypeOK', SentInv' PROVE Truthful'
<1> USE DEF call, hmc, history
<1> DEFINE Honest == \A t \in Step : steps'[t] \in {"skipped", "dry_run"} => ~Attempted(t)'
<1>1. Honest => Truthful'
  BY Reported DEF TypeOK
<1>2. ASSUME NEW s \in Step, pc # "done", Stops(s), sent' \subseteq Before(s)
      PROVE  Truthful'
  BY <1>1, <1>2, SkippedLater DEF SentInv
<1>3. CASE pc' # "done"
  BY <1>3 DEF Truthful, SentInv
<1>4. CASE pc' = "done" /\ (Authorize \/ Snapshot \/ ListAdapters)
  <2>1. ending' = "raised"
    BY <1>4 DEF Authorize, Snapshot, ListAdapters, Goes, Raises
  <2> QED
    BY <2>1 DEF Truthful
<1>5. CASE pc' = "done" /\ ListMappings
  <2>1. sent' = {}
    BY <1>5 DEF ListMappings, Looks, SentInv, Inventory
  <2>2. steps' \in [Step -> {"dry_run"}] \/ steps' \in [Step -> {"error", "skipped"}]
    BY <1>5 DEF ListMappings, Starts, Passes, Goes
  <2>3. Honest
    BY <2>1 DEF Attempted, Step
  <2> QED
    BY <1>1, <2>3
<1>6. CASE pc' = "done" /\ CheckState
  <2>1. PICK s \in {"detach_storage_mappings", "detach_adapters"} :
          Stops(s) /\ (s = "detach_storage_mappings" => pc = "check_mappings")
    BY <1>6 DEF CheckState, Goes
  <2>2. sent' = sent /\ pc \in {"check_mappings", "check_adapters"}
    BY <1>6 DEF CheckState, Looks
  <2>3. sent' \subseteq Before(s)
    BY <2>1, <2>2 DEF SentInv, Before, PowerOff, Detach
  <2> QED
    BY <1>2, <2>1, <2>2, <2>3 DEF Step
<1>7. CASE pc' = "done" /\ (AuthorizeAdapters \/ Refresh)
  <2>1. Stops("detach_adapters") /\ sent' = sent /\ pc \in {"authorize_adapters", "refresh"}
    BY <1>7 DEF AuthorizeAdapters, Refresh, Goes, Looks
  <2>2. sent' \subseteq Before("detach_adapters")
    BY <2>1 DEF SentInv, Before, Detach
  <2> QED
    BY <1>2, <2>1, <2>2 DEF Step
<1>8. CASE pc' = "done" /\ (Submit \/ Await)
  <2>1. Stops("power_off") /\ sent' \subseteq sent \cup {"power_off"} /\ pc \in {"submit", "await"}
    BY <1>8 DEF Submit, Await, Goes, Passes, Looks
  <2>2. sent' \subseteq Before("power_off")
    BY <2>1 DEF SentInv, Before, PowerOff
  <2> QED
    BY <1>2, <2>1, <2>2 DEF Step
<1>9. CASE pc' = "done" /\ (GetMappings \/ PostMappings)
  <2>1. Stops("detach_storage_mappings") /\ pc \in {"get", "post"}
    BY <1>9 DEF GetMappings, PostMappings, Goes, Passes
  <2>2. sent' \subseteq sent \cup Mapping
    BY <1>9 DEF GetMappings, PostMappings, TodoInv, TypeOK, CallType
  <2>3. sent' \subseteq Before("detach_storage_mappings")
    BY <2>1, <2>2 DEF SentInv, Before
  <2> QED
    BY <1>2, <2>1, <2>3 DEF Step
<1>10. CASE pc' = "done" /\ Unplug
  <2>1. Stops("detach_adapters") /\ pc = "unplug"
    BY <1>10 DEF Unplug, Goes, Passes
  <2>2. sent' \subseteq sent \cup Adapter
    BY <1>10 DEF Unplug, TodoInv, TypeOK, CallType
  <2>3. sent' \subseteq Before("detach_adapters")
    BY <2>1, <2>2 DEF SentInv, Before
  <2> QED
    BY <1>2, <2>1, <2>3 DEF Step
<1>11. CASE pc' = "done" /\ DeleteLpar
  <2>1. pc = "delete" /\ sent' = sent \cup {"delete_lpar"}
    BY <1>11 DEF DeleteLpar
  <2>2. CASE Stops("delete_lpar")
    <3>1. sent' \subseteq Before("delete_lpar")
      BY <2>1 DEF SentInv, Before, Step
    <3> QED
      BY <1>2, <2>1, <2>2, <3>1 DEF Step
  <2>3. CASE steps' = [steps EXCEPT !["delete_lpar"] = "ok"]
    <3>1. \A t \in Step : steps'[t] \in {"none", "ok"}
      BY <2>1, <2>3, OkSteps DEF SentInv, TypeOK, Step
    <3> QED
      BY <1>1, <3>1
  <2> QED
    BY <1>11, <2>2, <2>3 DEF DeleteLpar
<1>12. CASE JobEnds
  BY <1>12 DEF JobEnds, Truthful, Disposition, Attempted
<1>13. CASE pc' = "done" /\ (Restamp \/ Rename \/ Activate \/ Replug \/ Remap \/ Vanish)
  BY <1>13 DEF Restamp, Rename, Activate, Replug, Remap, Vanish, Others, Turn
<1> QED
  BY <1>3, <1>4, <1>5, <1>6, <1>7, <1>8, <1>9, <1>10, <1>11, <1>12, <1>13 DEF Next, Work

-----------------------------------------------------------------------------
(* The theorems.                                                             *)

\* Every step keeps the inductive invariant.
LEMMA Inductive == IInv /\ [Next]_vars => IInv'
<1> SUFFICES ASSUME IInv, [Next]_vars PROVE IInv'
  OBVIOUS
<1>1. CASE Next
  <2>1. TypeOK'
    BY <1>1, ResultStep, CallStep, HmcStep, HistoryStep, PhaseStep DEF IInv, TypeOK
  <2>2. SentInv' /\ TodoInv' /\ BareInv'
    BY <1>1, SentStep, TodoStep, BareStep DEF IInv
  <2>3. SeizedInv' /\ WokenInv'
    BY <1>1, SeizedStep, WokenStep DEF IInv
  <2>4. Truthful'
    BY <1>1, <2>1, <2>2, TruthStep DEF IInv
  <2> QED
    BY <2>1, <2>2, <2>3, <2>4 DEF IInv
<1>2. CASE UNCHANGED vars
  <2> USE <1>2 DEF IInv, vars, call, hmc, history
  <2>1. ResultType' /\ CallType'
    <3>1. ResultType'
      BY DEF TypeOK, ResultType
    <3>2. CallType'
      BY DEF TypeOK, CallType
    <3> QED
      BY <3>1, <3>2
  <2>2. HmcType' /\ HistoryType' /\ PhaseType'
    <3>1. HmcType'
      BY DEF TypeOK, HmcType
    <3>2. HistoryType' /\ PhaseType'
      BY DEF TypeOK, HistoryType, PhaseType
    <3> QED
      BY <3>1, <3>2
  <2>3. SentInv' /\ TodoInv'
    BY DEF SentInv, TodoInv, OnlyInventoried
  <2>4. BareInv'
    BY DEF BareInv, Targets
  <2>5. SeizedInv' /\ WokenInv'
    BY DEF SeizedInv, WokenInv
  <2>6. Truthful'
    BY DEF Truthful, Disposition, Attempted
  <2> QED
    BY <2>1, <2>2, <2>3, <2>4, <2>5, <2>6 DEF TypeOK
<1> QED
  BY <1>1, <1>2

\* The inductive invariant holds in every reachable state.
LEMMA Invariant == Spec => []IInv
<1> QED
  BY InitInv, Inductive, PTL DEF Spec

\* Every variable keeps its type, whatever the other agents do.
THEOREM TypeCorrect == Spec => []TypeOK
<1>1. IInv => TypeOK
  BY DEF IInv
<1> QED
  BY <1>1, Invariant, PTL

\* No write goes to a partition another agent stamped before the phase was authorized,
\* if it bore its name then.
THEOREM SeizureStops == Spec => []StopsWhenSeized
<1>1. IInv => StopsWhenSeized
  <2> SUFFICES ASSUME IInv, pc \in {"submit", "get", "post", "unplug", "delete"}, ~override, bore
               PROVE  seized >= OwnerPhase
    BY DEF StopsWhenSeized
  <2>1. CASE pc = "submit"
    BY <2>1 DEF IInv, SeizedInv, OwnerPhase
  <2>2. CASE pc \in {"get", "post"}
    BY <2>2 DEF IInv, SeizedInv, OwnerPhase
  <2>3. CASE pc \in {"unplug", "delete"}
    BY <2>3 DEF IInv, SeizedInv, OwnerPhase
  <2> QED
    BY <2>1, <2>2, <2>3
<1> QED
  BY <1>1, Invariant, PTL

\* Nothing is detached or deleted while the partition runs since before the last state check.
THEOREM WakingStops == Spec => []StopsWhenWoken
<1>1. IInv => StopsWhenWoken
  BY DEF IInv, WokenInv, StopsWhenWoken, PowerPhase
<1> QED
  BY <1>1, Invariant, PTL

\* A seizure before a phase looks at the partition under its name, or an activation before
\* its state check, stops the phase.
THEOREM PhasesStop == Spec => []StopsInTime
<1>1. StopsWhenSeized /\ StopsWhenWoken => StopsInTime
  BY DEF StopsInTime
<1> QED
  BY <1>1, SeizureStops, WakingStops, PTL

\* The writes name what the first inventory found and change nothing else.
THEOREM InventoryBounds == Spec => []OnlyInventoried
<1>1. IInv => OnlyInventoried
  BY DEF IInv, TodoInv
<1> QED
  BY <1>1, Invariant, PTL

\* The partition is deleted bare but for what another agent changed.
THEOREM DeletedBare == Spec => []BareWhenDeleted
<1>1. IInv => BareWhenDeleted
  BY DEF IInv, BareInv, BareWhenDeleted
<1> QED
  BY <1>1, Invariant, PTL

\* The report of a call tells what was done.
THEOREM ReportTrue == Spec => []Truthful
<1>1. IInv => Truthful
  BY DEF IInv
<1> QED
  BY <1>1, Invariant, PTL

=============================================================================
