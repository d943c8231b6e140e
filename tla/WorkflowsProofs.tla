---------------------------- MODULE WorkflowsProofs ----------------------------
(* Proofs about the components that MCWorkflows puts side by side.               *)
EXTENDS MCWorkflows, DecommissionProofs, Sequences, FiniteSetTheorems, TLAPS

-----------------------------------------------------------------------------
(* Changes to slots, ports and vNICs (PcieChange).                           *)

\* A call that has not ended has told nothing yet.
Silent == \A c \in User : changePc[c] # "idle" => changed[c] = "none"

\* While nobody else edits a profile, it lists a slot as the last command of a call left it.
WroteIsThere ==
  "slots" \notin meddled =>
    \A c \in wrote :
      /\ change[c].op \in Pcie!Dedicated
      /\ io[change[c].lpar][change[c].thing] =
           IF change[c].op = "assign_dedicated_pcie_slot" THEN "written" ELSE "absent"

HeldOnce == "slots" \notin meddled => \A c, d \in User : c # d => ~Pcie!BothHold(c, d)

\* A call whose add was carried out and answered, and that has still to read it back.
Sent(c) == changePc[c] = "read" /\ c \notin unanswered /\ change[c].op = "add_vnic"
Adds(c) == Sent(c) \/ Pcie!Told(c, "add_vnic")

\* While no vNIC is removed, a partition has one after an add, and more than one while
\* another add of it has still to be read back.
AddsShow ==
  "vnics" \notin meddled =>
    \A c \in User : Adds(c) =>
      /\ vnics[change[c].lpar] # {}
      /\ \A d \in User \ {c} : Sent(d) /\ change[d].lpar = change[c].lpar =>
           \A v : vnics[change[c].lpar] # {v}

AddedOnce ==
  "vnics" \notin meddled =>
    \A c, d \in User : c # d /\ change[c].lpar = change[d].lpar =>
      ~(Pcie!Told(c, "add_vnic") /\ Pcie!Told(d, "add_vnic"))

\* Whoever runs, or has a command that is still to run, has asked for something.
Asking == \A c \in User : c \in late \/ changePc[c] # "idle" => change[c] \in Pcie!Request

PcieInv == Pcie!PcieTypeOK /\ Asking /\ Silent /\ WroteIsThere /\ HeldOnce /\ AddsShow /\ AddedOnce

LEMMA PcieStarts == ASSUME Pcie!Init, Pcie!PcieAssumption PROVE PcieInv
<1> USE DEF Pcie!Init
<1>1. Pcie!PcieTypeOK
  <2>1. Pcie!NoView \in [io : [Things -> Pcie!Forms], owner : Lpar \cup {"none"},
                         ports : SUBSET Things, vnics : SUBSET (Slots \X BOOLEAN)]
    BY DEF Pcie!NoView, Pcie!Forms
  <2> QED
    BY <2>1 DEF Pcie!PcieTypeOK, Pcie!PcieAssumption, Pcie!Outcomes, Pcie!Forms
<1>2. Asking /\ Silent /\ WroteIsThere
  BY DEF Asking, Silent, WroteIsThere
<1>3. HeldOnce /\ AddsShow /\ AddedOnce
  BY DEF HeldOnce, AddsShow, AddedOnce, Adds, Sent, Pcie!BothHold, Pcie!Told
<1> QED
  BY <1>1, <1>2, <1>3 DEF PcieInv

\* A command changes only what its own partition has.
LEMMA TakesTyped ==
  ASSUME Pcie!PcieTypeOK, NEW c \in User, change[c] \in Pcie!Request, Pcie!Acts(c)
  PROVE  /\ io' \in [Lpar -> [Things -> Pcie!Forms]] /\ portOwner' \in [Things -> Lpar \cup {"none"}]
         /\ ports' \in [Lpar -> SUBSET Things] /\ vnics' \in [Lpar -> SUBSET (Slots \X BOOLEAN)]
         /\ wrote' \subseteq User /\ meddled' \subseteq {"slots", "vnics"}
<1> DEFINE k == change[c]
<1>1. k.lpar \in Lpar
  BY DEF Pcie!Request
<1>2. wrote' \subseteq User /\ meddled' \subseteq {"slots", "vnics"}
  BY DEF Pcie!Acts, Pcie!PcieTypeOK
<1> USE DEF Pcie!Acts, Pcie!Takes, Pcie!PcieTypeOK
<1>3. CASE k.op \in Pcie!Dedicated
  <2>1. k.thing \in Things
    BY <1>3 DEF Pcie!Request, Pcie!Dedicated
  <2>2. PICK form \in Pcie!Forms : io' = [io EXCEPT ![k.lpar][k.thing] = form]
    BY <1>3 DEF Pcie!Dedicated, Pcie!Forms
  <2>3. io' \in [Lpar -> [Things -> Pcie!Forms]]
    BY <1>1, <2>1, <2>2
  <2> QED
    BY <1>2, <1>3, <2>3 DEF Pcie!Dedicated
<1>4. CASE k.op \in Pcie!Sriov
  <2>1. k.thing \in Things
    BY <1>4 DEF Pcie!Request, Pcie!Sriov
  <2> QED
    BY <1>1, <1>2, <1>4, <2>1 DEF Pcie!Sriov
<1>5. CASE k.op = "add_vnic"
  <2>1. PICK n \in Slots, sound \in BOOLEAN : vnics' = [vnics EXCEPT ![k.lpar] = @ \cup {<<n, sound>>}]
    BY <1>5
  <2>2. UNCHANGED <<io, portOwner, ports>>
    BY <1>5
  <2>3. vnics' \in [Lpar -> SUBSET (Slots \X BOOLEAN)]
    BY <1>1, <2>1
  <2> QED
    BY <1>2, <2>2, <2>3
<1>6. CASE k.op = "remove_vnic"
  <2>1. vnics' = [vnics EXCEPT ![k.lpar] = {v \in @ : v[1] # k.slot}] /\ UNCHANGED <<io, portOwner, ports>>
    BY <1>6
  <2>2. vnics' \in [Lpar -> SUBSET (Slots \X BOOLEAN)]
    BY <1>1, <2>1
  <2> QED
    BY <1>2, <2>1, <2>2
<1> QED
  BY <1>3, <1>4, <1>5, <1>6 DEF Pcie!Request, Pcie!Ops, Pcie!Dedicated, Pcie!Sriov

LEMMA OneIsSome == ASSUME NEW S, Cardinality(S) = 1 PROVE S # {}
  BY FS_EmptySet

LEMMA PcieTyped ==
  ASSUME Pcie!PcieTypeOK, Asking, Pcie!PcieAssumption, [Pcie!Next]_Pcie!vars
  PROVE  Pcie!PcieTypeOK' /\ Asking'
<1> USE DEF Pcie!PcieTypeOK, Pcie!hmc, Pcie!ends, Pcie!past, Pcie!count, Pcie!Outcomes
<1>1. CASE UNCHANGED Pcie!vars
  BY <1>1 DEF Pcie!vars, Asking
<1>2. CASE Pcie!OtherChanges
  <2> USE <1>2 DEF Pcie!OtherChanges
  <2>1. meddlers' \in 0..MaxMeddlers
    BY DEF Pcie!PcieAssumption
  <2>2. Asking'
    BY DEF Asking
  <2>3. CASE \E l \in Lpar, t \in Things, form \in {"absent", "written", "odd"} :
                 io' = [io EXCEPT ![l][t] = form] /\ meddled' = meddled \cup {"slots"}
                 /\ UNCHANGED <<portOwner, ports, vnics, running>>
    <3>1. io' \in [Lpar -> [Things -> Pcie!Forms]] /\ meddled' \subseteq {"slots", "vnics"}
      BY <2>3 DEF Pcie!Forms
    <3> QED
      BY <2>1, <2>2, <2>3, <3>1
  <2>4. CASE \E t \in Things, l \in Lpar \cup {"none"} :
                 portOwner' = [portOwner EXCEPT ![t] = l] /\ UNCHANGED <<io, ports, vnics, running, meddled>>
    BY <2>1, <2>2, <2>4
  <2>5. CASE \E l \in Lpar, ts \in SUBSET Things :
                 ports' = [ports EXCEPT ![l] = ts] /\ UNCHANGED <<io, portOwner, vnics, running, meddled>>
    BY <2>1, <2>2, <2>5
  <2>6. CASE \E l \in Lpar : \E v \in vnics[l] :
                 vnics' = [vnics EXCEPT ![l] = @ \ {v}] /\ meddled' = meddled \cup {"vnics"}
                 /\ UNCHANGED <<io, portOwner, ports, running>>
    BY <2>1, <2>2, <2>6
  <2>7. CASE \E l \in Lpar :
                 running' = (running \cup {l}) \ (running \cap {l})
                 /\ UNCHANGED <<io, portOwner, ports, vnics, meddled>>
    BY <2>1, <2>2, <2>7
  <2> QED
    BY <2>3, <2>4, <2>5, <2>6, <2>7
<1>3. ASSUME NEW c \in User, Pcie!Begin(c) PROVE Pcie!PcieTypeOK' /\ Asking'
  BY <1>3 DEF Pcie!Begin, Pcie!PcieAssumption, Asking
<1>4. ASSUME NEW c \in User, Pcie!Refuse(c) \/ Pcie!SendFails(c) \/ Pcie!Dropped(c)
      PROVE  Pcie!PcieTypeOK' /\ Asking'
  BY <1>4 DEF Pcie!Refuse, Pcie!SendFails, Pcie!Dropped, Pcie!Ends, Asking
<1>5. ASSUME NEW c \in User, Pcie!Check(c) PROVE Pcie!PcieTypeOK' /\ Asking'
  <2> USE <1>5 DEF Pcie!Check, Pcie!Ends
  <2>1. change[c] \in Pcie!Request
    BY DEF Asking
  <2>2. Pcie!View(change[c]) \in [io : [Things -> Pcie!Forms], owner : Lpar \cup {"none"},
                                  ports : SUBSET Things, vnics : SUBSET (Slots \X BOOLEAN)]
    BY <2>1 DEF Pcie!View, Pcie!Request, Pcie!NoThing
  <2>3. snap' \in [User -> [io : [Things -> Pcie!Forms], owner : Lpar \cup {"none"},
                            ports : SUBSET Things, vnics : SUBSET (Slots \X BOOLEAN)]]
    BY <2>2
  <2>4. changePc' \in [User -> {"idle", "preflight", "send", "read"}] /\ changed' \in [User -> Pcie!Outcomes]
    OBVIOUS
  <2>5. Asking'
    BY DEF Asking
  <2> QED
    BY <2>3, <2>4, <2>5
<1>6. ASSUME NEW c \in User, Pcie!Send(c) PROVE Pcie!PcieTypeOK' /\ Asking'
  <2> USE <1>6 DEF Pcie!Send
  <2>1. change[c] \in Pcie!Request /\ Pcie!Acts(c)
    BY DEF Asking
  <2>2. /\ io' \in [Lpar -> [Things -> Pcie!Forms]] /\ portOwner' \in [Things -> Lpar \cup {"none"}]
        /\ ports' \in [Lpar -> SUBSET Things] /\ vnics' \in [Lpar -> SUBSET (Slots \X BOOLEAN)]
        /\ wrote' \subseteq User /\ meddled' \subseteq {"slots", "vnics"}
    BY <2>1, TakesTyped
  <2>3. Asking'
    BY DEF Asking
  <2> QED
    BY <2>2, <2>3
<1>7. ASSUME NEW c \in User, Pcie!Lands(c) PROVE Pcie!PcieTypeOK' /\ Asking'
  <2> USE <1>7 DEF Pcie!Lands
  <2>1. change[c] \in Pcie!Request /\ Pcie!Acts(c)
    BY DEF Asking
  <2>2. /\ io' \in [Lpar -> [Things -> Pcie!Forms]] /\ portOwner' \in [Things -> Lpar \cup {"none"}]
        /\ ports' \in [Lpar -> SUBSET Things] /\ vnics' \in [Lpar -> SUBSET (Slots \X BOOLEAN)]
        /\ wrote' \subseteq User /\ meddled' \subseteq {"slots", "vnics"}
    BY <2>1, TakesTyped
  <2>3. Asking'
    BY DEF Asking
  <2> QED
    BY <2>2, <2>3
<1>8. ASSUME NEW c \in User, Pcie!ReadBack(c) PROVE Pcie!PcieTypeOK' /\ Asking'
  <2> USE <1>8 DEF Pcie!ReadBack, Pcie!Ends
  <2>1. change[c] \in Pcie!Request
    BY DEF Asking
  <2>2. Pcie!Verdict(change[c], snap[c], c \in unanswered) \in Pcie!Outcomes
    BY <2>1 DEF Pcie!Verdict, Pcie!Request, Pcie!Ops, Pcie!VerifyDedicated, Pcie!ReadAssignment,
                Pcie!ReadUnassignment, Pcie!ReconcileAdd, Pcie!ReconcileRemove
  <2>3. changed' \in [User -> Pcie!Outcomes] /\ changePc' \in [User -> {"idle", "preflight", "send", "read"}]
    BY <2>2
  <2> DEFINE new == Pcie!Added(change[c], snap[c])
             chosen == CHOOSE n \in Slots : n \in Pcie!NumbersOf(new)
  <2>4. ASSUME Pcie!Cardinality(new) = 1 PROVE chosen \in Slots
    <3>1. Cardinality(new) = 1
      BY <2>4 DEF Cardinality, Pcie!Cardinality
    <3>2. new # {}
      BY ONLY <3>1, OneIsSome
    <3>3. change[c].lpar \in Lpar
      BY <2>1 DEF Pcie!Request
    <3>4. new \subseteq Slots \X BOOLEAN
      BY <3>3 DEF Pcie!Added
    <3>5. \E n \in Slots : n \in Pcie!NumbersOf(new)
      BY <3>2, <3>4 DEF Pcie!NumbersOf
    <3> QED
      BY <3>5
  <2>5. claim' \in [User -> Slots \cup {Pcie!NoSlot}]
    BY <2>4
  <2>6. Pcie!NoView \in [io : [Things -> Pcie!Forms], owner : Lpar \cup {"none"},
                         ports : SUBSET Things, vnics : SUBSET (Slots \X BOOLEAN)]
    BY DEF Pcie!NoView, Pcie!Forms
  <2>7. snap' \in [User -> [io : [Things -> Pcie!Forms], owner : Lpar \cup {"none"},
                            ports : SUBSET Things, vnics : SUBSET (Slots \X BOOLEAN)]]
    BY <2>6
  <2>8. Asking'
    BY DEF Asking
  <2> QED
    BY <2>3, <2>5, <2>7, <2>8
<1> QED
  BY <1>1, <1>2, <1>3, <1>4, <1>5, <1>6, <1>7, <1>8 DEF Pcie!Next, Pcie!Steps

\* What a call is told, and what it asked for, are settled while it has ended.
LEMMA PcieSilent ==
  ASSUME Pcie!PcieTypeOK, Silent, [Pcie!Next]_Pcie!vars PROVE Silent'
<1> USE DEF Silent, Pcie!PcieTypeOK, Pcie!ends
<1>1. CASE UNCHANGED Pcie!vars
  BY <1>1 DEF Pcie!vars
<1>2. CASE Pcie!OtherChanges
  BY <1>2 DEF Pcie!OtherChanges
<1>3. ASSUME NEW c \in User, Pcie!Begin(c) \/ Pcie!Send(c) \/ Pcie!SendFails(c) \/ Pcie!Lands(c) \/ Pcie!Dropped(c)
      PROVE  Silent'
  BY <1>3 DEF Pcie!Begin, Pcie!Send, Pcie!SendFails, Pcie!Lands, Pcie!Dropped
<1>4. ASSUME NEW c \in User, Pcie!Refuse(c) \/ Pcie!Check(c) \/ Pcie!ReadBack(c) PROVE Silent'
  BY <1>4 DEF Pcie!Refuse, Pcie!Check, Pcie!ReadBack, Pcie!Ends
<1> QED
  BY <1>1, <1>2, <1>3, <1>4 DEF Pcie!Next, Pcie!Steps

\* A command that takes effect leaves, of what was written, what it does not write itself.
LEMMA ActsWrites ==
  ASSUME Pcie!PcieTypeOK, WroteIsThere, NEW c \in User, change[c] \in Pcie!Request, Pcie!Acts(c),
         change' = change
  PROVE  WroteIsThere'
<1> USE DEF Pcie!PcieTypeOK
<1> SUFFICES ASSUME "slots" \notin meddled', NEW d \in wrote'
             PROVE  /\ change[d].op \in Pcie!Dedicated
                    /\ io'[change[d].lpar][change[d].thing] =
                         IF change[d].op = "assign_dedicated_pcie_slot" THEN "written" ELSE "absent"
  BY DEF WroteIsThere
<1>1. "slots" \notin meddled
  BY DEF Pcie!Acts
<1>2. d \in User /\ wrote \subseteq User
  BY DEF Pcie!Acts
<1>3. CASE change[c].op \in Pcie!Dedicated
  <2>1. change[c].lpar \in Lpar /\ change[c].thing \in Things
    BY <1>3 DEF Pcie!Request, Pcie!Dedicated
  <2>2. io' = [io EXCEPT ![change[c].lpar][change[c].thing] =
                 IF change[c].op = "assign_dedicated_pcie_slot" THEN "written" ELSE "absent"]
    BY <1>3 DEF Pcie!Acts, Pcie!Takes, Pcie!Dedicated
  <2>3. CASE d = c
    BY <1>3, <2>1, <2>2, <2>3
  <2>4. CASE d # c
    <3>1. d \in wrote /\ (change[d].lpar # change[c].lpar \/ change[d].thing # change[c].thing)
      BY <1>3, <2>4 DEF Pcie!Acts
    <3>2. change[d].op \in Pcie!Dedicated
          /\ io[change[d].lpar][change[d].thing] =
               IF change[d].op = "assign_dedicated_pcie_slot" THEN "written" ELSE "absent"
      BY <1>1, <3>1 DEF WroteIsThere
    <3>3. change[d].lpar \in Lpar /\ change[d].thing \in Things
      BY <1>2, <3>2 DEF Pcie!Request, Pcie!Dedicated, Pcie!NoCall
    <3> QED
      BY <2>1, <2>2, <3>1, <3>2, <3>3
  <2> QED
    BY <2>3, <2>4
<1>4. CASE change[c].op \notin Pcie!Dedicated
  <2>1. io' = io
    BY <1>4 DEF Pcie!Acts, Pcie!Takes, Pcie!Dedicated, Pcie!Request, Pcie!Ops
  <2>2. d \in wrote
    BY <1>4 DEF Pcie!Acts
  <2> QED
    BY <1>1, <2>1, <2>2 DEF WroteIsThere
<1> QED
  BY <1>3, <1>4

LEMMA PcieWrites ==
  ASSUME Pcie!PcieTypeOK, Asking, WroteIsThere, [Pcie!Next]_Pcie!vars PROVE WroteIsThere'
<1>1. CASE UNCHANGED Pcie!vars
  BY <1>1 DEF Pcie!vars, Pcie!hmc, Pcie!past, WroteIsThere
<1>2. CASE Pcie!OtherChanges
  <2> SUFFICES ASSUME "slots" \notin meddled' PROVE WroteIsThere'
    BY DEF WroteIsThere
  <2>1. UNCHANGED <<io, change, wrote>> /\ "slots" \notin meddled
    BY <1>2 DEF Pcie!OtherChanges
  <2> QED
    BY <2>1 DEF WroteIsThere
<1>3. ASSUME NEW c \in User, Pcie!Begin(c) PROVE WroteIsThere'
  <2>1. UNCHANGED <<io, meddled>> /\ wrote' = wrote \ {c}
    BY <1>3 DEF Pcie!Begin, Pcie!hmc
  <2>2. \A d \in wrote' : change'[d] = change[d]
    BY <1>3, <2>1 DEF Pcie!Begin, Pcie!PcieTypeOK
  <2> QED
    BY <2>1, <2>2 DEF WroteIsThere
<1>4. ASSUME NEW c \in User, Pcie!Refuse(c) \/ Pcie!Check(c) \/ Pcie!SendFails(c) \/ Pcie!Dropped(c) \/ Pcie!ReadBack(c)
      PROVE  WroteIsThere'
  BY <1>4 DEF Pcie!Refuse, Pcie!Check, Pcie!SendFails, Pcie!Dropped, Pcie!ReadBack, Pcie!hmc, Pcie!past, WroteIsThere
<1>5. ASSUME NEW c \in User, Pcie!Send(c) \/ Pcie!Lands(c) PROVE WroteIsThere'
  <2>1. change[c] \in Pcie!Request /\ Pcie!Acts(c) /\ change' = change
    BY <1>5 DEF Pcie!Send, Pcie!Lands, Asking
  <2> QED
    BY <2>1, ActsWrites
<1> QED
  BY <1>1, <1>2, <1>3, <1>4, <1>5 DEF Pcie!Next, Pcie!Steps

\* Two partitions whose calls were both told that they have a slot: the later one to read
\* back had found the slot with nobody else.
LEMMA PcieHolds ==
  ASSUME Pcie!PcieTypeOK, Asking, Silent, WroteIsThere, HeldOnce, [Pcie!Next]_Pcie!vars PROVE HeldOnce'
<1> SUFFICES ASSUME "slots" \notin meddled', NEW c \in User, NEW d \in User, c # d, Pcie!BothHold(c, d)'
             PROVE  FALSE
  BY DEF HeldOnce
<1> USE DEF Pcie!PcieTypeOK, Pcie!BothHold, Pcie!Told
<1>1. "slots" \notin meddled
  BY DEF Pcie!Next, Pcie!Steps, Pcie!OtherChanges, Pcie!Begin, Pcie!Refuse, Pcie!Check, Pcie!Send, Pcie!SendFails,
         Pcie!Lands, Pcie!Dropped, Pcie!ReadBack, Pcie!Acts, Pcie!past, Pcie!vars
<1>2. ~Pcie!BothHold(c, d) /\ ~Pcie!BothHold(d, c)
  BY <1>1 DEF HeldOnce
<1>3. CASE UNCHANGED Pcie!vars \/ Pcie!OtherChanges
  BY <1>2, <1>3 DEF Pcie!vars, Pcie!OtherChanges, Pcie!past, Pcie!ends
<1>4. ASSUME NEW e \in User, Pcie!Begin(e) PROVE FALSE
  BY <1>2, <1>4 DEF Pcie!Begin
<1>5. ASSUME NEW e \in User, Pcie!Refuse(e) \/ Pcie!Check(e) \/ Pcie!SendFails(e) \/ Pcie!Dropped(e) PROVE FALSE
  BY <1>2, <1>5 DEF Pcie!Refuse, Pcie!Check, Pcie!SendFails, Pcie!Dropped, Pcie!Ends, Pcie!past, Pcie!ends
<1>6. ASSUME NEW e \in User, Pcie!Send(e) \/ Pcie!Lands(e) PROVE FALSE
  <2>1. wrote' \subseteq wrote \cup {e} /\ UNCHANGED <<change, changed>>
    BY <1>6 DEF Pcie!Send, Pcie!Lands, Pcie!Acts, Pcie!ends
  <2>2. c \in wrote /\ d \in wrote
    BY <1>6, <2>1 DEF Pcie!Send, Pcie!Lands, Silent
  <2>3. landed \subseteq landed'
    BY <1>6 DEF Pcie!Send, Pcie!Lands
  <2> QED
    BY <1>2, <2>1, <2>2, <2>3
<1>7. ASSUME NEW e \in User, NEW f \in User, e # f, Pcie!BothHold(e, f)', Pcie!ReadBack(e) PROVE FALSE
  <2> USE <1>7
  <2>1. UNCHANGED <<io, change, wrote>> /\ e \in wrote /\ f \in wrote
    BY DEF Pcie!ReadBack, Pcie!hmc, Pcie!past
  <2>2. change[e].op = "assign_dedicated_pcie_slot" /\ change[f].op = "assign_dedicated_pcie_slot"
        /\ change[e].thing = change[f].thing /\ change[e].lpar # change[f].lpar
    BY <2>1
  <2>3. Pcie!Verdict(change[e], snap[e], e \in unanswered) = "ok"
    BY DEF Pcie!ReadBack, Pcie!Ends
  <2>4. Pcie!Holders(change[e]) = {}
    BY <2>2, <2>3 DEF Pcie!Verdict, Pcie!VerifyDedicated
  <2>5. io[change[f].lpar][change[f].thing] = "written"
    BY <1>1, <2>1, <2>2 DEF WroteIsThere
  <2>6. change[f].lpar \in Lpar
    BY <2>2 DEF Pcie!Request, Pcie!NoCall
  <2> QED
    BY <2>2, <2>4, <2>5, <2>6 DEF Pcie!Holders
<1>8. ASSUME NEW e \in User, Pcie!ReadBack(e) PROVE FALSE
  <2>1. CASE e # c /\ e # d
    BY <1>2, <1>8, <2>1 DEF Pcie!ReadBack, Pcie!Ends, Pcie!past
  <2>2. Pcie!BothHold(d, c)'
    OBVIOUS
  <2> QED
    BY <1>7, <1>8, <2>1, <2>2
<1> QED
  BY <1>3, <1>4, <1>5, <1>6, <1>8 DEF Pcie!Next, Pcie!Steps

LEMMA GrowsPastOne ==
  ASSUME NEW A, NEW B, A \subseteq B, A # {}, NEW v, A # {v} PROVE B # {v}
  OBVIOUS

LEMMA OneMore ==
  ASSUME NEW A, NEW B, A \subseteq B, A # {}, NEW w, w \notin A, w \in B, NEW v PROVE B # {v}
  OBVIOUS

\* A command that takes effect removes a vNIC only when that is noted, and an add gives the
\* partition one more.
LEMMA ActsAdds ==
  ASSUME Pcie!PcieTypeOK, NEW c \in User, change[c] \in Pcie!Request, Pcie!Acts(c), "vnics" \notin meddled'
  PROVE  /\ "vnics" \notin meddled
         /\ \A l \in Lpar : vnics[l] \subseteq vnics'[l]
         /\ change[c].op = "add_vnic" => \E v : v \notin vnics[change[c].lpar] /\ v \in vnics'[change[c].lpar]
<1> USE DEF Pcie!PcieTypeOK
<1>1. "vnics" \notin meddled /\ change[c].op # "remove_vnic"
  BY DEF Pcie!Acts
<1>2. CASE change[c].op = "add_vnic"
  <2>1. change[c].lpar \in Lpar
    BY DEF Pcie!Request
  <2>2. PICK n \in Slots \ Pcie!NumbersOf(vnics[change[c].lpar]), sound \in BOOLEAN :
          vnics' = [vnics EXCEPT ![change[c].lpar] = @ \cup {<<n, sound>>}]
    BY <1>2 DEF Pcie!Acts, Pcie!Takes
  <2>3. <<n, sound>> \notin vnics[change[c].lpar]
    BY <2>2 DEF Pcie!NumbersOf
  <2>4. <<n, sound>> \in vnics'[change[c].lpar]
    BY <2>1, <2>2
  <2>5. \A l \in Lpar : vnics[l] \subseteq vnics'[l]
    BY <2>1, <2>2
  <2> QED
    BY <1>1, <2>3, <2>4, <2>5
<1>3. CASE change[c].op # "add_vnic"
  <2>1. vnics' = vnics
    BY <1>1, <1>3 DEF Pcie!Acts, Pcie!Takes, Pcie!Request, Pcie!Ops
  <2> QED
    BY <1>1, <1>3, <2>1
<1> QED
  BY <1>2, <1>3

\* The adds that another step can meet: those of every call but c stay as they are.
LEMMA PcieAdds ==
  ASSUME Pcie!PcieTypeOK, Asking, Silent, AddsShow, AddedOnce, [Pcie!Next]_Pcie!vars
  PROVE  AddsShow' /\ AddedOnce'
<1> SUFFICES ASSUME "vnics" \notin meddled' PROVE AddsShow' /\ AddedOnce'
  BY DEF AddsShow, AddedOnce
<1> USE DEF Pcie!PcieTypeOK
<1>1. "vnics" \notin meddled
  BY DEF Pcie!Next, Pcie!Steps, Pcie!OtherChanges, Pcie!Begin, Pcie!Refuse, Pcie!Check, Pcie!Send, Pcie!SendFails,
         Pcie!Lands, Pcie!Dropped, Pcie!ReadBack, Pcie!Acts, Pcie!past, Pcie!vars
<1>2. \A c \in User : Adds(c) => change[c].lpar \in Lpar
  BY DEF Pcie!Request, Pcie!NoCall, Adds, Sent, Pcie!Told
<1>3. /\ \A c \in User : Adds(c) => vnics[change[c].lpar] # {}
      /\ \A c \in User : Adds(c) => \A d \in User \ {c} : Sent(d) /\ change[d].lpar = change[c].lpar =>
           \A v : vnics[change[c].lpar] # {v}
      /\ \A c, d \in User : c # d /\ change[c].lpar = change[d].lpar =>
           ~(Pcie!Told(c, "add_vnic") /\ Pcie!Told(d, "add_vnic"))
  BY <1>1 DEF AddsShow, AddedOnce
\* A step after which each add was one before, with no fewer vNICs.
<1>4. ASSUME \A l \in Lpar : vnics[l] \subseteq vnics'[l],
             \A c \in User : Adds(c)' => Adds(c) /\ change'[c] = change[c],
             \A c \in User : Sent(c)' => Sent(c),
             \A c \in User : Pcie!Told(c, "add_vnic")' => Pcie!Told(c, "add_vnic")
      PROVE  AddsShow' /\ AddedOnce'
  <2>1. \A c \in User : Adds(c)' => vnics'[change'[c].lpar] # {}
    BY <1>2, <1>3, <1>4
  <2>2. ASSUME NEW c \in User, Adds(c)', NEW d \in User \ {c}, Sent(d)', change'[d].lpar = change'[c].lpar, NEW v
        PROVE  vnics'[change'[c].lpar] # {v}
    <3>1. Adds(c) /\ Sent(d) /\ change'[c] = change[c]
      BY <1>4, <2>2
    <3>2. change'[d] = change[d]
      BY <1>4, <2>2 DEF Adds
    <3>3. vnics[change[c].lpar] # {v} /\ vnics[change[c].lpar] # {}
      BY <1>3, <2>2, <3>1, <3>2
    <3>4. vnics[change[c].lpar] \subseteq vnics'[change[c].lpar]
      BY <1>2, <1>4, <3>1
    <3> QED
      BY <3>1, <3>3, <3>4, GrowsPastOne
  <2>3. AddsShow'
    <3>1. \A c \in User : Adds(c)' =>
            /\ vnics'[change'[c].lpar] # {}
            /\ \A d \in User \ {c} : Sent(d)' /\ change'[d].lpar = change'[c].lpar =>
                 \A v : vnics'[change'[c].lpar] # {v}
      BY <2>1, <2>2
    <3> QED
      BY <3>1 DEF AddsShow
  <2>4. AddedOnce'
    BY <1>3, <1>4 DEF AddedOnce, Adds
  <2> QED
    BY <2>3, <2>4
<1>5. CASE UNCHANGED Pcie!vars
  BY <1>3, <1>5 DEF Pcie!vars, Pcie!hmc, Pcie!ends, AddsShow, AddedOnce, Adds, Sent, Pcie!Told
<1>6. CASE Pcie!OtherChanges
  <2>1. UNCHANGED <<vnics, change, changePc, unanswered, changed>>
    BY <1>6 DEF Pcie!OtherChanges, Pcie!ends
  <2> QED
    BY <1>3, <2>1 DEF AddsShow, AddedOnce, Adds, Sent, Pcie!Told
<1>7. ASSUME NEW e \in User, Pcie!Begin(e) PROVE AddsShow' /\ AddedOnce'
  <2>1. vnics' = vnics /\ \A c \in User : Adds(c)' => Adds(c) /\ change'[c] = change[c]
    BY <1>7 DEF Pcie!Begin, Pcie!hmc, Adds, Sent, Pcie!Told
  <2>2. \A c \in User : (Sent(c)' => Sent(c)) /\ (Pcie!Told(c, "add_vnic")' => Pcie!Told(c, "add_vnic"))
    BY <1>7 DEF Pcie!Begin, Sent, Pcie!Told
  <2> QED
    BY <1>4, <2>1, <2>2
<1>8. ASSUME NEW e \in User, Pcie!Refuse(e) \/ Pcie!Check(e) \/ Pcie!Dropped(e) \/ Pcie!SendFails(e)
      PROVE  AddsShow' /\ AddedOnce'
  <2> USE DEF Pcie!Refuse, Pcie!Check, Pcie!Dropped, Pcie!SendFails, Pcie!Ends, Pcie!hmc, Pcie!ends, Adds, Sent, Pcie!Told
  <2>1. vnics' = vnics /\ change' = change
    BY <1>8
  <2>2. \A c \in User : (Sent(c)' => Sent(c)) /\ (Pcie!Told(c, "add_vnic")' => Pcie!Told(c, "add_vnic"))
    BY <1>8
  <2> QED
    BY <1>4, <2>1, <2>2
<1>9. ASSUME NEW e \in User, Pcie!Lands(e) PROVE AddsShow' /\ AddedOnce'
  <2>1. \A l \in Lpar : vnics[l] \subseteq vnics'[l]
    BY <1>9, ActsAdds DEF Pcie!Lands, Asking
  <2>2. UNCHANGED <<change, changePc, unanswered, changed>>
    BY <1>9 DEF Pcie!Lands, Pcie!ends
  <2> QED
    BY <1>4, <2>1, <2>2 DEF Adds, Sent, Pcie!Told
<1>10. ASSUME NEW e \in User, Pcie!Send(e) PROVE AddsShow' /\ AddedOnce'
  <2>1. change[e] \in Pcie!Request /\ Pcie!Acts(e) /\ UNCHANGED <<change, changed>>
    BY <1>10 DEF Pcie!Send, Asking, Pcie!ends
  <2>2. /\ \A l \in Lpar : vnics[l] \subseteq vnics'[l]
        /\ change[e].op = "add_vnic" => \E v : v \notin vnics[change[e].lpar] /\ v \in vnics'[change[e].lpar]
    BY <2>1, ActsAdds
  <2>3. \A c \in User \ {e} : Adds(c)' => Adds(c)
    BY <1>10, <2>1 DEF Pcie!Send, Adds, Sent, Pcie!Told
  <2>4. \A c \in User \ {e} : Sent(c)' => Sent(c)
    BY <1>10, <2>1 DEF Pcie!Send, Adds, Sent, Pcie!Told
  <2>5. \A c \in User : Pcie!Told(c, "add_vnic")' => Pcie!Told(c, "add_vnic")
    BY <2>1 DEF Pcie!Told
  <2>6. CASE change[e].op # "add_vnic"
    <3>1. ~Sent(e)'
      BY <2>1, <2>6 DEF Sent
    <3>2. \A c \in User : (Sent(c)' => Sent(c)) /\ (Adds(c)' => Adds(c))
      BY <2>3, <2>4, <2>5, <3>1 DEF Adds
    <3> QED
      BY <1>4, <2>1, <2>2, <2>5, <3>2
  <2>7. CASE change[e].op = "add_vnic"
    <3>1. PICK w : w \notin vnics[change[e].lpar] /\ w \in vnics'[change[e].lpar]
      BY <2>2, <2>7
    <3>2. \A c \in User : Adds(c)' => change[c].lpar \in Lpar /\ vnics'[change[c].lpar] # {}
      <4>1. change[e].lpar \in Lpar
        BY <2>1 DEF Pcie!Request
      <4>2. ASSUME NEW c \in User, Adds(c)', c # e
            PROVE  change[c].lpar \in Lpar /\ vnics'[change[c].lpar] # {}
        <5>1. Adds(c) /\ change[c].lpar \in Lpar /\ vnics[change[c].lpar] # {}
          BY <1>2, <1>3, <2>3, <4>2
        <5>2. vnics[change[c].lpar] \subseteq vnics'[change[c].lpar]
          BY <2>2, <5>1
        <5> QED
          BY <5>1, <5>2
      <4>3. vnics'[change[e].lpar] # {}
        BY <3>1
      <4> QED
        BY <4>1, <4>2, <4>3
    <3>3. ASSUME NEW c \in User, Adds(c)', NEW d \in User \ {c}, Sent(d)', change[d].lpar = change[c].lpar, NEW v
          PROVE  vnics'[change[c].lpar] # {v}
      <4>1. vnics[change[c].lpar] \subseteq vnics'[change[c].lpar]
        BY <2>2, <3>2, <3>3
      <4>2. CASE c # e /\ d # e
        <5>1. Adds(c) /\ Sent(d)
          BY <2>3, <2>4, <3>3, <4>2
        <5>2. vnics[change[c].lpar] # {} /\ vnics[change[c].lpar] # {v}
          BY <1>3, <3>3, <5>1
        <5> QED
          BY ONLY <4>1, <5>2, GrowsPastOne
      <4>3. CASE c = e
        <5>1. Adds(d)
          BY <2>4, <3>3, <4>3 DEF Adds
        <5>2. vnics[change[c].lpar] # {}
          BY <1>3, <3>3, <5>1
        <5> QED
          BY <3>1, <4>1, <4>3, <5>2, OneMore
      <4>4. CASE d = e
        <5>1. Adds(c)
          BY <2>3, <3>3, <4>4
        <5>2. vnics[change[c].lpar] # {}
          BY <1>3, <5>1
        <5> QED
          BY <3>1, <3>3, <4>1, <4>4, <5>2, OneMore
      <4> QED
        BY <4>2, <4>3, <4>4
    <3>4. AddsShow'
      <4>1. \A c \in User : Adds(c)' =>
              /\ vnics'[change[c].lpar] # {}
              /\ \A d \in User \ {c} : Sent(d)' /\ change[d].lpar = change[c].lpar =>
                   \A v : vnics'[change[c].lpar] # {v}
        BY <3>2, <3>3
      <4> QED
        BY <2>1, <4>1 DEF AddsShow
    <3>5. AddedOnce'
      BY <1>3, <2>1 DEF AddedOnce, Pcie!Told
    <3> QED
      BY <3>4, <3>5
  <2> QED
    BY <2>6, <2>7
<1>11. ASSUME NEW e \in User, Pcie!ReadBack(e) PROVE AddsShow' /\ AddedOnce'
  <2>1. UNCHANGED <<vnics, change>>
    BY <1>11 DEF Pcie!ReadBack, Pcie!hmc
  <2>2. \A c \in User \ {e} : /\ Sent(c)' => Sent(c)
                              /\ Pcie!Told(c, "add_vnic")' => Pcie!Told(c, "add_vnic")
    BY <1>11, <2>1 DEF Pcie!ReadBack, Pcie!Ends, Adds, Sent, Pcie!Told
  <2>3. ~Sent(e)'
    BY <1>11 DEF Pcie!ReadBack, Pcie!Ends, Adds, Sent, Pcie!Told
  <2>4. CASE ~Pcie!Told(e, "add_vnic")'
    BY <1>4, <2>1, <2>2, <2>3, <2>4 DEF Adds
  <2>5. CASE Pcie!Told(e, "add_vnic")'
    <3>1. change[e].op = "add_vnic" /\ Pcie!Verdict(change[e], snap[e], e \in unanswered) = "ok"
      BY <1>11, <2>1, <2>5 DEF Pcie!ReadBack, Pcie!Ends, Pcie!Told
    <3>2. Pcie!ReconcileAdd(change[e], snap[e], e \in unanswered) = "ok"
      BY <3>1 DEF Pcie!Verdict
    <3>3. PICK w : vnics[change[e].lpar] = {w}
      BY <3>2 DEF Pcie!ReconcileAdd
    <3>4. Sent(e)
      BY <1>11, <3>1, <3>2 DEF Pcie!ReconcileAdd, Pcie!ReadBack, Sent
    <3>5. \A c \in User \ {e} : change[c].lpar = change[e].lpar => ~Adds(c)
      BY <1>3, <3>3, <3>4
    <3>6. AddedOnce'
      BY <1>3, <2>1, <2>2, <3>5 DEF AddedOnce, Adds, Pcie!Told
    <3>7. \A c \in User : Adds(c)' => vnics[change[c].lpar] # {}
      BY <1>3, <2>1, <2>2, <2>3, <3>3 DEF Adds
    <3>8. ASSUME NEW c \in User, Adds(c)', NEW d \in User \ {c}, Sent(d)', change[d].lpar = change[c].lpar, NEW v
          PROVE  vnics[change[c].lpar] # {v}
      <4>1. Sent(d) /\ d # e
        BY <2>2, <2>3, <3>8
      <4>2. c # e
        BY <3>5, <3>8, <4>1 DEF Adds
      <4>3. Adds(c)
        BY <2>1, <2>2, <3>8, <4>2 DEF Adds
      <4> QED
        BY <1>3, <3>8, <4>1, <4>3
    <3>9. AddsShow'
      <4>1. \A c \in User : Adds(c)' =>
              /\ vnics[change[c].lpar] # {}
              /\ \A d \in User \ {c} : Sent(d)' /\ change[d].lpar = change[c].lpar =>
                   \A v : vnics[change[c].lpar] # {v}
        BY <3>7, <3>8
      <4> QED
        BY <2>1, <4>1 DEF AddsShow
    <3> QED
      BY <3>6, <3>9
  <2> QED
    BY <2>4, <2>5
<1> QED
  BY <1>5, <1>6, <1>7, <1>8, <1>9, <1>10, <1>11 DEF Pcie!Next, Pcie!Steps

LEMMA PcieStep == ASSUME PcieInv, Pcie!PcieAssumption, [Pcie!Next]_Pcie!vars PROVE PcieInv'
BY PcieTyped, PcieSilent, PcieWrites, PcieHolds, PcieAdds DEF PcieInv

LEMMA PcieHolding == ASSUME PcieInv PROVE Pcie!CollisionsTold
BY DEF PcieInv, HeldOnce, AddedOnce, Pcie!CollisionsTold, Pcie!BothClaim, Pcie!Told

LEMMA PcieAlways == WorkflowsSpec => [](which = "pcie" => PcieInv)
<1> DEFINE P == which = "pcie" => PcieInv
<1>0. Pcie!PcieAssumption
  BY WorkflowsAssumption
<1>1. WorkflowsInit => P
  BY <1>0, PcieStarts DEF WorkflowsInit
<1>2. P /\ [WorkflowsNext]_<<which, vars, storageVars, pcieVars, workflowVars, mutationVars>> => P'
  <2> SUFFICES ASSUME P, [WorkflowsNext]_<<which, vars, storageVars, pcieVars, workflowVars, mutationVars>>,
                      which' = "pcie"
               PROVE  PcieInv'
    OBVIOUS
  <2>1. which = "pcie" /\ [Pcie!Next]_Pcie!vars
    BY DEF WorkflowsNext, pcieVars, Pcie!vars, Pcie!hmc, Pcie!ends, Pcie!past, Pcie!count
  <2> QED
    BY <1>0, <2>1, PcieStep
<1> QED
  BY <1>1, <1>2, PTL DEF WorkflowsSpec

\* Of two changes that collide at least one is not told that it went well, whatever the number
\* of callers, partitions and calls, and whatever anybody else does in between
\* (pcie.py's _verify_dedicated_change, vnic.py's _reconcile_add).
THEOREM CollisionsToldAlways == WorkflowsSpec => []CollisionsTold
<1>1. (which = "pcie" => PcieInv) => CollisionsTold
  BY PcieHolding DEF CollisionsTold
<1> QED
  BY <1>1, PcieAlways, PTL
-----------------------------------------------------------------------------
(* Writes to a VIOS's storage (StorageWrite).                                *)

Groups == [disks : SUBSET Names, repo : Sizes \cup {0}, media : SUBSET Storage!Medium]

\* What a caller may post is an edit of what the HMC still has, unless its ETag is stale.
Fresh ==
  \A c \in Client : storagePc[c] = "post" /\ c \notin stale =>
    /\ request[c].op \in Storage!GroupWrites => draft[c] \in Storage!Edits(c, request[c], group)
    /\ request[c].op \in Storage!MapWrites => rewired[c] \in Storage!Rewires(request[c], maps)

\* A call that changes a mapping works for a partition it may change, except that a detach
\* has still to learn which one that is.
Allowed ==
  \A c \in Client :
    /\ request[c].op \in Storage!MapWrites
    /\ storagePc[c] \in {"get", "post"}
       \/ (storagePc[c] = "check" /\ request[c].op # "detach_storage_mapping")
    => request[c].lpar \in Owned

\* A removal past its check had its storage unmapped once; before the check, it is noted
\* when the storage is unmapped now.
Unmapped ==
  \A c \in Client : request[c].op \in Storage!Removals =>
    /\ storagePc[c] \in {"get", "post"} => c \in free
    /\ storagePc[c] = "check" /\ ~Storage!Mapped(request[c], maps) => c \in free

\* From the second look on, every medium of the upload's name is new.
NewSince ==
  \A c \in Client : storagePc[c] \in {"file", "stream", "poll"} =>
    Storage!Named(group.media, request[c].name) \subseteq since[c]

FileKept == \A c \in files : storagePc[c] \in {"stream", "poll", "release"} \/ c \in leaked

StorageInv ==
  /\ Storage!StorageTypeOK /\ strangers \in Nat
  /\ Fresh /\ Allowed /\ Unmapped /\ NewSince /\ FileKept /\ Storage!UploadSeen

LEMMA NoCallIs ==
  ASSUME Storage!StorageAssumption PROVE Storage!NoCall \in Storage!Call /\ Storage!NoCall.op = "none"
<1>1. PICK n \in Names, s \in Sizes, t \in Devices, p \in Lpars : TRUE
  BY DEF Storage!StorageAssumption
<1>2. [op |-> "none", name |-> n, size |-> s, target |-> t, lpar |-> p] \in Storage!Call
  BY DEF Storage!Call
<1>3. \E k \in Storage!Call : k.op = "none"
  BY <1>2
<1> QED
  BY <1>3 DEF Storage!NoCall

LEMMA EditsTyped ==
  ASSUME NEW c \in Client, NEW k \in Storage!Call, k.op \in Storage!GroupWrites, NEW g \in Groups,
         NEW h \in Storage!Edits(c, k, g)
  PROVE  h \in Groups
<1> USE DEF Groups, Storage!Call, Storage!Edits
<1>1. CASE k.op = "create_virtual_disk" \/ k.op = "delete_virtual_disk"
  BY <1>1 DEF Storage!DiskCreated, Storage!DiskDeleted
<1>2. CASE k.op = "create_media_repository" \/ k.op = "delete_media_repository"
  BY <1>2 DEF Storage!RepositoryCreated, Storage!RepositoryDeleted
<1>3. CASE k.op = "create_optical_media"
  BY <1>3 DEF Storage!MediumCreated, Storage!Medium
<1>4. CASE k.op = "delete_optical_media"
  BY <1>4 DEF Storage!MediumDeleted
<1> QED
  BY <1>1, <1>2, <1>3, <1>4 DEF Storage!GroupWrites

LEMMA RewiresTyped ==
  ASSUME NEW k \in Storage!Call, NEW m \in SUBSET Storage!VscsiMapping, NEW r \in Storage!Rewires(k, m)
  PROVE  r \in SUBSET Storage!VscsiMapping
BY DEF Storage!Call, Storage!Rewires, Storage!Detached, Storage!Appended, Storage!New, Storage!Storage,
       Storage!VscsiMapping

LEMMA GroupBecomesTyped ==
  ASSUME Storage!StorageTypeOK, NEW g \in Groups, Storage!GroupBecomes(g)
  PROVE  /\ group' \in Groups /\ maps' \in SUBSET Storage!VscsiMapping /\ stale' \subseteq Client
         /\ free' \subseteq Client /\ since' \in [Client -> SUBSET Storage!Medium]
BY DEF Storage!StorageTypeOK, Storage!GroupBecomes, Groups, Storage!Named

LEMMA MapsBecomeTyped ==
  ASSUME Storage!StorageTypeOK, NEW m \in SUBSET Storage!VscsiMapping, Storage!MapsBecome(m)
  PROVE  /\ group' \in Groups /\ maps' \in SUBSET Storage!VscsiMapping /\ stale' \subseteq Client
         /\ free' \subseteq Client /\ since' \in [Client -> SUBSET Storage!Medium]
BY DEF Storage!StorageTypeOK, Storage!MapsBecome, Groups

\* Every step keeps the types; others only counts up.
LEMMA StorageTyped ==
  ASSUME Storage!StorageTypeOK, strangers \in Nat, Storage!StorageAssumption, [Storage!Next]_Storage!vars
  PROVE  Storage!StorageTypeOK' /\ strangers' \in Nat
<1> USE DEF Storage!StorageTypeOK, Storage!hmc, Storage!edits, Storage!history
<1> DEFINE Becomes == /\ group' \in Groups /\ maps' \in SUBSET Storage!VscsiMapping /\ stale' \subseteq Client
                      /\ free' \subseteq Client /\ since' \in [Client -> SUBSET Storage!Medium]
<1>1. CASE UNCHANGED Storage!vars
  BY <1>1 DEF Storage!vars
<1>2. CASE Storage!OtherChanges
  <2> USE <1>2 DEF Storage!OtherChanges
  <2>1. \/ \E g \in Groups : Storage!GroupBecomes(g)
        \/ \E m \in SUBSET Storage!VscsiMapping : Storage!MapsBecome(m)
    <3>1. CASE \E n \in Names : Storage!GroupBecomes([group EXCEPT !.disks = IF n \in @ THEN @ \ {n} ELSE @ \cup {n}])
      <4> SUFFICES ASSUME NEW n \in Names,
                          Storage!GroupBecomes([group EXCEPT !.disks = IF n \in @ THEN @ \ {n} ELSE @ \cup {n}])
                   PROVE  \E g \in Groups : Storage!GroupBecomes(g)
        BY <3>1
      <4>1. [group EXCEPT !.disks = IF n \in @ THEN @ \ {n} ELSE @ \cup {n}] \in Groups
        BY DEF Groups
      <4> QED
        BY <4>1
    <3>2. CASE \E s \in Sizes : group.repo = 0 /\ Storage!GroupBecomes([group EXCEPT !.repo = s])
      <4>1. \A s \in Sizes : [group EXCEPT !.repo = s] \in Groups
        BY DEF Groups
      <4> QED
        BY <3>2, <4>1
    <3>3. CASE Storage!GroupBecomes([group EXCEPT !.repo = 0, !.media = {}])
      <4>1. [group EXCEPT !.repo = 0, !.media = {}] \in Groups
        BY DEF Groups
      <4> QED
        BY <3>3, <4>1
    <3>4. CASE \E n \in Names : group.repo # 0 /\ Storage!GroupBecomes([group EXCEPT !.media = @ \cup {<<n, "none">>}])
      <4>1. \A n \in Names : [group EXCEPT !.media = @ \cup {<<n, "none">>}] \in Groups
        BY DEF Groups, Storage!Medium
      <4> QED
        BY <3>4, <4>1
    <3>5. CASE \E x \in group.media : Storage!GroupBecomes([group EXCEPT !.media = @ \ {x}])
      <4>1. \A x \in group.media : [group EXCEPT !.media = @ \ {x}] \in Groups
        BY DEF Groups
      <4> QED
        BY <3>5, <4>1
    <3>6. CASE \E x \in maps : Storage!MapsBecome(maps \ {x})
      BY <3>6
    <3>7. CASE \E x \in Storage!VscsiMapping : Storage!MapsBecome(maps \cup {x})
      BY <3>7
    <3> QED
      BY <3>1, <3>2, <3>3, <3>4, <3>5, <3>6, <3>7
  <2>2. Becomes
    BY <2>1, GroupBecomesTyped, MapsBecomeTyped
  <2> QED
    BY <2>2 DEF Groups
<1>3. ASSUME NEW c \in Client, NEW k \in Storage!Request, Storage!Begin(c, k)
      PROVE  Storage!StorageTypeOK' /\ strangers' \in Nat
  <2>1. k \in Storage!Call
    BY DEF Storage!Request
  <2>2. Storage!First(k) \in {"check", "look", "get"}
    BY DEF Storage!First
  <2> QED
    BY <1>3, <2>1, <2>2 DEF Storage!Begin, Storage!Goes
<1>4. ASSUME NEW c \in Client, Storage!CheckDisk(c) \/ Storage!CheckMedium(c) \/ Storage!CheckRepository(c)
      PROVE  Storage!StorageTypeOK' /\ strangers' \in Nat
  BY <1>4 DEF Storage!CheckDisk, Storage!CheckMedium, Storage!CheckRepository, Storage!Listed, Storage!Goes,
              Storage!Ends, Storage!Reads
<1>5. ASSUME NEW c \in Client, NEW op, NEW found \in SUBSET maps, Storage!Finds(c, op, found)
      PROVE  Storage!StorageTypeOK' /\ strangers' \in Nat
  <2>1. \A x \in found : x.target \in Devices /\ x.lpar \in Lpars
    BY DEF Storage!VscsiMapping
  <2>2. request' \in [Client -> Storage!Call]
    <3>1. CASE UNCHANGED request
      BY <3>1
    <3>2. ASSUME NEW x \in found, request' = [request EXCEPT ![c].target = x.target, ![c].lpar = x.lpar]
          PROVE  request' \in [Client -> Storage!Call]
      <4>1. [request[c] EXCEPT !.target = x.target, !.lpar = x.lpar] \in Storage!Call
        BY <2>1 DEF Storage!Call
      <4>2. request' = [request EXCEPT ![c] = [request[c] EXCEPT !.target = x.target, !.lpar = x.lpar]]
        BY <3>2
      <4> QED
        BY <4>1, <4>2
    <3> QED
      BY <1>5, <3>1, <3>2 DEF Storage!Finds
  <2> QED
    BY <1>5, <2>2 DEF Storage!Finds, Storage!Goes, Storage!Ends, Storage!Reads
<1>6. ASSUME NEW c \in Client, Storage!FindMapping(c) \/ Storage!FindMedium(c)
      PROVE  Storage!StorageTypeOK' /\ strangers' \in Nat
  <2>1. CASE Storage!FindMapping(c)
    <3> DEFINE found == {x \in maps : x.target = request[c].target /\ x.lpar \in Owned}
    <3>1. Storage!Finds(c, "detach_storage_mapping", found)
      BY <2>1 DEF Storage!FindMapping
    <3> QED
      BY <1>5, <3>1
  <2>2. CASE Storage!FindMedium(c)
    <3> DEFINE all == {x \in maps : x.kind = "medium" /\ x.name = request[c].name /\ x.lpar = request[c].lpar}
               found == {x \in all : all = {x}}
    <3>1. Storage!Finds(c, "unmount_optical_media", found)
      BY <2>2 DEF Storage!FindMedium
    <3> QED
      BY <1>5, <3>1
  <2> QED
    BY <1>6, <2>1, <2>2
<1>7. ASSUME NEW c \in Client, Storage!GetGroup(c) PROVE Storage!StorageTypeOK' /\ strangers' \in Nat
  <2>1. request[c] \in Storage!Call /\ request[c].op \in Storage!GroupWrites /\ group \in Groups
    BY <1>7 DEF Storage!GetGroup, Groups
  <2>2. \A g \in Storage!Edits(c, request[c], group) : g \in Groups
    BY <2>1, EditsTyped
  <2>3. draft' \in [Client -> [disks : SUBSET Names, repo : Sizes \cup {0}, media : SUBSET Storage!Medium]]
    BY <1>7, <2>2 DEF Storage!GetGroup, Storage!Refuses, Groups
  <2> QED
    BY <1>7, <2>3 DEF Storage!GetGroup, Storage!Refuses, Storage!Goes, Storage!Ends
<1>8. ASSUME NEW c \in Client, Storage!GetMappings(c) PROVE Storage!StorageTypeOK' /\ strangers' \in Nat
  <2>1. \A m \in Storage!Rewires(request[c], maps) : m \in SUBSET Storage!VscsiMapping
    BY RewiresTyped
  <2>2. rewired' \in [Client -> SUBSET Storage!VscsiMapping]
    BY <1>8, <2>1 DEF Storage!GetMappings, Storage!Refuses
  <2> QED
    BY <1>8, <2>2 DEF Storage!GetMappings, Storage!Refuses, Storage!Goes, Storage!Ends
<1>9. ASSUME NEW c \in Client, Storage!PostGroup(c) \/ Storage!PostMappings(c)
      PROVE  Storage!StorageTypeOK' /\ strangers' \in Nat
  <2>1. Becomes
    <3>1. CASE Storage!GroupBecomes(draft[c])
      BY <3>1, GroupBecomesTyped DEF Groups
    <3>2. CASE Storage!MapsBecome(rewired[c])
      BY <3>2, MapsBecomeTyped
    <3>3. CASE Storage!NotTaken(c)
      BY <3>3 DEF Storage!NotTaken, Groups
    <3> QED
      BY <1>9, <3>1, <3>2, <3>3 DEF Storage!PostGroup, Storage!PostMappings
  <2>2. Storage!Empty \in Groups
    BY DEF Storage!Empty, Groups
  <2>3. Storage!Forgets(c) /\ UNCHANGED <<files, intake, leaked, strangers, calls>>
    BY <1>9 DEF Storage!PostGroup, Storage!PostMappings, Storage!Posts
  <2>4. \E how \in {"done", "refused", "unverified", "lost"} : Storage!Ends(c, how)
    BY <1>9 DEF Storage!PostGroup, Storage!PostMappings, Storage!NotTaken, Storage!Unknown
  <2> QED
    BY <2>1, <2>2, <2>3, <2>4, NoCallIs DEF Groups, Storage!Ends, Storage!Forgets
<1>10. ASSUME NEW c \in Client, Storage!Look(c) \/ Storage!Download(c) \/ Storage!Recheck(c) \/ Storage!CreateFile(c)
       PROVE  Storage!StorageTypeOK' /\ strangers' \in Nat
  BY <1>10 DEF Storage!Look, Storage!Download, Storage!Recheck, Storage!CreateFile, Storage!Quiet, Storage!Goes,
               Storage!Ends
<1>11. ASSUME NEW c \in Client, Storage!Stream(c) \/ Storage!Poll(c) \/ Storage!Release(c)
       PROVE  Storage!StorageTypeOK' /\ strangers' \in Nat
  BY <1>11 DEF Storage!Stream, Storage!Poll, Storage!Release, Storage!Quiet, Storage!Goes
<1>12. ASSUME NEW c \in Client, Storage!Import(c) PROVE Storage!StorageTypeOK' /\ strangers' \in Nat
  <2>1. Becomes
    <3>1. [group EXCEPT !.media = @ \cup {<<request[c].name, c>>}] \in Groups
      BY DEF Groups, Storage!Medium, Storage!Call
    <3>2. CASE Storage!GroupBecomes([group EXCEPT !.media = @ \cup {<<request[c].name, c>>}])
      BY <3>1, <3>2, GroupBecomesTyped
    <3> QED
      BY <1>12, <3>2 DEF Storage!Import, Groups
  <2> QED
    BY <1>12, <2>1 DEF Storage!Import, Groups
<1> QED
  BY <1>1, <1>2, <1>3, <1>4, <1>6, <1>7, <1>8, <1>9, <1>10, <1>11, <1>12 DEF Storage!Next, Storage!Step

LEMMA StorageStarts == ASSUME Storage!Init, Storage!StorageAssumption PROVE StorageInv
<1> USE DEF Storage!Init
<1>1. Storage!StorageTypeOK
  BY NoCallIs DEF Storage!StorageTypeOK, Storage!Empty
<1>2. strangers \in Nat /\ Fresh /\ Allowed /\ Unmapped /\ NewSince /\ FileKept /\ Storage!UploadSeen
  BY NoCallIs DEF Fresh, Allowed, Unmapped, NewSince, FileKept, Storage!UploadSeen, Storage!MapWrites,
                  Storage!Detaches, Storage!Removals
<1> QED
  BY <1>1, <1>2 DEF StorageInv

\* What is posted is an edit of what is there, because each change leaves every ETag stale.
LEMMA StorageFresh ==
  ASSUME Storage!StorageTypeOK, Fresh, [Storage!Next]_Storage!vars PROVE Fresh'
<1> USE DEF Storage!StorageTypeOK
<1> SUFFICES ASSUME NEW c \in Client, (storagePc[c] = "post" /\ c \notin stale)'
             PROVE  (/\ request[c].op \in Storage!GroupWrites => draft[c] \in Storage!Edits(c, request[c], group)
                     /\ request[c].op \in Storage!MapWrites => rewired[c] \in Storage!Rewires(request[c], maps))'
  BY DEF Fresh
<1> DEFINE Same == /\ request'[c] = request[c] /\ draft'[c] = draft[c] /\ rewired'[c] = rewired[c]
                   /\ storagePc[c] = "post" /\ c \notin stale
           GroupStays == group' = group \/ request[c].op \notin Storage!GroupWrites
           MapsStay == maps' = maps \/ request[c].op \notin Storage!MapWrites
\* What another step leaves alone.
<1>1. ASSUME Same, GroupStays, MapsStay
      PROVE  (/\ request[c].op \in Storage!GroupWrites => draft[c] \in Storage!Edits(c, request[c], group)
              /\ request[c].op \in Storage!MapWrites => rewired[c] \in Storage!Rewires(request[c], maps))'
  <2>1. /\ request[c].op \in Storage!GroupWrites => draft[c] \in Storage!Edits(c, request[c], group)
        /\ request[c].op \in Storage!MapWrites => rewired[c] \in Storage!Rewires(request[c], maps)
    BY <1>1 DEF Fresh
  <2>2. group' = group => Storage!Edits(c, request[c], group)' = Storage!Edits(c, request[c], group)
    BY <1>1 DEF Storage!Edits, Storage!DiskCreated, Storage!DiskDeleted,
         Storage!RepositoryCreated, Storage!RepositoryDeleted, Storage!MediumCreated, Storage!MediumDeleted,
         Storage!Named
  <2>3. maps' = maps => Storage!Rewires(request[c], maps)' = Storage!Rewires(request[c], maps)
    BY <1>1 DEF Storage!Rewires, Storage!Detached, Storage!TargetInUse, Storage!Appended, Storage!New,
         Storage!Storage
  <2>4. (request[c].op)' = request[c].op /\ (draft[c])' = draft[c] /\ (rewired[c])' = rewired[c]
    BY <1>1
  <2> HIDE DEF Storage!StorageTypeOK
  <2> QED
    BY <1>1, <2>1, <2>2, <2>3, <2>4
<1>2. ASSUME NEW g, Storage!GroupBecomes(g), storagePc[c] = "post" PROVE GroupStays /\ MapsStay /\ c \notin stale
  BY <1>2 DEF Storage!GroupBecomes, Storage!Holds
<1>3. ASSUME NEW m, Storage!MapsBecome(m), storagePc[c] = "post" PROVE GroupStays /\ MapsStay /\ c \notin stale
  BY <1>3 DEF Storage!MapsBecome, Storage!Holds
<1>4. CASE UNCHANGED Storage!vars
  BY <1>1, <1>4 DEF Storage!vars, Storage!hmc, Storage!edits
<1>5. CASE Storage!OtherChanges
  <2>1. storagePc[c] = "post" /\ UNCHANGED <<request, draft, rewired>>
    BY <1>5 DEF Storage!OtherChanges, Storage!edits
  <2>2. (\E g : Storage!GroupBecomes(g)) \/ (\E m : Storage!MapsBecome(m))
    BY <1>5 DEF Storage!OtherChanges
  <2> QED
    BY <1>1, <1>2, <1>3, <2>1, <2>2
<1>6. ASSUME NEW d \in Client, Storage!Import(d)
      PROVE  (/\ request[c].op \in Storage!GroupWrites => draft[c] \in Storage!Edits(c, request[c], group)
              /\ request[c].op \in Storage!MapWrites => rewired[c] \in Storage!Rewires(request[c], maps))'
  <2>1. storagePc[c] = "post" /\ UNCHANGED <<request, draft, rewired>>
    BY <1>6 DEF Storage!Import, Storage!edits
  <2>2. (\E g : Storage!GroupBecomes(g)) \/ UNCHANGED <<group, maps, stale>>
    BY <1>6 DEF Storage!Import
  <2> QED
    BY <1>1, <1>2, <2>1, <2>2
<1>7. ASSUME NEW d \in Client, Storage!PostGroup(d) \/ Storage!PostMappings(d)
      PROVE  (/\ request[c].op \in Storage!GroupWrites => draft[c] \in Storage!Edits(c, request[c], group)
              /\ request[c].op \in Storage!MapWrites => rewired[c] \in Storage!Rewires(request[c], maps))'
  <2>1. \E how \in {"done", "refused", "unverified", "lost"} : Storage!Ends(d, how)
    BY <1>7 DEF Storage!PostGroup, Storage!PostMappings, Storage!NotTaken, Storage!Unknown
  <2>2. c # d /\ storagePc[c] = "post"
    BY <2>1 DEF Storage!Ends
  <2>3. request'[c] = request[c] /\ draft'[c] = draft[c] /\ rewired'[c] = rewired[c]
    BY <1>7, <2>2 DEF Storage!PostGroup, Storage!PostMappings, Storage!Posts, Storage!Forgets
  <2>4. Storage!GroupBecomes(draft[d]) \/ Storage!MapsBecome(rewired[d]) \/ UNCHANGED <<group, maps, stale>>
    BY <1>7 DEF Storage!PostGroup, Storage!PostMappings, Storage!NotTaken
  <2> QED
    BY <1>1, <1>2, <1>3, <2>2, <2>3, <2>4
<1>8. ASSUME NEW d \in Client, Storage!GetGroup(d)
      PROVE  (/\ request[c].op \in Storage!GroupWrites => draft[c] \in Storage!Edits(c, request[c], group)
              /\ request[c].op \in Storage!MapWrites => rewired[c] \in Storage!Rewires(request[c], maps))'
  <2>1. UNCHANGED <<group, maps, request>>
    BY <1>8 DEF Storage!GetGroup, Storage!hmc
  <2>2. CASE d = c
    <3>1. request[c].op \in Storage!GroupWrites /\ draft'[c] \in Storage!Edits(c, request[c], group)
      BY <1>8, <2>2 DEF Storage!GetGroup, Storage!Goes, Storage!Ends, Storage!Refuses
    <3>2. request[c].op \notin Storage!MapWrites
      BY <3>1 DEF Storage!GroupWrites, Storage!MapWrites, Storage!Detaches
    <3>3. Storage!Edits(c, request[c], group)' = Storage!Edits(c, request[c], group)
      BY <2>1 DEF Storage!Edits, Storage!DiskCreated, Storage!DiskDeleted,
         Storage!RepositoryCreated, Storage!RepositoryDeleted, Storage!MediumCreated, Storage!MediumDeleted,
         Storage!Named
    <3>4. (request[c].op)' = request[c].op
      BY <2>1
    <3> HIDE DEF Storage!StorageTypeOK
    <3> QED
      BY <3>1, <3>2, <3>3, <3>4
  <2>3. CASE d # c
    <3>1. Same
      BY <1>8, <2>1, <2>3 DEF Storage!GetGroup, Storage!Goes, Storage!Ends, Storage!Refuses, Storage!edits
    <3> QED
      BY <1>1, <2>1, <3>1
  <2> QED
    BY <2>2, <2>3
<1>9. ASSUME NEW d \in Client, Storage!GetMappings(d)
      PROVE  (/\ request[c].op \in Storage!GroupWrites => draft[c] \in Storage!Edits(c, request[c], group)
              /\ request[c].op \in Storage!MapWrites => rewired[c] \in Storage!Rewires(request[c], maps))'
  <2>1. UNCHANGED <<group, maps, request>>
    BY <1>9 DEF Storage!GetMappings, Storage!hmc
  <2>2. CASE d = c
    <3>1. request[c].op \in Storage!MapWrites /\ rewired'[c] \in Storage!Rewires(request[c], maps)
      BY <1>9, <2>2 DEF Storage!GetMappings, Storage!Goes, Storage!Ends, Storage!Refuses
    <3>2. request[c].op \notin Storage!GroupWrites
      BY <3>1 DEF Storage!GroupWrites, Storage!MapWrites, Storage!Detaches
    <3>3. Storage!Rewires(request[c], maps)' = Storage!Rewires(request[c], maps)
      BY <2>1 DEF Storage!Rewires, Storage!Detached, Storage!TargetInUse, Storage!Appended, Storage!New,
         Storage!Storage
    <3>4. (request[c].op)' = request[c].op
      BY <2>1
    <3> HIDE DEF Storage!StorageTypeOK
    <3> QED
      BY <3>1, <3>2, <3>3, <3>4
  <2>3. CASE d # c
    <3>1. Same
      BY <1>9, <2>1, <2>3 DEF Storage!GetMappings, Storage!Goes, Storage!Ends, Storage!Refuses, Storage!edits
    <3> QED
      BY <1>1, <2>1, <3>1
  <2> QED
    BY <2>2, <2>3
<1>10. ASSUME NEW d \in Client,
              \/ \E k \in Storage!Request : Storage!Begin(d, k)
              \/ Storage!CheckDisk(d) \/ Storage!CheckMedium(d) \/ Storage!CheckRepository(d)
              \/ Storage!FindMapping(d) \/ Storage!FindMedium(d)
       PROVE  Same /\ GroupStays /\ MapsStay
  <2>1. UNCHANGED <<group, maps, draft, rewired, stale>>
    BY <1>10 DEF Storage!Begin, Storage!CheckDisk, Storage!CheckMedium, Storage!CheckRepository,
       Storage!FindMapping, Storage!FindMedium, Storage!Listed, Storage!Finds, Storage!Reads, Storage!hmc, Storage!edits
  <2>2. d # c /\ storagePc[c] = "post" /\ request'[c] = request[c]
    BY <1>10 DEF Storage!Begin, Storage!CheckDisk, Storage!CheckMedium, Storage!CheckRepository,
       Storage!FindMapping, Storage!FindMedium, Storage!Listed, Storage!Finds, Storage!Goes, Storage!Ends, Storage!First
  <2> QED
    BY <2>1, <2>2
<1>11. ASSUME NEW d \in Client,
              \/ Storage!Look(d) \/ Storage!Download(d) \/ Storage!Recheck(d) \/ Storage!CreateFile(d)
              \/ Storage!Stream(d) \/ Storage!Poll(d) \/ Storage!Release(d)
       PROVE  Same /\ GroupStays /\ MapsStay
  <2> USE DEF Storage!Look, Storage!Download, Storage!Recheck, Storage!CreateFile, Storage!Stream, Storage!Poll,
              Storage!Release, Storage!Quiet, Storage!Goes, Storage!Ends, Storage!edits
  <2>1. UNCHANGED <<group, maps, draft, rewired, stale, request>>
    BY <1>11
  <2>2. storagePc[c] = "post"
    BY <1>11
  <2> QED
    BY <2>1, <2>2
<1> QED
  BY <1>1, <1>4, <1>5, <1>6, <1>7, <1>8, <1>9, <1>10, <1>11 DEF Storage!Next, Storage!Step

\* What a call that looks for a mapping learns.
LEMMA FindsOne ==
  ASSUME Storage!StorageTypeOK, NEW d \in Client, NEW op, NEW found, Storage!Finds(d, op, found)
  PROVE  /\ \A e \in Client \ {d} : request'[e] = request[e] /\ storagePc'[e] = storagePc[e]
         /\ storagePc[d] = "check" /\ request[d].op = op /\ request'[d].op = op
         /\ storagePc'[d] = "idle" \/ (storagePc'[d] = "get" /\ \E x \in found : request'[d].lpar = x.lpar)
<1> USE DEF Storage!StorageTypeOK
<1>1. CASE /\ \E x \in found : request' = [request EXCEPT ![d].target = x.target, ![d].lpar = x.lpar]
           /\ storagePc' = [storagePc EXCEPT ![d] = "get"]
  <2>1. PICK x \in found : request' = [request EXCEPT ![d].target = x.target, ![d].lpar = x.lpar]
    BY <1>1
  <2>2. request'[d] = [request[d] EXCEPT !.target = x.target, !.lpar = x.lpar]
    BY <2>1
  <2>3. request'[d].lpar = x.lpar /\ request'[d].op = request[d].op
    BY <2>2 DEF Storage!Call
  <2> QED
    BY <1>1, <2>1, <2>3 DEF Storage!Finds
<1>2. CASE request' = request /\ storagePc' = [storagePc EXCEPT ![d] = "idle"]
  BY <1>2 DEF Storage!Finds
<1> QED
  BY <1>1, <1>2 DEF Storage!Finds, Storage!Goes, Storage!Ends

\* Every partition a mapping write works for has been authorized.
LEMMA StorageAllowed ==
  ASSUME Storage!StorageTypeOK, Allowed, Storage!StorageAssumption, [Storage!Next]_Storage!vars PROVE Allowed'
<1> USE DEF Storage!StorageTypeOK, Allowed
<1>1. CASE UNCHANGED Storage!vars \/ Storage!OtherChanges \/ \E d \in Client : Storage!Import(d)
  BY <1>1 DEF Storage!vars, Storage!OtherChanges, Storage!Import
<1>2. ASSUME NEW d \in Client, NEW k \in Storage!Request, Storage!Begin(d, k) PROVE Allowed'
  BY <1>2 DEF Storage!Begin, Storage!Goes, Storage!First, Storage!Detaches, Storage!MapWrites
<1>3. ASSUME NEW d \in Client, Storage!CheckDisk(d) \/ Storage!CheckMedium(d) \/ Storage!CheckRepository(d)
      PROVE  Allowed'
  <2>1. request[d].op \notin Storage!MapWrites /\ request' = request
    BY <1>3 DEF Storage!CheckDisk, Storage!CheckMedium, Storage!CheckRepository, Storage!Listed,
                Storage!MapWrites, Storage!Detaches
  <2>2. \A e \in Client \ {d} : storagePc'[e] = storagePc[e]
    BY <1>3 DEF Storage!CheckDisk, Storage!CheckMedium, Storage!CheckRepository, Storage!Listed, Storage!Goes, Storage!Ends
  <2>3. \A e \in Client \ {d} : (request[e].lpar)' = request[e].lpar /\ (request[e].op)' = request[e].op
    BY <2>1
  <2> QED
    BY <2>1, <2>2, <2>3
<1>5. ASSUME NEW d \in Client, Storage!FindMapping(d) \/ Storage!FindMedium(d) PROVE Allowed'
  <2> DEFINE mine == {x \in maps : x.target = request[d].target /\ x.lpar \in Owned}
             all == {x \in maps : x.kind = "medium" /\ x.name = request[d].name /\ x.lpar = request[d].lpar}
             one == {x \in all : all = {x}}
  <2>1. Storage!Finds(d, "detach_storage_mapping", mine) \/ Storage!Finds(d, "unmount_optical_media", one)
    BY <1>5 DEF Storage!FindMapping, Storage!FindMedium
  <2>2. request[d].op = "unmount_optical_media" /\ storagePc[d] = "check" => request[d].lpar \in Owned
    BY DEF Storage!MapWrites, Storage!Detaches
  <2>3. storagePc'[d] = "idle" \/ request'[d].lpar \in Owned
    <3>1. CASE Storage!Finds(d, "detach_storage_mapping", mine)
      <4> HIDE DEF mine
      <4>1. storagePc'[d] = "idle" \/ \E x \in mine : request'[d].lpar = x.lpar
        BY <3>1, FindsOne
      <4> QED
        BY <4>1 DEF mine
    <3>2. CASE Storage!Finds(d, "unmount_optical_media", one)
      BY <2>2, <3>2, FindsOne
    <3> QED
      BY <2>1, <3>1, <3>2
  <2>4. \A e \in Client \ {d} : request'[e] = request[e] /\ storagePc'[e] = storagePc[e]
    BY <2>1, FindsOne
  <2> QED
    BY <2>3, <2>4
<1>6. ASSUME NEW d \in Client, Storage!GetGroup(d) \/ Storage!GetMappings(d) PROVE Allowed'
  BY <1>6 DEF Storage!GetGroup, Storage!GetMappings, Storage!Refuses, Storage!Goes, Storage!Ends
<1>7. ASSUME NEW d \in Client, Storage!PostGroup(d) \/ Storage!PostMappings(d) PROVE Allowed'
  <2>1. \E how \in {"done", "refused", "unverified", "lost"} : Storage!Ends(d, how)
    BY <1>7 DEF Storage!PostGroup, Storage!PostMappings, Storage!NotTaken, Storage!Unknown
  <2>2. request' = [request EXCEPT ![d] = Storage!NoCall]
    BY <1>7 DEF Storage!PostGroup, Storage!PostMappings, Storage!Posts, Storage!Forgets
  <2> QED
    BY <2>1, <2>2 DEF Storage!Ends
<1>8. ASSUME NEW d \in Client,
             \/ Storage!Look(d) \/ Storage!Download(d) \/ Storage!Recheck(d) \/ Storage!CreateFile(d)
             \/ Storage!Stream(d) \/ Storage!Poll(d) \/ Storage!Release(d)
      PROVE  Allowed'
  BY <1>8 DEF Storage!Look, Storage!Download, Storage!Recheck, Storage!CreateFile, Storage!Stream, Storage!Poll,
              Storage!Release, Storage!Quiet, Storage!Goes, Storage!Ends
<1> QED
  BY <1>1, <1>2, <1>3, <1>5, <1>6, <1>7, <1>8 DEF Storage!Next, Storage!Step

\* A removal goes on only after a state in which its storage was not mapped.
LEMMA StorageUnmapped ==
  ASSUME Storage!StorageTypeOK, Unmapped, [Storage!Next]_Storage!vars PROVE Unmapped'
<1> USE DEF Storage!StorageTypeOK, Unmapped
\* A step of another call, or of the HMC: what stays mapped was mapped.
<1>1. ASSUME NEW c \in Client, request'[c] = request[c], storagePc'[c] = storagePc[c],
             \/ \E m : Storage!MapsBecome(m)
             \/ maps' = maps /\ (c \in free => c \in free'),
             request[c].op \in Storage!Removals
      PROVE  /\ storagePc[c] \in {"get", "post"} => c \in free'
             /\ storagePc[c] = "check" /\ ~Storage!Mapped(request[c], maps)' => c \in free'
  <2>1. CASE maps' = maps /\ (c \in free => c \in free')
    <3>1. Storage!Mapped(request[c], maps)' = Storage!Mapped(request[c], maps)
      BY <1>1, <2>1 DEF Storage!Mapped, Storage!Storage
    <3> QED
      BY <1>1, <2>1, <3>1
  <2>2. ASSUME NEW m, Storage!MapsBecome(m) PROVE (c \in free => c \in free') /\ (~Storage!Mapped(request[c], maps)' => c \in free')
    <3>1. Storage!Mapped(request[c], maps)' = Storage!Mapped(request[c], m)
      BY <1>1, <2>2 DEF Storage!Mapped, Storage!Storage, Storage!MapsBecome
    <3> QED
      BY <1>1, <2>2, <3>1 DEF Storage!MapsBecome
  <2> QED
    BY <1>1, <2>1, <2>2
<1>2. ASSUME NEW d \in Client,
             \A c \in Client \ {d} : request'[c] = request[c] /\ storagePc'[c] = storagePc[c],
             \/ \E m : Storage!MapsBecome(m)
             \/ maps' = maps /\ free \ {d} \subseteq free',
             request'[d].op \in Storage!Removals => storagePc'[d] \notin {"check", "get", "post"}
      PROVE  Unmapped'
  BY <1>1, <1>2
<1>3. CASE UNCHANGED Storage!vars \/ Storage!OtherChanges \/ \E d \in Client : Storage!Import(d)
  <2>1. \A c \in Client : request'[c] = request[c] /\ storagePc'[c] = storagePc[c]
    BY <1>3 DEF Storage!vars, Storage!OtherChanges, Storage!Import
  <2>2. (\E m : Storage!MapsBecome(m)) \/ (maps' = maps /\ free' = free)
    BY <1>3 DEF Storage!vars, Storage!hmc, Storage!history, Storage!OtherChanges, Storage!Import, Storage!GroupBecomes
  <2> QED
    BY <1>1, <2>1, <2>2
<1>4. ASSUME NEW d \in Client, NEW k \in Storage!Request, Storage!Begin(d, k) PROVE Unmapped'
  <2>1. \A c \in Client \ {d} : request'[c] = request[c] /\ storagePc'[c] = storagePc[c]
    BY <1>4 DEF Storage!Begin, Storage!Goes
  <2>2. maps' = maps /\ free \ {d} \subseteq free' /\ request'[d] = k /\ storagePc'[d] = Storage!First(k)
    BY <1>4 DEF Storage!Begin, Storage!Goes, Storage!hmc
  <2>3. k.op \in Storage!Removals => storagePc'[d] = "check" /\ (~Storage!Mapped(request[d], maps)' => d \in free')
    <3>1. Storage!Mapped(request[d], maps)' = Storage!Mapped(k, maps)
      BY <2>2 DEF Storage!Mapped, Storage!Storage
    <3>2. k.op \in Storage!Removals => Storage!First(k) = "check"
      BY DEF Storage!First, Storage!Removals
    <3>3. k.op \in Storage!Removals /\ ~Storage!Mapped(k, maps) => d \in free'
      BY <1>4 DEF Storage!Begin
    <3> QED
      BY <2>2, <3>1, <3>2, <3>3
  <2> QED
    BY <1>1, <2>1, <2>2, <2>3
<1>5. ASSUME NEW d \in Client, Storage!CheckDisk(d) \/ Storage!CheckMedium(d) \/ Storage!CheckRepository(d)
      PROVE  Unmapped'
  <2> USE DEF Storage!CheckDisk, Storage!CheckMedium, Storage!CheckRepository, Storage!Listed, Storage!Goes,
              Storage!Ends, Storage!Reads, Storage!hmc, Storage!history
  <2>1. \A c \in Client \ {d} : request'[c] = request[c] /\ storagePc'[c] = storagePc[c]
    BY <1>5
  <2>2. UNCHANGED <<maps, free, request>> /\ storagePc[d] = "check" /\ storagePc'[d] \in {"get", "idle"}
    BY <1>5
  <2>3. storagePc'[d] = "get" /\ request[d].op \in Storage!Removals => ~Storage!Mapped(request[d], maps)
    BY <1>5 DEF Storage!Removals
  <2>4. request[d].op \in Storage!Removals /\ storagePc'[d] = "get" => d \in free'
    BY <2>2, <2>3
  <2>5. \A c \in Client \ {d} : Storage!Mapped(request[c], maps)' = Storage!Mapped(request[c], maps)
    BY <2>1, <2>2 DEF Storage!Mapped, Storage!Storage
  <2> QED
    BY <1>1, <2>1, <2>2, <2>4
<1>6. ASSUME NEW d \in Client, Storage!FindMapping(d) \/ Storage!FindMedium(d) PROVE Unmapped'
  <2>1. UNCHANGED <<maps, free>>
    BY <1>6 DEF Storage!FindMapping, Storage!FindMedium, Storage!Finds, Storage!Reads, Storage!hmc, Storage!history
  <2>2. (\E f : Storage!Finds(d, "detach_storage_mapping", f)) \/ (\E f : Storage!Finds(d, "unmount_optical_media", f))
    BY <1>6 DEF Storage!FindMapping, Storage!FindMedium
  <2>3. /\ \A e \in Client \ {d} : request'[e] = request[e] /\ storagePc'[e] = storagePc[e]
        /\ request'[d].op \in {"detach_storage_mapping", "unmount_optical_media"}
    BY <2>2, FindsOne
  <2> QED
    BY <1>2, <2>1, <2>3 DEF Storage!Removals
<1>7. ASSUME NEW d \in Client, Storage!GetGroup(d) \/ Storage!GetMappings(d) PROVE Unmapped'
  <2>1. UNCHANGED <<maps, free, request>>
    BY <1>7 DEF Storage!GetGroup, Storage!GetMappings, Storage!hmc, Storage!history
  <2>2. /\ storagePc[d] = "get" /\ storagePc'[d] \in {"post", "idle"}
        /\ \A c \in Client \ {d} : storagePc'[c] = storagePc[c]
    BY <1>7 DEF Storage!GetGroup, Storage!GetMappings, Storage!Refuses, Storage!Goes, Storage!Ends
  <2> QED
    BY <1>1, <2>1, <2>2
<1>8. ASSUME NEW d \in Client, Storage!PostGroup(d) \/ Storage!PostMappings(d) PROVE Unmapped'
  <2>1. (\E m : Storage!MapsBecome(m)) \/ (maps' = maps /\ free' = free)
    BY <1>8 DEF Storage!PostGroup, Storage!PostMappings, Storage!NotTaken, Storage!GroupBecomes
  <2>2. \E how \in {"done", "refused", "unverified", "lost"} : Storage!Ends(d, how)
    BY <1>8 DEF Storage!PostGroup, Storage!PostMappings, Storage!NotTaken, Storage!Unknown
  <2>3. request' = [request EXCEPT ![d] = Storage!NoCall]
    BY <1>8 DEF Storage!PostGroup, Storage!PostMappings, Storage!Posts, Storage!Forgets
  <2> QED
    BY <1>2, <2>1, <2>2, <2>3 DEF Storage!Ends
<1>9. ASSUME NEW d \in Client,
             \/ Storage!Look(d) \/ Storage!Download(d) \/ Storage!Recheck(d) \/ Storage!CreateFile(d)
             \/ Storage!Stream(d) \/ Storage!Poll(d) \/ Storage!Release(d)
      PROVE  Unmapped'
  <2> USE DEF Storage!Look, Storage!Download, Storage!Recheck, Storage!CreateFile, Storage!Stream, Storage!Poll,
              Storage!Release, Storage!Quiet, Storage!Goes, Storage!Ends
  <2>1. UNCHANGED <<maps, free, request>> /\ \A c \in Client \ {d} : storagePc'[c] = storagePc[c]
    BY <1>9
  <2>2. storagePc'[d] \notin {"check", "get", "post"}
    BY <1>9
  <2> QED
    BY <1>2, <2>1, <2>2
<1> QED
  BY <1>3, <1>4, <1>5, <1>6, <1>7, <1>8, <1>9 DEF Storage!Next, Storage!Step

\* From its second look an upload sees every medium of its name arrive, and it reports one.
LEMMA StorageSees ==
  ASSUME Storage!StorageTypeOK, NewSince, Storage!UploadSeen, [Storage!Next]_Storage!vars
  PROVE  NewSince' /\ Storage!UploadSeen'
<1> USE DEF Storage!StorageTypeOK, NewSince, Storage!UploadSeen, Storage!hmc, Storage!history
<1> DEFINE Still(c) == request'[c] = request[c] /\ storagePc'[c] = storagePc[c] /\ outcome'[c] = outcome[c]
           Kept(c) == /\ storagePc'[c] \in {"file", "stream", "poll"} =>
                           Storage!Named(group'.media, request'[c].name) \subseteq since'[c]
                      /\ outcome'[c] = "uploaded" /\ storagePc'[c] = "release" => since'[c] # {}
\* Nothing new in the group, or what is new is noted.
<1>1. ASSUME NEW c \in Client, Still(c), (\E g : Storage!GroupBecomes(g)) \/ (group' = group /\ since'[c] = since[c])
      PROVE  Kept(c)
  <2>1. CASE group' = group /\ since'[c] = since[c]
    BY <1>1, <2>1
  <2>2. ASSUME NEW g, Storage!GroupBecomes(g) PROVE Kept(c)
    <3>1. since'[c] = IF storagePc[c] \in {"file", "stream", "poll"}
                      THEN since[c] \cup Storage!Named(group'.media \ group.media, request[c].name) ELSE since[c]
      BY <2>2 DEF Storage!GroupBecomes
    <3> QED
      BY <1>1, <3>1 DEF Storage!Named
  <2> QED
    BY <1>1, <2>1, <2>2
<1>2. ASSUME NEW d \in Client, \A c \in Client \ {d} : Still(c), Kept(d),
             \/ \E g : Storage!GroupBecomes(g)
             \/ group' = group /\ \A c \in Client \ {d} : since'[c] = since[c]
      PROVE  NewSince' /\ Storage!UploadSeen'
  <2>1. \A c \in Client : Kept(c)
    BY <1>1, <1>2
  <2> QED
    BY <2>1
<1>3. CASE UNCHANGED Storage!vars \/ Storage!OtherChanges \/ \E d \in Client : Storage!Import(d)
  <2>1. \A c \in Client : Still(c)
    BY <1>3 DEF Storage!vars, Storage!OtherChanges, Storage!Import
  <2>2. (\E g : Storage!GroupBecomes(g)) \/ (group' = group /\ since' = since)
    BY <1>3 DEF Storage!vars, Storage!OtherChanges, Storage!Import, Storage!MapsBecome
  <2>3. \A c \in Client : Kept(c)
    BY <1>1, <2>1, <2>2
  <2> QED
    BY <2>3
<1>4. ASSUME NEW d \in Client, NEW k \in Storage!Request, Storage!Begin(d, k) PROVE NewSince' /\ Storage!UploadSeen'
  <2>1. /\ \A c \in Client \ {d} : Still(c) /\ since'[c] = since[c]
        /\ group' = group /\ storagePc'[d] = Storage!First(k)
    BY <1>4 DEF Storage!Begin, Storage!Goes
  <2>2. Storage!First(k) \notin {"file", "stream", "poll", "release"}
    BY DEF Storage!First
  <2> QED
    BY <1>2, <2>1, <2>2
<1>5. ASSUME NEW d \in Client, Storage!CheckDisk(d) \/ Storage!CheckMedium(d) \/ Storage!CheckRepository(d)
      PROVE  NewSince' /\ Storage!UploadSeen'
  <2> USE DEF Storage!CheckDisk, Storage!CheckMedium, Storage!CheckRepository, Storage!Listed, Storage!Goes,
              Storage!Ends, Storage!Reads
  <2>1. /\ \A c \in Client \ {d} : Still(c) /\ since'[c] = since[c]
        /\ group' = group /\ storagePc'[d] \in {"get", "idle"}
    BY <1>5
  <2> QED
    BY <1>2, <2>1
<1>6. ASSUME NEW d \in Client, Storage!FindMapping(d) \/ Storage!FindMedium(d) PROVE NewSince' /\ Storage!UploadSeen'
  <2> USE DEF Storage!FindMapping, Storage!FindMedium
  <2>1. UNCHANGED <<group, since>> /\ \A c \in Client \ {d} : outcome'[c] = outcome[c]
    BY <1>6 DEF Storage!Finds, Storage!Reads, Storage!Goes, Storage!Ends
  <2>2. (\E f : Storage!Finds(d, "detach_storage_mapping", f)) \/ (\E f : Storage!Finds(d, "unmount_optical_media", f))
    BY <1>6
  <2>3. /\ \A e \in Client \ {d} : request'[e] = request[e] /\ storagePc'[e] = storagePc[e]
        /\ storagePc'[d] \in {"idle", "get"}
    BY <2>2, FindsOne
  <2> QED
    BY <1>2, <2>1, <2>3
<1>7. ASSUME NEW d \in Client, Storage!GetGroup(d) \/ Storage!GetMappings(d) PROVE NewSince' /\ Storage!UploadSeen'
  <2>1. UNCHANGED <<group, since, request>>
    BY <1>7 DEF Storage!GetGroup, Storage!GetMappings
  <2>2. /\ storagePc'[d] \in {"post", "idle"}
        /\ \A c \in Client \ {d} : storagePc'[c] = storagePc[c] /\ outcome'[c] = outcome[c]
    BY <1>7 DEF Storage!GetGroup, Storage!GetMappings, Storage!Refuses, Storage!Goes, Storage!Ends
  <2> QED
    BY <1>2, <2>1, <2>2
<1>8. ASSUME NEW d \in Client, Storage!PostGroup(d) \/ Storage!PostMappings(d)
      PROVE  NewSince' /\ Storage!UploadSeen'
  <2>1. (\E g : Storage!GroupBecomes(g)) \/ (group' = group /\ since' = since)
    BY <1>8 DEF Storage!PostGroup, Storage!PostMappings, Storage!NotTaken, Storage!MapsBecome
  <2>2. \E how \in {"done", "refused", "unverified", "lost"} : Storage!Ends(d, how)
    BY <1>8 DEF Storage!PostGroup, Storage!PostMappings, Storage!NotTaken, Storage!Unknown
  <2>3. request' = [request EXCEPT ![d] = Storage!NoCall]
    BY <1>8 DEF Storage!PostGroup, Storage!PostMappings, Storage!Posts, Storage!Forgets
  <2>4. storagePc'[d] = "idle" /\ \A c \in Client \ {d} : Still(c)
    BY <2>2, <2>3 DEF Storage!Ends
  <2> QED
    BY <1>2, <2>1, <2>4
<1>9. ASSUME NEW d \in Client,
             \/ Storage!Look(d) \/ Storage!Download(d) \/ Storage!Recheck(d) \/ Storage!CreateFile(d)
             \/ Storage!Stream(d) \/ Storage!Poll(d) \/ Storage!Release(d)
      PROVE  NewSince' /\ Storage!UploadSeen'
  <2>1. group' = group /\ request' = request
        /\ \A c \in Client \ {d} : since'[c] = since[c] /\ storagePc'[c] = storagePc[c] /\ outcome'[c] = outcome[c]
    BY <1>9 DEF Storage!Look, Storage!Download, Storage!Recheck, Storage!CreateFile, Storage!Stream, Storage!Poll,
              Storage!Release, Storage!Quiet, Storage!Goes, Storage!Ends
  <2>2. CASE Storage!Look(d) \/ Storage!Download(d)
    <3>1. storagePc'[d] \in {"download", "recheck", "idle"}
      BY <2>2 DEF Storage!Look, Storage!Download, Storage!Goes, Storage!Ends
    <3> QED
      BY <1>2, <2>1, <3>1
  <2>3. CASE Storage!Recheck(d)
    <3>1. \/ storagePc'[d] = "idle"
          \/ storagePc'[d] = "file" /\ Storage!Named(group.media, request[d].name) = {}
      BY <2>3 DEF Storage!Recheck, Storage!Goes, Storage!Ends
    <3> QED
      BY <1>2, <2>1, <3>1
  <2>4. CASE Storage!CreateFile(d)
    <3>1. storagePc'[d] \in {"stream", "idle"} /\ storagePc[d] = "file" /\ since' = since
      BY <2>4 DEF Storage!CreateFile, Storage!Goes, Storage!Ends
    <3> QED
      BY <1>2, <2>1, <3>1
  <2>5. CASE Storage!Stream(d)
    <3>1. /\ storagePc[d] = "stream" /\ since' = since
          /\ storagePc'[d] = "poll" \/ (storagePc'[d] = "release" /\ outcome'[d] = "failed")
      BY <2>5 DEF Storage!Stream, Storage!Goes
    <3> QED
      BY <1>2, <2>1, <3>1
  <2>6. CASE Storage!Poll(d)
    <3>1. /\ storagePc[d] = "poll" /\ since' = since /\ storagePc'[d] = "release"
          /\ outcome'[d] = "uploaded" => Storage!Named(group.media, request[d].name) # {}
      BY <2>6 DEF Storage!Poll
    <3> QED
      BY <1>2, <2>1, <3>1
  <2>7. CASE Storage!Release(d)
    <3>1. storagePc'[d] = "idle"
      BY <2>7 DEF Storage!Release
    <3> QED
      BY <1>2, <2>1, <3>1
  <2> QED
    BY <1>9, <2>2, <2>3, <2>4, <2>5, <2>6, <2>7
<1> QED
  BY <1>3, <1>4, <1>5, <1>6, <1>7, <1>8, <1>9 DEF Storage!Next, Storage!Step

\* Only the steps of an upload touch its web File.
LEMMA StorageReleases ==
  ASSUME Storage!StorageTypeOK, FileKept, [Storage!Next]_Storage!vars PROVE FileKept'
<1> USE DEF Storage!StorageTypeOK, FileKept, Storage!hmc, Storage!history
<1>1. CASE UNCHANGED Storage!vars \/ Storage!OtherChanges \/ \E d \in Client : Storage!Import(d)
  BY <1>1 DEF Storage!vars, Storage!OtherChanges, Storage!Import
<1>2. ASSUME NEW d \in Client, UNCHANGED <<files, leaked>>, \A c \in Client \ {d} : storagePc'[c] = storagePc[c],
             storagePc[d] \notin {"stream", "poll", "release"} \/ storagePc'[d] \in {"stream", "poll", "release"}
      PROVE  FileKept'
  BY <1>2
<1>3. ASSUME NEW d \in Client,
             \/ \E k \in Storage!Request : Storage!Begin(d, k)
             \/ Storage!CheckDisk(d) \/ Storage!CheckMedium(d) \/ Storage!CheckRepository(d)
             \/ Storage!GetGroup(d) \/ Storage!GetMappings(d)
      PROVE  FileKept'
  BY <1>2, <1>3 DEF Storage!Begin, Storage!CheckDisk, Storage!CheckMedium, Storage!CheckRepository, Storage!Listed,
     Storage!GetGroup, Storage!GetMappings, Storage!Refuses, Storage!Goes, Storage!Ends, Storage!Reads
<1>4. ASSUME NEW d \in Client, Storage!FindMapping(d) \/ Storage!FindMedium(d) PROVE FileKept'
  <2>1. UNCHANGED <<files, leaked>>
    BY <1>4 DEF Storage!FindMapping, Storage!FindMedium, Storage!Finds, Storage!Reads
  <2>2. (\E f : Storage!Finds(d, "detach_storage_mapping", f)) \/ (\E f : Storage!Finds(d, "unmount_optical_media", f))
    BY <1>4 DEF Storage!FindMapping, Storage!FindMedium
  <2>3. storagePc[d] = "check" /\ \A e \in Client \ {d} : storagePc'[e] = storagePc[e]
    BY <2>2, FindsOne
  <2> QED
    BY <1>2, <2>1, <2>3
<1>5. ASSUME NEW d \in Client, Storage!PostGroup(d) \/ Storage!PostMappings(d) PROVE FileKept'
  <2>1. \E how \in {"done", "refused", "unverified", "lost"} : Storage!Ends(d, how)
    BY <1>5 DEF Storage!PostGroup, Storage!PostMappings, Storage!NotTaken, Storage!Unknown
  <2>2. UNCHANGED <<files, leaked>> /\ storagePc[d] = "post"
    BY <1>5 DEF Storage!PostGroup, Storage!PostMappings, Storage!Posts, Storage!Holds
  <2> QED
    BY <1>2, <2>1, <2>2 DEF Storage!Ends
<1>6. ASSUME NEW d \in Client,
             \/ Storage!Look(d) \/ Storage!Download(d) \/ Storage!Recheck(d) \/ Storage!Stream(d) \/ Storage!Poll(d)
      PROVE  FileKept'
  BY <1>2, <1>6 DEF Storage!Look, Storage!Download, Storage!Recheck, Storage!Stream, Storage!Poll, Storage!Quiet,
     Storage!Goes, Storage!Ends
<1>7. ASSUME NEW d \in Client, Storage!CreateFile(d) \/ Storage!Release(d) PROVE FileKept'
  BY <1>7 DEF Storage!CreateFile, Storage!Release, Storage!Quiet, Storage!Goes, Storage!Ends
<1> QED
  BY <1>1, <1>3, <1>4, <1>5, <1>6, <1>7 DEF Storage!Next, Storage!Step

LEMMA StorageStep ==
  ASSUME StorageInv, Storage!StorageAssumption, [Storage!Next]_Storage!vars PROVE StorageInv'
BY StorageTyped, StorageFresh, StorageAllowed, StorageUnmapped, StorageSees, StorageReleases DEF StorageInv

\* What a call reports and what it leaves behind.
LEMMA StorageHonest == ASSUME StorageInv PROVE Storage!CallsHonest
BY DEF StorageInv, Unmapped, FileKept, Storage!CallsHonest, Storage!InUseKept, Storage!FilesReleased,
       Storage!StorageTypeOK

LEMMA OneAtMost == ASSUME NEW S, NEW x, S \subseteq {x} PROVE Storage!Cardinality(S) <= 1
<1>1. IsFiniteSet({x}) /\ Cardinality({x}) = 1
  BY FS_Singleton
<1>2. IsFiniteSet(S) /\ Cardinality(S) <= Cardinality({x})
  BY <1>1, FS_Subset
<1>3. Storage!Cardinality(S) = Cardinality(S)
  BY DEF Storage!Cardinality, Cardinality
<1> QED
  BY <1>1, <1>2, <1>3

\* Two lists of what the VIOS holds differ in nothing but x.
Differ(g, m, h, r, x) ==
  (Storage!Contents(g, m) \ Storage!Contents(h, r)) \cup (Storage!Contents(h, r) \ Storage!Contents(g, m)) \subseteq {x}

LEMMA DiskDiffers ==
  ASSUME NEW g \in Groups, NEW h \in Groups, NEW m, NEW n, g.repo = h.repo, g.media = h.media,
         g.disks \cup {n} = h.disks \cup {n}
  PROVE  Differ(g, m, h, m, <<"disk", n>>)
BY DEF Differ, Storage!Contents

LEMMA MediumDiffers ==
  ASSUME NEW g \in Groups, NEW h \in Groups, NEW m, NEW x, g.repo = h.repo, g.disks = h.disks,
         g.media \cup {x} = h.media \cup {x}
  PROVE  Differ(g, m, h, m, <<"medium", x>>)
BY DEF Differ, Storage!Contents

LEMMA RepositoryDiffers ==
  ASSUME NEW g \in Groups, NEW h \in Groups, NEW m, NEW s, g.disks = h.disks, g.media = h.media,
         {g.repo, h.repo} \subseteq {0, s}
  PROVE  Differ(g, m, h, m, <<"repository", s>>)
BY DEF Differ, Storage!Contents

LEMMA MappingDiffers ==
  ASSUME NEW g, NEW m, NEW r, NEW x, m \cup {x} = r \cup {x} PROVE Differ(g, m, g, r, <<"mapping", x>>)
BY DEF Differ, Storage!Contents

\* An operation edits one thing of the group.
LEMMA EditsOne ==
  ASSUME NEW c \in Client, NEW k \in Storage!Call, k.op \in Storage!GroupWrites, NEW g \in Groups,
         NEW h \in Storage!Edits(c, k, g), NEW m
  PROVE  \E x : Differ(g, m, h, m, x)
<1>1. h \in Groups
  BY EditsTyped
<1>2. CASE k.op = "create_virtual_disk" \/ k.op = "delete_virtual_disk"
  <2>1. g.repo = h.repo /\ g.media = h.media /\ g.disks \cup {k.name} = h.disks \cup {k.name}
    BY <1>2 DEF Groups, Storage!Edits, Storage!DiskCreated, Storage!DiskDeleted
  <2> QED
    BY <1>1, <2>1, DiskDiffers
<1>3. CASE k.op = "create_media_repository"
  <2>1. g.disks = h.disks /\ g.media = h.media /\ {g.repo, h.repo} \subseteq {0, k.size}
    BY <1>3 DEF Groups, Storage!Edits, Storage!RepositoryCreated
  <2> QED
    BY <1>1, <2>1, RepositoryDiffers
<1>4. CASE k.op = "delete_media_repository"
  <2>1. g.disks = h.disks /\ g.media = h.media /\ {g.repo, h.repo} \subseteq {0, g.repo}
    BY <1>4 DEF Groups, Storage!Edits, Storage!RepositoryDeleted
  <2> QED
    BY <1>1, <2>1, RepositoryDiffers
<1>5. CASE k.op = "create_optical_media"
  <2>1. g.disks = h.disks /\ g.repo = h.repo /\ g.media \cup {<<k.name, c>>} = h.media \cup {<<k.name, c>>}
    BY <1>5 DEF Groups, Storage!Edits, Storage!MediumCreated
  <2> QED
    BY <1>1, <2>1, MediumDiffers
<1>6. CASE k.op = "delete_optical_media"
  <2>1. PICK y \in Storage!Named(g.media, k.name) : h = [g EXCEPT !.media = @ \ {y}]
    BY <1>6 DEF Storage!Edits, Storage!MediumDeleted
  <2>2. g.disks = h.disks /\ g.repo = h.repo /\ g.media \cup {y} = h.media \cup {y}
    BY <2>1 DEF Groups
  <2> QED
    BY <1>1, <2>2, MediumDiffers
<1> QED
  BY <1>2, <1>3, <1>4, <1>5, <1>6 DEF Storage!GroupWrites

\* A call adds or takes away one mapping, that of a partition it works for.
LEMMA RewiresOne ==
  ASSUME NEW k \in Storage!Call, NEW m, NEW r \in Storage!Rewires(k, m)
  PROVE  \E x : m \cup {x} = r \cup {x} /\ \A y \in (m \ r) \cup (r \ m) : y = x /\ y.lpar = k.lpar
<1>1. CASE k.op \in Storage!Detaches
  <2>1. PICK x \in m : x.lpar = k.lpar /\ r = m \ {x}
    BY <1>1 DEF Storage!Rewires, Storage!Detached
  <2> QED
    BY <2>1
<1>2. CASE k.op \notin Storage!Detaches
  <2>1. r = m \cup {Storage!New(k)}
    BY <1>2 DEF Storage!Rewires, Storage!Appended
  <2>2. Storage!New(k).lpar = k.lpar
    BY DEF Storage!New
  <2> QED
    BY <2>1, <2>2
<1> QED
  BY <1>1, <1>2

\* A step of a caller, or of the HMC for it, changes one thing at most, and of the mappings
\* only those of partitions that the caller may change.
LEMMA StorageConfined ==
  ASSUME StorageInv, Storage!StorageAssumption, [Storage!Next]_Storage!vars PROVE Storage!Confined
<1> USE DEF Storage!hmc
<1>0. Storage!StorageTypeOK /\ strangers \in Nat /\ Fresh /\ Allowed /\ group \in Groups
  BY DEF StorageInv, Storage!StorageTypeOK, Groups
<1>1. ASSUME NEW x, Differ(group, maps, group', maps', x),
             \A y \in (maps \ maps') \cup (maps' \ maps) : y.lpar \in Owned
      PROVE  Storage!Confined
  BY <1>1, OneAtMost DEF Storage!Confined, Differ
<1>2. CASE UNCHANGED <<group, maps>>
  <2>1. Differ(group, maps, group', maps', 0)
    BY <1>2 DEF Differ
  <2> QED
    BY <1>1, <1>2, <2>1
<1>3. CASE Storage!OtherChanges
  <2>1. strangers' # strangers
    BY <1>0, <1>3 DEF Storage!OtherChanges
  <2> QED
    BY <2>1 DEF Storage!Confined
<1>4. ASSUME NEW c \in Client, Storage!PostGroup(c) PROVE Storage!Confined
  <2>1. CASE c \notin stale /\ Storage!GroupBecomes(draft[c])
    <3>1. storagePc[c] = "post" /\ request[c].op \in Storage!GroupWrites
      BY <1>4 DEF Storage!PostGroup, Storage!Posts, Storage!Holds
    <3>2. draft[c] \in Storage!Edits(c, request[c], group)
      BY <1>0, <2>1, <3>1 DEF Fresh
    <3>3. request[c] \in Storage!Call
      BY <1>0 DEF Storage!StorageTypeOK
    <3>4. PICK x : Differ(group, maps, draft[c], maps, x)
      BY <1>0, <3>1, <3>2, <3>3, EditsOne
    <3>5. group' = draft[c] /\ maps' = maps
      BY <2>1 DEF Storage!GroupBecomes
    <3>6. Differ(group, maps, group', maps', x)
      BY <3>4, <3>5
    <3> QED
      BY <1>1, <3>5, <3>6
  <2> QED
    BY <1>2, <1>4, <2>1 DEF Storage!PostGroup, Storage!NotTaken
<1>5. ASSUME NEW c \in Client, Storage!PostMappings(c) PROVE Storage!Confined
  <2>1. CASE c \notin stale /\ Storage!MapsBecome(rewired[c])
    <3>1. storagePc[c] = "post" /\ request[c].op \in Storage!MapWrites
      BY <1>5 DEF Storage!PostMappings, Storage!Posts, Storage!Holds
    <3>2. rewired[c] \in Storage!Rewires(request[c], maps) /\ request[c].lpar \in Owned
      BY <1>0, <2>1, <3>1 DEF Fresh, Allowed
    <3>3. request[c] \in Storage!Call
      BY <1>0 DEF Storage!StorageTypeOK
    <3>4. PICK x : /\ maps \cup {x} = rewired[c] \cup {x}
                   /\ \A y \in (maps \ rewired[c]) \cup (rewired[c] \ maps) : y = x /\ y.lpar = request[c].lpar
      BY <3>2, <3>3, RewiresOne
    <3>5. maps' = rewired[c] /\ group' = group
      BY <2>1 DEF Storage!MapsBecome
    <3>6. Differ(group, maps, group, rewired[c], <<"mapping", x>>)
      BY <3>4, MappingDiffers
    <3>7. Differ(group, maps, group', maps', <<"mapping", x>>)
      BY <3>5, <3>6
    <3> QED
      BY <1>1, <3>2, <3>4, <3>5, <3>7
  <2> QED
    BY <1>2, <1>5, <2>1 DEF Storage!PostMappings, Storage!NotTaken
<1>6. ASSUME NEW c \in Client, Storage!Import(c) PROVE Storage!Confined
  <2> DEFINE x == <<request[c].name, c>>
             h == [group EXCEPT !.media = @ \cup {x}]
  <2>1. CASE Storage!GroupBecomes(h)
    <3>1. x \in Storage!Medium
      BY <1>0 DEF Storage!StorageTypeOK, Storage!Medium, Storage!Call
    <3>2. h \in Groups /\ group.repo = h.repo /\ group.disks = h.disks /\ group.media \cup {x} = h.media \cup {x}
      BY <1>0, <3>1 DEF Groups
    <3>3. group' = h /\ maps' = maps
      BY <2>1 DEF Storage!GroupBecomes
    <3>4. Differ(group, maps, h, maps, <<"medium", x>>)
      BY <1>0, <3>2, MediumDiffers
    <3>5. Differ(group, maps, group', maps', <<"medium", x>>)
      BY <3>3, <3>4
    <3> QED
      BY <1>1, <3>3, <3>5
  <2> QED
    BY <1>2, <1>6, <2>1 DEF Storage!Import
<1>7. CASE UNCHANGED Storage!vars
  BY <1>2, <1>7 DEF Storage!vars
<1>8. ASSUME NEW c \in Client,
             \/ \E k \in Storage!Request : Storage!Begin(c, k)
             \/ Storage!CheckDisk(c) \/ Storage!CheckMedium(c) \/ Storage!CheckRepository(c)
             \/ Storage!FindMapping(c) \/ Storage!FindMedium(c) \/ Storage!GetGroup(c) \/ Storage!GetMappings(c)
             \/ Storage!Look(c) \/ Storage!Download(c) \/ Storage!Recheck(c) \/ Storage!CreateFile(c)
             \/ Storage!Stream(c) \/ Storage!Poll(c) \/ Storage!Release(c)
      PROVE  UNCHANGED <<group, maps>>
  BY <1>8 DEF Storage!Begin, Storage!CheckDisk, Storage!CheckMedium, Storage!CheckRepository, Storage!Listed,
     Storage!FindMapping, Storage!FindMedium, Storage!Finds, Storage!Reads, Storage!GetGroup, Storage!GetMappings,
     Storage!Look, Storage!Download, Storage!Recheck, Storage!CreateFile, Storage!Stream, Storage!Poll,
     Storage!Release, Storage!Quiet
<1> QED
  BY <1>2, <1>3, <1>4, <1>5, <1>6, <1>7, <1>8 DEF Storage!Next, Storage!Step

-----------------------------------------------------------------------------
(* Calls that change one partition (LparMutation).                           *)

Partitions ==
  [name : Titles \cup {"-"}, owner : {"none", "me", "other", "broken"}, on : BOOLEAN, sync : BOOLEAN,
   size : User \cup {"-"}, slots : SUBSET User, kept : SUBSET User]
Works == {"on", "off", "migrate"}
Deeds == {"rename", "size", "describe", "sync", "adapter", "kept", "delete", "create", "apply", "stamp",
          "submit", "lit", "ran", "loss"}
Hows  == {"-", "done", "already", "refused", "error", "partial", "kept", "submitted", "timeout", "failed"}
Answers == [how : Hows, steps : SUBSET (Deeds \cup User)]

\* Where a call can be before its first write, and after its authorization.
Early == {"-", "exists", "find", "validate", "resolve", "name", "owner", "where", "state", "write", "add",
          "erase", "lacks", "put", "cli", "submit"}
Let   == {"get", "post", "write", "where", "add", "state", "erase", "lacks", "submit", "apply", "back", "stamp"}
Makes == {"exists", "put", "cli", "apply", "back", "stamp"}
Bound == {"validate", "name", "owner", "wait", "active"} \cup Let
Places == {"wait", "active", "end"} \cup Early \cup Let

MutationTyped ==
  /\ lpar \in [Uuids -> Partitions]
  /\ tasks \in [User -> [op : Works \cup {"-"}, uuid : Uuids \cup {"-"}, end : {"-", "ok", "failed"}]]
  /\ command \in [User -> Asks \cup {Mutation!Idle}]
  /\ commandPc \in [User -> Places]
  /\ uid \in [User -> Uuids \cup {"-"}]
  /\ label \in [User -> Titles \cup {"-"}]
  /\ copy \in [User -> Partitions]
  /\ answer \in [User -> Answers]
  /\ altered \in [User -> SUBSET Uuids]
  /\ did \in [User -> SUBSET Deeds]
  /\ valid \in [User -> SUBSET Uuids]

\* The HMC keeps the names of its partitions unique.
OneName == \A u, v \in Uuids : Mutation!There(u) /\ lpar[u].name = lpar[v].name => u = v

\* What a call was asked for, by where it is.
Placed(c) ==
  LET op == command[c].op  form == command[c].form  at == commandPc[c] IN
  /\ (at = "-") = (command[c] = Mutation!Idle)
  /\ (answer[c].how # "-") = (at = "end")
  /\ at \in {"get", "post"} => op \in {"rename", "size", "modify"}
  /\ at = "write" => op \in {"describe", "sync"}
  /\ at \in {"where", "add"} => op = "adapter"
  /\ at = "state" => op \in {"delete", "on"}
  /\ at = "erase" => op = "delete"
  /\ at = "lacks" => op = "on" /\ form = "profile"
  /\ at = "submit" => op \in Works
  /\ at \in {"find", "validate"} => form = "validated"
  /\ at \in Makes => op = "create"
  /\ at \in {"resolve", "name", "owner"} => op # "create"
  /\ at \in Bound => uid[c] \in Uuids
  /\ at \in {"put", "cli"} => label[c] = command[c].name

\* The job of a call is the call's.
Submitted(c) ==
  /\ tasks[c].op = "-" => tasks[c].end = "-"
  /\ tasks[c].op # "-" =>
       /\ tasks[c].op = command[c].op /\ tasks[c].uuid = uid[c] /\ uid[c] \in Uuids
       /\ commandPc[c] \in {"wait", "active", "end"} /\ answer[c].how # "refused"
  /\ commandPc[c] \in {"wait", "active"} => tasks[c].op # "-"
  /\ commandPc[c] = "active" => tasks[c].op = "on"
  /\ commandPc[c] = "wait" /\ tasks[c].end = "ok" /\ tasks[c].op # "on" => "ran" \in did[c]

\* What a call that has not ended has brought about, and has noted of it.
SoFar(c) ==
  /\ commandPc[c] \in Early =>
       did[c] \subseteq {"lit"} /\ (commandPc[c] # "submit" => answer[c].steps = {})
  /\ commandPc[c] \in {"get", "post"} =>
       \/ answer[c].steps = {} /\ did[c] \subseteq {"lit"}
       \/ answer[c].steps = {"rename"} /\ "rename" \in did[c] /\ command[c].op = "modify"
  /\ commandPc[c] \in {"apply", "back", "stamp"} => answer[c].steps = {} /\ "create" \in did[c]
  /\ commandPc[c] \in {"submit", "wait", "active"} /\ command[c].op # "on" => answer[c].steps = {}
  /\ tasks[c].op = "on" /\ lpar[uid[c]].on => "lit" \in did[c]

\* Unless others changed it, the call works on one partition: the one that has the name it
\* read, that it was let to change and that is as it last read it.
Aims(c) ==
  /\ commandPc[c] \in {"owner", "write", "apply", "back", "stamp"} =>
       \A u \in Mutation!Called(label[c]) : u = uid[c] \/ u \in altered[c]
  /\ commandPc[c] = "owner" /\ uid[c] \notin altered[c] => uid[c] \in Mutation!Called(label[c])
LetTo(c) ==
  commandPc[c] \in Let /\ uid[c] \notin altered[c] /\ ~command[c].override
    /\ (command[c].op \in Mutation!Power => Guard) =>
       /\ ~Mutation!Foreign(lpar[uid[c]])
       /\ commandPc[c] = "write" => copy[c].owner = lpar[uid[c]].owner
Synced(c) == commandPc[c] = "add" /\ uid[c] \notin altered[c] => copy[c].sync = lpar[uid[c]].sync

\* A call warns of the adapters that its start may drop.
Warned(c) ==
  command[c].form = "profile" /\ (commandPc[c] = "submit" \/ tasks[c].op # "-") /\ uid[c] \notin altered[c] =>
    lpar[uid[c]].slots \ lpar[uid[c]].kept \subseteq answer[c].steps

\* What the selector of a validated migration finds is what was validated.
Found(c) == Mutation!Called(command[c].sel) \cup {u \in Uuids : u = command[c].sel /\ Mutation!There(u)}
Validated(c) ==
  command[c].form = "validated" =>
    /\ commandPc[c] = "validate" => \A u \in Found(c) : u = uid[c] \/ u \in altered[c]
    /\ commandPc[c] = "resolve" => Found(c) \subseteq valid[c] \cup altered[c]
    /\ commandPc[c] \in {"name", "owner", "submit"} => uid[c] \in valid[c] \cup altered[c]

Right(c) ==
  /\ Placed(c) /\ Submitted(c) /\ SoFar(c) /\ Aims(c) /\ LetTo(c) /\ Synced(c) /\ Warned(c) /\ Validated(c)
  /\ Mutation!Told(c)

MutationInv == MutationTyped /\ OneName /\ wrong = {} /\ \A c \in User : Right(c)

\* What a call sees of a step that is not its own: its own variables stay, what changes of
\* a partition is noted, and a start of the partition it works on is.
Still(c) ==
  /\ tasks'[c] = tasks[c] /\ command'[c] = command[c] /\ commandPc'[c] = commandPc[c] /\ uid'[c] = uid[c]
  /\ label'[c] = label[c] /\ copy'[c] = copy[c] /\ answer'[c] = answer[c] /\ valid'[c] = valid[c]
Sees(c) ==
  /\ altered[c] \subseteq altered'[c] /\ did[c] \subseteq did'[c] /\ did'[c] \subseteq did[c] \cup {"lit"}
  /\ \A u \in Uuids :
       /\ lpar'[u].on /\ ~lpar[u].on /\ uid[c] = u => "lit" \in did'[c]
       /\ \/ u \in altered'[c]
          \/ /\ lpar'[u].name = lpar[u].name /\ lpar'[u].owner = lpar[u].owner
             /\ lpar'[u].sync = lpar[u].sync /\ lpar'[u].kept = lpar[u].kept
             /\ lpar'[u].slots \ lpar'[u].kept \subseteq lpar[u].slots \ lpar[u].kept
Apart(c) == Still(c) /\ Sees(c)

\* A change of a partition that is the call's to make, and that starts nothing.
Harmless(c) ==
  \E u \in Uuids, r \in Partitions, x \in Deeds :
    /\ Mutation!Effect(c, u, r, x) /\ Mutation!Harm(c, u, r) = {} /\ (r.on => lpar[u].on)
    /\ r.name \in {lpar[u].name, "-"} \/ Mutation!Called(r.name) = {}

\* What has to hold of what calls share after a step of c.
Shared(c) ==
  /\ lpar' \in [Uuids -> Partitions] /\ altered' \in [User -> SUBSET Uuids]
  /\ did' \in [User -> SUBSET Deeds] /\ OneName' /\ wrong' = {}
  /\ \A d \in User \ {c} : Sees(d)

LEMMA MutationStarts == ASSUME Mutation!Init, Mutation!MutationAssumption PROVE MutationInv
<1> USE DEF Mutation!Init
<1>1. MutationTyped /\ OneName
  <2>1. PICK a \in Uuids, b \in Uuids, o \in {"me", "none", "other", "broken"}, s \in BOOLEAN, p \in BOOLEAN :
          /\ a = (CHOOSE u \in Uuids : TRUE) /\ b = (CHOOSE u \in Uuids \ {a} : TRUE)
          /\ lpar = [u \in Uuids |->
                    CASE u = a -> [Mutation!Absent EXCEPT !.name = Target, !.owner = o, !.sync = s, !.on = p]
                      [] u = b -> [Mutation!Absent EXCEPT !.name = Bystander, !.owner = "other"]
                      [] OTHER -> Mutation!Absent]
    OBVIOUS
  <2>2. lpar \in [Uuids -> Partitions]
    BY <2>1 DEF Partitions, Mutation!Absent, Mutation!MutationAssumption
  <2>3. OneName
    BY <2>1 DEF OneName, Mutation!There, Mutation!Absent, Mutation!MutationAssumption
  <2>4. Mutation!Absent \in Partitions
    BY DEF Partitions, Mutation!Absent
  <2> QED
    BY <2>2, <2>3, <2>4 DEF MutationTyped, Places, Early, Answers, Hows, Mutation!NoJob
<1>2. ASSUME NEW c \in User PROVE Right(c)
  <2>1. Placed(c) /\ Submitted(c) /\ SoFar(c)
    BY DEF Placed, Submitted, SoFar, Early, Makes, Bound, Let, Mutation!NoJob, Mutation!Idle
  <2>2. Aims(c) /\ LetTo(c) /\ Synced(c) /\ Warned(c) /\ Validated(c)
    BY DEF Aims, LetTo, Synced, Warned, Validated, Let, Mutation!Idle
  <2>3. Mutation!Told(c)
    BY DEF Mutation!Told, Mutation!Steps, Mutation!Idle
  <2> QED
    BY <2>1, <2>2, <2>3 DEF Right
<1> QED
  BY <1>1, <1>2 DEF MutationInv

LEMMA Unmoved ==
  ASSUME MutationTyped, NEW c \in User, Right(c), Apart(c)
  PROVE  Right(c)'
<1> USE DEF Apart, Still, Sees
<1>1. Placed(c)'
  BY DEF Right, Placed
<1>2. Submitted(c)'
  BY DEF Right, Submitted
<1>3. SoFar(c)'
  <2>1. (tasks[c].op = "on" /\ lpar[uid[c]].on => "lit" \in did[c])'
    BY DEF Right, SoFar, Submitted
  <2> QED
    BY <2>1 DEF Right, SoFar
<1>4. Aims(c)'
  BY DEF Right, Aims, Placed, Bound, Mutation!Called, Mutation!There
<1>5. LetTo(c)' /\ Synced(c)'
  BY DEF Right, LetTo, Synced, Placed, Bound, Let, Mutation!Foreign
<1>6. Warned(c)'
  BY DEF Right, Warned, Placed, Submitted, Bound, Let
<1>7. Validated(c)'
  <2>1. ASSUME NEW u \in Found(c)' PROVE u \in Found(c) \/ u \in altered'[c]
    BY <2>1 DEF Found, Mutation!Called, Mutation!There
  <2> QED
    BY <2>1 DEF Right, Validated
<1>8. Mutation!Told(c)'
  <2>1. Mutation!Steps(c)' = Mutation!Steps(c)
    BY DEF Mutation!Steps
  <2> QED
    BY <2>1 DEF Right, Mutation!Told
<1> QED
  BY <1>1, <1>2, <1>3, <1>4, <1>5, <1>6, <1>7, <1>8 DEF Right

LEMMA NothingSeen ==
  ASSUME UNCHANGED <<lpar, altered, did>>, NEW d \in User
  PROVE  Sees(d)
BY DEF Sees

LEMMA EffectSeen ==
  ASSUME MutationTyped, NEW c \in User, NEW u \in Uuids, NEW r \in Partitions, r.on => lpar[u].on, NEW x,
         Mutation!Effect(c, u, r, x), NEW d \in User \ {c}
  PROVE  Sees(d)
<1>1. \A v \in Uuids : lpar'[v] = IF v = u THEN r ELSE lpar[v]
  BY DEF MutationTyped, Mutation!Effect
<1>2. altered'[d] = IF r = lpar[u] THEN altered[d] ELSE altered[d] \cup {u}
  BY DEF Mutation!Effect
<1>3. did'[d] = did[d]
  BY DEF Mutation!Effect, MutationTyped
<1> QED
  BY <1>1, <1>2, <1>3 DEF Sees

LEMMA EffectTyped ==
  ASSUME MutationTyped, NEW c \in User, NEW u \in Uuids, NEW r \in Partitions, NEW x \in Deeds,
         Mutation!Effect(c, u, r, x)
  PROVE  /\ lpar' \in [Uuids -> Partitions] /\ altered' \in [User -> SUBSET Uuids]
         /\ did' \in [User -> SUBSET Deeds] /\ valid' = valid
BY DEF MutationTyped, Mutation!Effect

\* A partition keeps its name, or gives it up, or takes one that no other has.
LEMMA NameKept ==
  ASSUME MutationTyped, OneName, NEW u \in Uuids, NEW r \in Partitions, lpar' = [lpar EXCEPT ![u] = r],
         r.name \in {lpar[u].name, "-"} \/ Mutation!Called(r.name) = {}
  PROVE  OneName'
<1>1. \A v \in Uuids : lpar'[v] = IF v = u THEN r ELSE lpar[v]
  BY DEF MutationTyped
<1> QED
  BY <1>1 DEF OneName, Mutation!There, Mutation!Called

\* What a call writes back is what is there but for what it was asked to change.
LEMMA ChangedIs ==
  ASSUME MutationTyped, NEW c \in User, uid[c] \in Uuids, Mutation!Matches(c)
  PROVE  Mutation!Changed(c) = IF Mutation!Renames(c) THEN [lpar[uid[c]] EXCEPT !.name = command[c].name]
                               ELSE [lpar[uid[c]] EXCEPT !.size = c]
<1>1. lpar[uid[c]] \in Partitions
  BY DEF MutationTyped
<1> QED
  BY <1>1 DEF Partitions, Mutation!Changed, Mutation!Matches, Mutation!Document

LEMMA CommandKnown ==
  ASSUME MutationTyped, Mutation!MutationAssumption, NEW c \in User, command[c] # Mutation!Idle
  PROVE  /\ command[c] \in Asks
         /\ command[c].op \in {"rename", "size", "modify", "create"} \cup {"describe", "sync", "adapter", "delete"} \cup Works
         /\ command[c].op \in {"create", "rename", "modify"} => command[c].name \in Titles
         /\ command[c].sel \in Titles \cup Uuids \cup {"-"} /\ command[c].override \in BOOLEAN
         /\ command[c].form = "profile" => command[c].op = "on"
         /\ command[c].form = "validated" => command[c].op = "migrate"
BY DEF MutationTyped, Mutation!MutationAssumption, Works

LEMMA PostHarmless ==
  ASSUME MutationInv, Mutation!MutationAssumption, NEW c \in User, Mutation!Post(c)
  PROVE  Harmless(c) \/ Mutation!NoEffect
<1>1. /\ commandPc[c] = "post" /\ uid[c] \in Uuids /\ command[c].op \in {"rename", "size", "modify"}
      /\ LetTo(c) /\ MutationTyped
  BY DEF Mutation!Post, Mutation!At, MutationInv, Right, Placed, Bound, Let
<1> DEFINE u == uid[c]
           r == Mutation!Changed(c)
           x == IF Mutation!Renames(c) THEN "rename" ELSE "size"
<1> SUFFICES ASSUME Mutation!Matches(c), Mutation!Renames(c) => Mutation!Called(command[c].name) = {},
                    Mutation!Effect(c, u, r, x)
             PROVE  Harmless(c)
  BY DEF Mutation!Post
<1>2. r = IF Mutation!Renames(c) THEN [lpar[u] EXCEPT !.name = command[c].name] ELSE [lpar[u] EXCEPT !.size = c]
  BY <1>1, ChangedIs
<1>3. lpar[u] \in Partitions /\ (Mutation!Renames(c) => command[c].name \in Titles)
  BY <1>1, CommandKnown DEF MutationTyped, Mutation!Idle, Mutation!Renames
<1>4. /\ r \in Partitions /\ r.on = lpar[u].on
      /\ r.name = lpar[u].name \/ Mutation!Called(r.name) = {}
      /\ r \in {[lpar[u] EXCEPT !.name = command[c].name], [lpar[u] EXCEPT !.size = c]}
  BY <1>2, <1>3 DEF Partitions
<1>5. u \notin altered[c] /\ ~command[c].override => ~Mutation!Foreign(lpar[u])
  BY <1>1 DEF LetTo, Let, Mutation!Power
<1>6. Mutation!Harm(c, u, r) = {}
  BY <1>1, <1>4, <1>5 DEF Mutation!Harm, Mutation!Power
<1>7. x \in Deeds
  BY DEF Deeds
<1> QED
  BY <1>1, <1>4, <1>6, <1>7 DEF Harmless

LEMMA WriteNamedHarmless ==
  ASSUME MutationInv, Mutation!MutationAssumption, NEW c \in User, Mutation!WriteNamed(c)
  PROVE  Harmless(c) \/ Mutation!NoEffect
<1>1. /\ commandPc[c] = "write" /\ uid[c] \in Uuids /\ command[c].op \in {"describe", "sync"}
      /\ LetTo(c) /\ Aims(c) /\ MutationTyped
  BY DEF Mutation!WriteNamed, Mutation!At, MutationInv, Right, Placed, Bound, Let
<1> SUFFICES ASSUME NEW u \in Mutation!Called(label[c]),
                    Mutation!Effect(c, u, IF command[c].op = "sync" THEN [lpar[u] EXCEPT !.sync = ~@]
                                          ELSE [lpar[u] EXCEPT !.owner = Mutation!Stamp(c)], command[c].op)
             PROVE  Harmless(c)
  BY DEF Mutation!WriteNamed
<1> DEFINE r == IF command[c].op = "sync" THEN [lpar[u] EXCEPT !.sync = ~@]
                ELSE [lpar[u] EXCEPT !.owner = Mutation!Stamp(c)]
<1>2. u \in Uuids /\ lpar[u] \in Partitions /\ copy[c] \in Partitions /\ command[c].op \in Deeds
  BY <1>1 DEF MutationTyped, Mutation!Called, Deeds
<1>3. r \in Partitions /\ r.on = lpar[u].on /\ r.name = lpar[u].name
  BY <1>1, <1>2 DEF Partitions, Mutation!Stamp
<1>4. u \notin altered[c] => u = uid[c]
  BY <1>1 DEF Aims
<1>5. u \notin altered[c] /\ ~command[c].override =>
        ~Mutation!Foreign(lpar[u]) /\ copy[c].owner = lpar[u].owner
  BY <1>1, <1>4 DEF LetTo, Let, Mutation!Power
<1>6. command[c].op = "describe" /\ lpar[u].owner # "none" /\ ~command[c].override /\ u \notin altered[c] =>
        r.owner # "none"
  BY <1>2, <1>5 DEF Partitions, Mutation!Stamp
<1>7. Mutation!Harm(c, u, r) = {}
  BY <1>1, <1>4, <1>5, <1>6 DEF Mutation!Harm, Mutation!Power
<1> QED
  BY <1>2, <1>3, <1>7 DEF Harmless

LEMMA AddAdapterHarmless ==
  ASSUME MutationInv, Mutation!MutationAssumption, NEW c \in User, Mutation!AddAdapter(c)
  PROVE  Harmless(c) \/ Mutation!NoEffect
<1>1. /\ commandPc[c] = "add" /\ uid[c] \in Uuids /\ command[c].op = "adapter" /\ LetTo(c) /\ MutationTyped
  BY DEF Mutation!AddAdapter, Mutation!At, MutationInv, Right, Placed, Bound, Let
<1> DEFINE u == uid[c]
           r == [lpar[u] EXCEPT !.slots = @ \cup {c}, !.kept = IF lpar[u].sync THEN @ \cup {c} ELSE @]
           x == IF lpar[u].sync THEN "kept" ELSE "adapter"
<1> SUFFICES ASSUME Mutation!Effect(c, u, r, x)
             PROVE  Harmless(c)
  BY DEF Mutation!AddAdapter
<1>2. lpar[u] \in Partitions /\ x \in Deeds
  BY <1>1 DEF MutationTyped, Deeds
<1>3. r \in Partitions /\ r.on = lpar[u].on /\ r.name = lpar[u].name
  BY <1>2 DEF Partitions
<1>4. u \notin altered[c] /\ ~command[c].override => ~Mutation!Foreign(lpar[u])
  BY <1>1 DEF LetTo, Let, Mutation!Power
<1>5. Mutation!Harm(c, u, r) = {}
  BY <1>1, <1>4 DEF Mutation!Harm, Mutation!Power
<1> QED
  BY <1>1, <1>2, <1>3, <1>5 DEF Harmless

LEMMA EraseHarmless ==
  ASSUME MutationInv, Mutation!MutationAssumption, NEW c \in User, Mutation!Erase(c)
  PROVE  Harmless(c) \/ Mutation!NoEffect
<1>1. /\ commandPc[c] = "erase" /\ uid[c] \in Uuids /\ command[c].op = "delete" /\ LetTo(c) /\ MutationTyped
  BY DEF Mutation!Erase, Mutation!At, MutationInv, Right, Placed, Bound, Let
<1> SUFFICES ASSUME Mutation!Effect(c, uid[c], Mutation!Absent, "delete")
             PROVE  Harmless(c)
  BY DEF Mutation!Erase
<1>2. Mutation!Absent \in Partitions /\ ~Mutation!Absent.on /\ Mutation!Absent.name = "-" /\ "delete" \in Deeds
  BY DEF Mutation!Absent, Partitions, Deeds
<1>3. uid[c] \notin altered[c] /\ ~command[c].override => ~Mutation!Foreign(lpar[uid[c]])
  BY <1>1 DEF LetTo, Let, Mutation!Power
<1>4. Mutation!Harm(c, uid[c], Mutation!Absent) = {}
  BY <1>1, <1>3 DEF Mutation!Harm, Mutation!Power
<1> QED
  BY <1>1, <1>2, <1>4 DEF Harmless

LEMMA SubmitHarmless ==
  ASSUME MutationInv, Mutation!MutationAssumption, NEW c \in User, Mutation!Submit(c)
  PROVE  Harmless(c) \/ Mutation!NoEffect
<1>1. /\ commandPc[c] = "submit" /\ uid[c] \in Uuids /\ command[c].op \in Works /\ LetTo(c) /\ Validated(c)
      /\ MutationTyped
  BY DEF Mutation!Submit, Mutation!At, MutationInv, Right, Placed, Bound, Let
<1> DEFINE u == uid[c]
           x == IF lpar[u].on THEN "lit" ELSE "submit"
<1> SUFFICES ASSUME Mutation!Effect(c, u, lpar[u], x)
             PROVE  Harmless(c)
  BY DEF Mutation!Submit
<1>2. lpar[u] \in Partitions /\ x \in Deeds
  BY <1>1 DEF MutationTyped, Deeds
<1>3. u \notin altered[c] /\ ~command[c].override /\ (command[c].op \in Mutation!Power => Guard) =>
        ~Mutation!Foreign(lpar[u])
  BY <1>1 DEF LetTo, Let
<1>4. u \notin altered[c] /\ command[c].form = "validated" => u \in valid[c]
  BY <1>1 DEF Validated
<1>5. Mutation!Harm(c, u, lpar[u]) = {}
  BY <1>1, <1>3, <1>4 DEF Mutation!Harm, Works
<1> QED
  BY <1>1, <1>2, <1>5 DEF Harmless

LEMMA ApplyHarmless ==
  ASSUME MutationInv, Mutation!MutationAssumption, NEW c \in User, Mutation!Apply(c)
  PROVE  Harmless(c) \/ Mutation!NoEffect
<1>1. /\ commandPc[c] = "apply" /\ uid[c] \in Uuids /\ command[c].op = "create" /\ LetTo(c) /\ Aims(c)
      /\ MutationTyped
  BY DEF Mutation!Apply, Mutation!At, MutationInv, Right, Placed, Bound, Let, Makes
<1> SUFFICES ASSUME NEW u \in Mutation!Called(label[c]),
                    Mutation!Effect(c, u, [lpar[u] EXCEPT !.slots = lpar[u].kept], "apply")
             PROVE  Harmless(c)
  BY DEF Mutation!Apply
<1> DEFINE r == [lpar[u] EXCEPT !.slots = lpar[u].kept]
<1>2. u \in Uuids /\ lpar[u] \in Partitions /\ "apply" \in Deeds
  BY <1>1 DEF MutationTyped, Mutation!Called, Deeds
<1>3. r \in Partitions /\ r.on = lpar[u].on /\ r.name = lpar[u].name
  BY <1>2 DEF Partitions
<1>4. u \notin altered[c] => u = uid[c] /\ (~command[c].override => ~Mutation!Foreign(lpar[u]))
  BY <1>1 DEF Aims, LetTo, Let, Mutation!Power
<1>5. Mutation!Harm(c, u, r) = {}
  BY <1>1, <1>4 DEF Mutation!Harm, Mutation!Power
<1> QED
  BY <1>2, <1>3, <1>5 DEF Harmless

LEMMA StampCreatedHarmless ==
  ASSUME MutationInv, Mutation!MutationAssumption, NEW c \in User, Mutation!StampCreated(c)
  PROVE  Harmless(c) \/ Mutation!NoEffect
<1>1. /\ commandPc[c] = "stamp" /\ uid[c] \in Uuids /\ command[c].op = "create" /\ LetTo(c) /\ Aims(c)
      /\ MutationTyped
  BY DEF Mutation!StampCreated, Mutation!At, MutationInv, Right, Placed, Bound, Let, Makes
<1> SUFFICES ASSUME NEW u \in Mutation!Called(label[c]),
                    Mutation!Effect(c, u, [lpar[u] EXCEPT !.owner = "me"], "stamp")
             PROVE  Harmless(c)
  BY DEF Mutation!StampCreated
<1> DEFINE r == [lpar[u] EXCEPT !.owner = "me"]
<1>2. u \in Uuids /\ lpar[u] \in Partitions /\ "stamp" \in Deeds
  BY <1>1 DEF MutationTyped, Mutation!Called, Deeds
<1>3. r \in Partitions /\ r.on = lpar[u].on /\ r.name = lpar[u].name
  BY <1>2 DEF Partitions
<1>4. u \notin altered[c] => u = uid[c] /\ (~command[c].override => ~Mutation!Foreign(lpar[u]))
  BY <1>1 DEF Aims, LetTo, Let, Mutation!Power
<1>5. Mutation!Harm(c, u, r) = {}
  BY <1>1, <1>4 DEF Mutation!Harm, Mutation!Power
<1> QED
  BY <1>2, <1>3, <1>5 DEF Harmless

LEMMA HarmlessShared ==
  ASSUME MutationInv, NEW c \in User, Harmless(c) \/ UNCHANGED <<lpar, altered, did, wrong>>
  PROVE  Shared(c)
<1>1. MutationTyped /\ OneName /\ wrong = {}
  BY DEF MutationInv
<1>2. CASE UNCHANGED <<lpar, altered, did, wrong>>
  <2>1. OneName'
    BY <1>1, <1>2 DEF OneName, Mutation!There
  <2> QED
    BY <1>1, <1>2, <2>1, NothingSeen DEF Shared, MutationTyped
<1>3. CASE Harmless(c)
  <2>1. PICK u \in Uuids, r \in Partitions, x \in Deeds :
          /\ Mutation!Effect(c, u, r, x) /\ Mutation!Harm(c, u, r) = {} /\ (r.on => lpar[u].on)
          /\ r.name \in {lpar[u].name, "-"} \/ Mutation!Called(r.name) = {}
    BY <1>3 DEF Harmless
  <2>2. \A d \in User \ {c} : Sees(d)
    BY <1>1, <2>1, EffectSeen
  <2>3. OneName' /\ wrong' = {}
    BY <1>1, <2>1, NameKept DEF Mutation!Effect
  <2> QED
    BY <1>1, <2>1, <2>2, <2>3, EffectTyped DEF Shared
<1> QED
  BY <1>2, <1>3

LEMMA MakesShared ==
  ASSUME MutationInv, NEW c \in User, NEW u \in Uuids, Mutation!Makes(c, u), command[c].name \in Titles
  PROVE  Shared(c)
<1>1. MutationTyped /\ OneName /\ wrong = {}
  BY DEF MutationInv
<1> DEFINE r == [Mutation!Absent EXCEPT !.name = command[c].name]
<1>2. r \in Partitions /\ ~r.on /\ r.name = command[c].name /\ "create" \in Deeds
  BY DEF Partitions, Mutation!Absent, Deeds
<1>3. lpar' = [lpar EXCEPT ![u] = r] /\ wrong' = wrong /\ Mutation!Called(r.name) = {}
  BY <1>2 DEF Mutation!Makes
<1>4. OneName'
  BY <1>1, <1>2, <1>3, NameKept
<1>5. /\ lpar' \in [Uuids -> Partitions] /\ altered' \in [User -> SUBSET Uuids]
      /\ did' \in [User -> SUBSET Deeds]
  BY <1>1, <1>2, <1>3 DEF MutationTyped, Mutation!Makes
<1>6. ASSUME NEW d \in User \ {c} PROVE Sees(d)
  <2>1. altered'[d] = altered[d] \cup {u} /\ did'[d] = did[d]
    BY <1>1 DEF Mutation!Makes, MutationTyped
  <2>2. \A v \in Uuids : lpar'[v] = IF v = u THEN r ELSE lpar[v]
    BY <1>1, <1>3 DEF MutationTyped
  <2> QED
    BY <1>2, <2>1, <2>2 DEF Sees
<1> QED
  BY <1>1, <1>3, <1>4, <1>5, <1>6 DEF Shared

\* A job does nothing to its partition, or what it is for; a start that comes with its profile
\* drops the adapters the profile lacks, of which the call has warned.
Ran(c) ==
  LET u == tasks[c].uuid  starts == tasks[c].op = "on" IN
  /\ u \in Uuids /\ u = uid[c] /\ (starts => ~lpar[u].on)
  /\ \E p \in SUBSET User :
       /\ p \ lpar[u].kept \subseteq lpar[u].slots \ lpar[u].kept
       /\ lpar' = [lpar EXCEPT ![u].on = IF tasks[c].op \in Mutation!Power THEN starts ELSE @, ![u].slots = p]
  /\ did' = [d \in User |-> did[d] \cup (IF d = c THEN {"ran"} ELSE {}) \cup (IF starts /\ uid[d] = u THEN {"lit"} ELSE {})]

LEMMA RunIs ==
  ASSUME MutationInv, NEW c \in User, Mutation!Run(c)
  PROVE  \E e \in {"ok", "failed"} :
           /\ tasks' = [tasks EXCEPT ![c].end = e]
           /\ Ran(c) \/ (UNCHANGED <<lpar, did>> /\ (e = "failed" \/ tasks[c].op = "on"))
<1>1. MutationTyped /\ OneName /\ Submitted(c) /\ Warned(c) /\ tasks[c].op # "-"
  BY DEF MutationInv, Right, Mutation!Run
<1> DEFINE u == tasks[c].uuid
           starts == tasks[c].op = "on"
           p == IF starts /\ command[c].form = "profile" THEN lpar[u].kept ELSE lpar[u].slots
           lost == lpar[u].slots \ (p \cup Mutation!Steps(c))
<1> SUFFICES ASSUME starts => ~lpar[u].on,
                    lpar' = [lpar EXCEPT ![u].on = IF tasks[c].op \in Mutation!Power THEN starts ELSE @, ![u].slots = p],
                    did' = [d \in User |-> did[d] \cup (IF d = c THEN {"ran"} ELSE {})
                                            \cup (IF starts /\ uid[d] = u THEN {"lit"} ELSE {})
                                            \cup (IF d = c /\ lost # {} /\ u \notin altered[c] THEN {"loss"} ELSE {})]
             PROVE  Ran(c)
  BY DEF Mutation!Run
<1>2. u \in Uuids /\ u = uid[c] /\ lpar[u] \in Partitions
  BY <1>1 DEF Submitted, MutationTyped
<1>3. lost = {} \/ u \in altered[c]
  BY <1>1, <1>2 DEF Warned, Mutation!Steps
<1>4. did' = [d \in User |-> did[d] \cup (IF d = c THEN {"ran"} ELSE {}) \cup (IF starts /\ uid[d] = u THEN {"lit"} ELSE {})]
  BY <1>3
<1>5. p \in SUBSET User /\ p \ lpar[u].kept \subseteq lpar[u].slots \ lpar[u].kept
  BY <1>2 DEF Partitions
<1> QED
  BY <1>2, <1>4, <1>5 DEF Ran

LEMMA RunShared ==
  ASSUME MutationInv, NEW c \in User, Mutation!Run(c)
  PROVE  Shared(c)
<1>1. MutationTyped /\ OneName /\ wrong = {}
  BY DEF MutationInv
<1>2. CASE UNCHANGED <<lpar, did>>
  BY <1>2, HarmlessShared DEF Mutation!Run
<1>3. CASE Ran(c)
  <2> DEFINE u == tasks[c].uuid
             starts == tasks[c].op = "on"
             on == IF tasks[c].op \in Mutation!Power THEN starts ELSE lpar[u].on
  <2>1. PICK p \in SUBSET User :
          /\ p \ lpar[u].kept \subseteq lpar[u].slots \ lpar[u].kept
          /\ lpar' = [lpar EXCEPT ![u].on = IF tasks[c].op \in Mutation!Power THEN starts ELSE @, ![u].slots = p]
    BY <1>3 DEF Ran
  <2>2. u \in Uuids /\ lpar[u] \in Partitions /\ on \in BOOLEAN
    BY <1>1, <1>3 DEF Ran, MutationTyped, Partitions
  <2> DEFINE r == [lpar[u] EXCEPT !.on = on, !.slots = p]
  <2>3. r \in Partitions /\ r.name = lpar[u].name /\ r.owner = lpar[u].owner /\ r.sync = lpar[u].sync
        /\ r.kept = lpar[u].kept /\ r.slots = p /\ r.on = on
    BY <2>2 DEF Partitions
  <2>4. lpar' = [lpar EXCEPT ![u] = r]
    BY <1>1, <2>1, <2>2 DEF MutationTyped, Partitions
  <2>5. \A v \in Uuids : lpar'[v] = IF v = u THEN r ELSE lpar[v]
    BY <1>1, <2>4 DEF MutationTyped
  <2>6. OneName'
    BY <1>1, <2>2, <2>3, <2>4, NameKept
  <2>7. wrong' = {} /\ altered' = altered
    BY <1>1 DEF Mutation!Run
  <2>8. \A d \in User : did'[d] = did[d] \cup (IF d = c THEN {"ran"} ELSE {}) \cup (IF starts /\ uid[d] = u THEN {"lit"} ELSE {})
    BY <1>3 DEF Ran
  <2>9. did' \in [User -> SUBSET Deeds]
    BY <1>1, <1>3 DEF Ran, MutationTyped, Deeds
  <2>10. ASSUME NEW d \in User \ {c} PROVE Sees(d)
    <3>1. did[d] \subseteq did'[d] /\ did'[d] \subseteq did[d] \cup {"lit"}
      BY <2>8
    <3>2. ASSUME NEW v \in Uuids, lpar'[v].on, ~lpar[v].on, uid[d] = v PROVE "lit" \in did'[d]
      <4>1. v = u /\ on /\ ~lpar[u].on
        BY <2>3, <2>5, <3>2
      <4> QED
        BY <2>8, <3>2, <4>1
    <3> QED
      BY <2>1, <2>3, <2>5, <2>7, <3>1, <3>2 DEF Sees
  <2> QED
    BY <1>1, <2>2, <2>3, <2>4, <2>6, <2>7, <2>9, <2>10 DEF Shared, MutationTyped
<1> QED
  BY <1>2, <1>3, RunIs

LEMMA OtherStep ==
  ASSUME MutationInv, Mutation!MutationAssumption, NEW u \in Uuids, Mutation!Other(u)
  PROVE  MutationInv'
<1>1. MutationTyped /\ OneName /\ wrong = {} /\ lpar[u] \in Partitions
  BY DEF MutationInv, MutationTyped
<1>2. PICK p \in {[lpar[u] EXCEPT !.owner = "other"], [lpar[u] EXCEPT !.owner = "none"], [lpar[u] EXCEPT !.on = ~@],
                  Mutation!Absent, [lpar[u] EXCEPT !.sync = ~@]}
                 \cup {[lpar[u] EXCEPT !.name = n] : n \in {m \in Titles : Mutation!Called(m) = {}}} :
        /\ p # lpar[u] /\ lpar' = [lpar EXCEPT ![u] = p]
        /\ altered' = [d \in User |-> IF p.on = lpar[u].on THEN altered[d] \cup {u} ELSE altered[d]]
        /\ did' = [d \in User |-> IF p.on /\ ~lpar[u].on /\ uid[d] = u THEN did[d] \cup {"lit"} ELSE did[d]]
        /\ p.name = "-" => ~lpar[u].on
  BY DEF Mutation!Other
<1>3. p \in Partitions /\ (p.name \in {lpar[u].name, "-"} \/ Mutation!Called(p.name) = {})
  <2>1. CASE \/ p = [lpar[u] EXCEPT !.owner = "other"] \/ p = [lpar[u] EXCEPT !.owner = "none"]
             \/ p = [lpar[u] EXCEPT !.on = ~@] \/ p = [lpar[u] EXCEPT !.sync = ~@]
    BY <1>1, <2>1 DEF Partitions
  <2>3. CASE p = Mutation!Absent
    BY <2>3 DEF Partitions, Mutation!Absent
  <2>2. CASE \E n \in {m \in Titles : Mutation!Called(m) = {}} : p = [lpar[u] EXCEPT !.name = n]
    BY <1>1, <2>2 DEF Partitions
  <2> QED
    BY <1>2, <2>1, <2>2, <2>3
<1>4. p.on = lpar[u].on \/ p = [lpar[u] EXCEPT !.on = ~@]
  BY <1>1, <1>2, <1>3 DEF Partitions, Mutation!Absent
<1>5. OneName'
  BY <1>1, <1>2, <1>3, NameKept
<1>6. UNCHANGED <<tasks, command, commandPc, uid, label, copy, answer, valid, wrong>>
  BY DEF Mutation!Other
<1>7. MutationTyped'
  BY <1>1, <1>2, <1>3, <1>6 DEF MutationTyped, Deeds
<1>8. ASSUME NEW d \in User PROVE Right(d)'
  <2>1. \A v \in Uuids : lpar'[v] = IF v = u THEN p ELSE lpar[v]
    BY <1>1, <1>2 DEF MutationTyped
  <2>2. /\ altered'[d] = IF p.on = lpar[u].on THEN altered[d] \cup {u} ELSE altered[d]
        /\ did'[d] = IF p.on /\ ~lpar[u].on /\ uid[d] = u THEN did[d] \cup {"lit"} ELSE did[d]
    BY <1>2
  <2>3. p.on = lpar[u].on \/ (/\ p.name = lpar[u].name /\ p.owner = lpar[u].owner /\ p.sync = lpar[u].sync
                              /\ p.kept = lpar[u].kept /\ p.slots = lpar[u].slots)
    BY <1>1, <1>4 DEF Partitions
  <2>4. Sees(d)
    BY <2>1, <2>2, <2>3 DEF Sees
  <2>5. Apart(d)
    BY <1>6, <2>4 DEF Apart, Still
  <2> QED
    BY <1>1, <2>5, Unmoved DEF MutationInv
<1> QED
  BY <1>1, <1>5, <1>6, <1>7, <1>8 DEF MutationInv

\* A step of a call leaves the variables of the others alone.
LEMMA SharedSuffices ==
  ASSUME MutationInv, NEW c \in User, Shared(c), MutationTyped', \A d \in User \ {c} : Still(d), Right(c)'
  PROVE  MutationInv'
BY Unmoved DEF MutationInv, Shared, Apart

\* What a call says when it ends, and what its place says of it while it runs.
LEMMA EndsRight ==
  ASSUME NEW c \in User, MutationTyped', Placed(c), commandPc[c] # "-", command'[c] = command[c],
         commandPc'[c] = "end", answer'[c].how # "-", Submitted(c)',
         (tasks[c].op = "on" /\ lpar[uid[c]].on => "lit" \in did[c])', Warned(c)', Mutation!Told(c)'
  PROVE  Right(c)'
BY DEF Right, Placed, SoFar, Aims, LetTo, Synced, Validated, Early, Let, Makes, Bound

LEMMA BeginStep ==
  ASSUME MutationInv, Mutation!MutationAssumption, NEW c \in User, Mutation!Begin(c)
  PROVE  MutationInv'
<1>1. MutationTyped /\ OneName /\ wrong = {} /\ Right(c)
  BY DEF MutationInv
<1>2. PICK r \in Asks :
        /\ command' = [command EXCEPT ![c] = r]
        /\ commandPc' = [commandPc EXCEPT ![c] = IF r.op = "create" THEN "exists"
                                                 ELSE IF r.form = "validated" THEN "find" ELSE "resolve"]
  BY DEF Mutation!Begin, Mutation!Goes
<1>3. /\ command[c] = Mutation!Idle /\ altered' = [altered EXCEPT ![c] = {}]
      /\ UNCHANGED <<lpar, tasks, uid, label, copy, answer, did, valid, wrong>>
  BY DEF Mutation!Begin, Mutation!hmc
<1>4. MutationTyped'
  BY <1>1, <1>2, <1>3 DEF MutationTyped, Places, Early
<1>5. r # Mutation!Idle /\ (r.form = "validated" => r.op # "create") /\ r.op # "-"
  BY DEF Mutation!MutationAssumption, Mutation!Idle
<1>6. Shared(c)
  <2>1. OneName'
    BY <1>1, <1>3 DEF OneName, Mutation!There
  <2>2. \A d \in User \ {c} : Sees(d)
    BY <1>1, <1>3 DEF Sees, MutationTyped
  <2> QED
    BY <1>1, <1>3, <1>4, <2>1, <2>2 DEF Shared, MutationTyped
<1>7. \A d \in User \ {c} : Still(d)
  BY <1>1, <1>2, <1>3 DEF Still, MutationTyped
<1>8. Right(c)'
  <2>1. commandPc[c] = "-" /\ commandPc'[c] \in {"exists", "find", "resolve"} /\ command'[c] = r
    BY <1>1, <1>2, <1>3 DEF Right, Placed, MutationTyped
  <2>2. tasks[c].op = "-"
    BY <1>1, <1>3, <2>1 DEF Right, Submitted
  <2>3. answer[c].steps = {} /\ did[c] \subseteq {"lit"} /\ answer[c].how = "-"
    BY <1>1, <2>1 DEF Right, SoFar, Placed, Early, MutationTyped
  <2>4. Placed(c)'
    BY <1>1, <1>2, <1>3, <1>5, <2>1, <2>3 DEF Placed, Makes, Bound, Let, MutationTyped
  <2>5. Submitted(c)' /\ SoFar(c)'
    BY <1>1, <1>3, <2>1, <2>2, <2>3 DEF Right, Submitted, SoFar, Early
  <2>6. Aims(c)' /\ LetTo(c)' /\ Synced(c)' /\ Warned(c)'
    BY <1>3, <2>1, <2>2 DEF Aims, LetTo, Synced, Warned, Let
  <2>7. Validated(c)'
    BY <1>2, <1>1, <1>5, <2>1 DEF Validated, MutationTyped
  <2>8. Mutation!Told(c)'
    BY <1>3, <2>3 DEF Mutation!Told, Mutation!Steps
  <2> QED
    BY <2>4, <2>5, <2>6, <2>7, <2>8 DEF Right
<1> QED
  BY <1>4, <1>6, <1>7, <1>8, SharedSuffices

LEMMA AnswersTyped ==
  ASSUME MutationTyped, NEW c \in User, NEW h \in Hows, NEW s \in SUBSET (Deeds \cup User)
  PROVE  /\ [answer EXCEPT ![c].how = h] \in [User -> Answers]
         /\ [answer EXCEPT ![c].steps = s] \in [User -> Answers]
         /\ [answer EXCEPT ![c] = [how |-> h, steps |-> s]] \in [User -> Answers]
BY DEF MutationTyped, Answers

\* A name is one partition's, and no UUID is a name.
LEMMA FoundOne ==
  ASSUME MutationTyped, OneName, Mutation!MutationAssumption, NEW c \in User, command[c] # Mutation!Idle,
         NEW u \in Found(c), NEW w \in Found(c)
  PROVE  u = w
<1>1. command[c].sel \in Titles \cup Uuids \cup {"-"}
  BY CommandKnown
<1>2. lpar[u].name \in Titles /\ lpar[w].name \in Titles
  BY DEF MutationTyped, Partitions, Found, Mutation!Called, Mutation!There
<1> QED
  BY <1>1, <1>2 DEF OneName, Found, Mutation!Called, Mutation!There, Mutation!MutationAssumption

LEMMA ReadSuffices ==
  ASSUME MutationInv, NEW c \in User, UNCHANGED <<lpar, tasks, command, altered, did, wrong>>, MutationTyped',
         \A d \in User \ {c} :
           /\ commandPc'[d] = commandPc[d] /\ uid'[d] = uid[d] /\ label'[d] = label[d]
           /\ copy'[d] = copy[d] /\ answer'[d] = answer[d] /\ valid'[d] = valid[d],
         Right(c)'
  PROVE  MutationInv'
<1>1. Shared(c)
  BY HarmlessShared
<1>2. \A d \in User \ {c} : Still(d)
  BY DEF Still
<1> QED
  BY <1>1, <1>2, SharedSuffices

LEMMA EndsEarly ==
  ASSUME MutationTyped, MutationTyped', NEW c \in User, Right(c), commandPc[c] \in Early \ {"-"},
         UNCHANGED <<lpar, tasks, command, altered, did, uid>>, commandPc'[c] = "end",
         NEW h \in {"refused", "already", "error"}, answer'[c] = [answer[c] EXCEPT !.how = h]
  PROVE  Right(c)'
<1>1. tasks[c].op = "-" /\ tasks[c].end = "-"
  BY DEF Right, Submitted, Early
<1>2. answer'[c].how = h /\ answer'[c].steps = answer[c].steps
  BY DEF MutationTyped, Answers
<1>3. did[c] \subseteq {"lit"} /\ (command[c].op # "on" => answer[c].steps = {})
  BY DEF Right, SoFar
<1>4. Mutation!Told(c)'
  BY <1>2, <1>3 DEF Mutation!Told, Mutation!Steps
<1>5. Submitted(c)' /\ Warned(c)'
  BY <1>1 DEF Submitted, Warned
<1> QED
  BY <1>1, <1>2, <1>4, <1>5, EndsRight DEF Right

LEMMA ResolveStep ==
  ASSUME MutationInv, Mutation!MutationAssumption, NEW c \in User,
         \/ Mutation!Resolve(c, "find", "validate")
         \/ Mutation!Resolve(c, "resolve", IF command[c].op \in Mutation!Power /\ ~Guard THEN Mutation!After(c) ELSE "name")
  PROVE  MutationInv'
<1>1. MutationTyped /\ OneName /\ wrong = {} /\ Right(c)
  BY DEF MutationInv
<1> DEFINE next == IF commandPc[c] = "find" THEN "validate"
                   ELSE IF command[c].op \in Mutation!Power /\ ~Guard THEN Mutation!After(c) ELSE "name"
<1>2. /\ UNCHANGED <<lpar, tasks, command, altered, did, valid, wrong, label, copy>>
      /\ commandPc[c] \in {"find", "resolve"}
      /\ \/ /\ answer' = [answer EXCEPT ![c].how = "refused"] /\ commandPc' = [commandPc EXCEPT ![c] = "end"]
            /\ uid' = uid
         \/ /\ \E u \in Found(c) : uid' = [uid EXCEPT ![c] = u]
            /\ commandPc' = [commandPc EXCEPT ![c] = next] /\ answer' = answer
  BY DEF Mutation!Resolve, Mutation!Read, Mutation!hmc, Mutation!past, Mutation!At, Mutation!Ends, Mutation!Goes, Found
<1>3. command[c] # Mutation!Idle /\ tasks[c].op = "-" /\ command[c].op # "create"
  BY <1>1, <1>2, CommandKnown DEF Right, Placed, Submitted, Mutation!Idle
<1>4. CASE uid' = uid /\ answer' = [answer EXCEPT ![c].how = "refused"] /\ commandPc' = [commandPc EXCEPT ![c] = "end"]
  <2>1. MutationTyped'
    BY <1>1, <1>2, <1>4, AnswersTyped DEF MutationTyped, Places, Hows
  <2>2. Right(c)'
    BY <1>1, <1>2, <1>4, <2>1, EndsEarly DEF MutationTyped, Early
  <2> QED
    BY <1>1, <1>2, <1>4, <2>1, <2>2, ReadSuffices DEF MutationTyped
<1>5. ASSUME NEW u \in Found(c), uid' = [uid EXCEPT ![c] = u], commandPc' = [commandPc EXCEPT ![c] = next],
             answer' = answer
      PROVE  MutationInv'
  <2>1. u \in Uuids /\ Mutation!There(u)
    BY DEF Found, Mutation!Called
  <2>2. /\ next \in {"validate", "name", "state", "submit"}
        /\ next = "validate" => command[c].form = "validated"
        /\ next = "state" => command[c].op = "on"
        /\ next = "submit" => command[c].op \in Mutation!Power /\ ~Guard /\ command[c].form # "profile"
        /\ next = "state" => ~Guard
    BY <1>1, <1>2, <1>3, CommandKnown DEF Mutation!After, Mutation!Power, Mutation!ByName, Right, Placed
  <2>3. MutationTyped'
    BY <1>1, <1>2, <1>5, <2>1, <2>2 DEF MutationTyped, Places, Early, Let
  <2>4. /\ commandPc'[c] = next /\ uid'[c] = u
        /\ \A d \in User \ {c} : commandPc'[d] = commandPc[d] /\ uid'[d] = uid[d]
    BY <1>1, <1>5 DEF MutationTyped
  <2>5. Placed(c)'
    BY <1>1, <1>2, <1>3, <1>5, <2>1, <2>2, <2>4 DEF Right, Placed, Makes, Bound, Let, Mutation!Power, Works
  <2>6. Submitted(c)' /\ SoFar(c)' /\ Aims(c)' /\ Synced(c)' /\ Warned(c)'
    BY <1>1, <1>2, <1>3, <1>5, <2>2, <2>4
       DEF Right, Submitted, SoFar, Early, Aims, Synced, Warned
  <2>7. LetTo(c)'
    BY <1>2, <2>2, <2>4, CommandKnown, <1>3, <1>1 DEF LetTo, Let, Mutation!Power
  <2>8. Validated(c)'
    <3>1. Found(c)' = Found(c)
      BY <1>2 DEF Found, Mutation!Called, Mutation!There
    <3>2. \A w \in Found(c) : w = u
      BY <1>1, <1>3, FoundOne
    <3> QED
      BY <1>1, <1>2, <1>3, <2>2, <2>4, <3>1, <3>2, CommandKnown DEF Right, Validated, Mutation!Power
  <2>9. Mutation!Told(c)'
    BY <1>1, <1>2, <1>5, <2>4 DEF Right, Mutation!Told, Mutation!Steps, Placed, SoFar, Early
  <2> QED
    BY <1>2, <1>5, <2>3, <2>4, <2>5, <2>6, <2>7, <2>8, <2>9, ReadSuffices DEF Right
<1> QED
  BY <1>2, <1>4, <1>5

LEMMA AfterIs ==
  ASSUME MutationTyped, Mutation!MutationAssumption, NEW c \in User, command[c] # Mutation!Idle,
         command[c].op # "create"
  PROVE  /\ Mutation!After(c) \in {"get", "write", "where", "state", "submit"}
         /\ Mutation!After(c) = "get" => command[c].op \in {"rename", "size", "modify"}
         /\ Mutation!After(c) = "write" => command[c].op \in {"describe", "sync"}
         /\ Mutation!After(c) = "where" => command[c].op = "adapter"
         /\ Mutation!After(c) = "state" => command[c].op \in {"delete", "on"}
         /\ Mutation!After(c) = "submit" => command[c].op \in Works /\ command[c].form # "profile"
BY CommandKnown DEF Mutation!After, Mutation!ByName, Works

LEMMA ValidateStep ==
  ASSUME MutationInv, Mutation!MutationAssumption, NEW c \in User, Mutation!Validate(c)
  PROVE  MutationInv'
<1>1. MutationTyped /\ OneName /\ wrong = {} /\ Right(c)
  BY DEF MutationInv
<1>2. /\ UNCHANGED <<lpar, tasks, command, altered, did, wrong, label, copy, uid>> /\ commandPc[c] = "validate"
      /\ \/ /\ answer' = [answer EXCEPT ![c].how = "refused"] /\ commandPc' = [commandPc EXCEPT ![c] = "end"]
            /\ valid' = valid
         \/ /\ valid' = [valid EXCEPT ![c] = @ \cup {uid[c]}] /\ answer' = answer
            /\ commandPc' = [commandPc EXCEPT ![c] = "resolve"]
  BY DEF Mutation!Validate, Mutation!hmc, Mutation!At, Mutation!Ends, Mutation!Goes
<1>3. command[c] # Mutation!Idle /\ tasks[c].op = "-" /\ uid[c] \in Uuids /\ command[c].form = "validated"
  BY <1>1, <1>2 DEF Right, Placed, Submitted, Bound
<1>4. CASE valid' = valid /\ answer' = [answer EXCEPT ![c].how = "refused"] /\ commandPc' = [commandPc EXCEPT ![c] = "end"]
  <2>1. MutationTyped'
    BY <1>1, <1>2, <1>4, AnswersTyped DEF MutationTyped, Places, Hows
  <2>2. Right(c)'
    BY <1>1, <1>2, <1>4, <2>1, EndsEarly DEF MutationTyped, Early
  <2> QED
    BY <1>1, <1>2, <1>4, <2>1, <2>2, ReadSuffices DEF MutationTyped
<1>5. CASE /\ valid' = [valid EXCEPT ![c] = @ \cup {uid[c]}] /\ answer' = answer
           /\ commandPc' = [commandPc EXCEPT ![c] = "resolve"]
  <2>1. MutationTyped'
    BY <1>1, <1>2, <1>3, <1>5 DEF MutationTyped, Places, Early
  <2>2. /\ commandPc'[c] = "resolve" /\ valid'[c] = valid[c] \cup {uid[c]}
        /\ \A d \in User \ {c} : commandPc'[d] = commandPc[d] /\ valid'[d] = valid[d]
    BY <1>1, <1>5 DEF MutationTyped
  <2>3. command[c].op = "migrate"
    BY <1>1, <1>3, CommandKnown
  <2>4. Placed(c)' /\ Submitted(c)' /\ SoFar(c)'
    BY <1>1, <1>2, <1>3, <1>5, <2>2, <2>3 DEF Right, Placed, Submitted, SoFar, Makes, Bound, Let, Early
  <2>5. Aims(c)' /\ LetTo(c)' /\ Synced(c)' /\ Warned(c)'
    BY <1>2, <1>3, <2>2 DEF Aims, LetTo, Let, Synced, Warned
  <2>6. Found(c)' = Found(c)
    BY <1>2 DEF Found, Mutation!Called, Mutation!There
  <2>7. Validated(c)'
    BY <1>1, <1>2, <2>2, <2>6 DEF Right, Validated
  <2>8. Mutation!Told(c)'
    BY <1>1, <1>2, <1>5 DEF Right, Mutation!Told, Mutation!Steps
  <2> QED
    BY <1>2, <1>5, <2>1, <2>2, <2>4, <2>5, <2>7, <2>8, ReadSuffices DEF Right
<1> QED
  BY <1>2, <1>4, <1>5

LEMMA ReadNameStep ==
  ASSUME MutationInv, Mutation!MutationAssumption, NEW c \in User, Mutation!ReadName(c)
  PROVE  MutationInv'
<1>1. MutationTyped /\ OneName /\ wrong = {} /\ Right(c)
  BY DEF MutationInv
<1> DEFINE next == IF command[c].override THEN Mutation!After(c) ELSE "owner"
<1>2. /\ UNCHANGED <<lpar, tasks, command, altered, did, valid, wrong, uid, copy>> /\ commandPc[c] = "name"
      /\ \/ /\ answer' = [answer EXCEPT ![c].how = "refused"] /\ commandPc' = [commandPc EXCEPT ![c] = "end"]
            /\ label' = label
         \/ /\ Mutation!There(uid[c]) /\ label' = [label EXCEPT ![c] = lpar[uid[c]].name] /\ answer' = answer
            /\ commandPc' = [commandPc EXCEPT ![c] = next]
  BY DEF Mutation!ReadName, Mutation!Read, Mutation!hmc, Mutation!past, Mutation!At, Mutation!Ends, Mutation!Goes
<1>3. command[c] # Mutation!Idle /\ tasks[c].op = "-" /\ uid[c] \in Uuids /\ command[c].op # "create"
  BY <1>1, <1>2 DEF Right, Placed, Submitted, Bound
<1>4. CASE label' = label /\ answer' = [answer EXCEPT ![c].how = "refused"] /\ commandPc' = [commandPc EXCEPT ![c] = "end"]
  <2>1. MutationTyped'
    BY <1>1, <1>2, <1>4, AnswersTyped DEF MutationTyped, Places, Hows
  <2>2. Right(c)'
    BY <1>1, <1>2, <1>4, <2>1, EndsEarly DEF MutationTyped, Early
  <2> QED
    BY <1>1, <1>2, <1>4, <2>1, <2>2, ReadSuffices DEF MutationTyped
<1>5. CASE /\ Mutation!There(uid[c]) /\ label' = [label EXCEPT ![c] = lpar[uid[c]].name] /\ answer' = answer
           /\ commandPc' = [commandPc EXCEPT ![c] = next]
  <2>1. /\ next \in {"owner", "get", "write", "where", "state", "submit"}
        /\ next # "owner" => command[c].override /\ next = Mutation!After(c)
    BY <1>1, <1>3, AfterIs
  <2>2. MutationTyped'
    BY <1>1, <1>2, <1>3, <1>5, <2>1 DEF MutationTyped, Places, Early, Let, Partitions
  <2>3. /\ commandPc'[c] = next /\ label'[c] = lpar[uid[c]].name
        /\ \A d \in User \ {c} : commandPc'[d] = commandPc[d] /\ label'[d] = label[d]
    BY <1>1, <1>5 DEF MutationTyped
  <2>4. Placed(c)'
    BY <1>1, <1>2, <1>3, <1>5, <2>1, <2>3, AfterIs DEF Right, Placed, Makes, Bound, Let
  <2>5. Submitted(c)' /\ SoFar(c)'
    BY <1>1, <1>2, <1>3, <1>5, <2>1, <2>3 DEF Right, Submitted, SoFar, Early
  <2>6. Aims(c)'
    BY <1>1, <1>2, <1>3, <1>5, <2>1, <2>3 DEF Aims, OneName, Mutation!Called, Mutation!There
  <2>7. LetTo(c)' /\ Synced(c)'
    BY <1>2, <2>1, <2>3 DEF LetTo, Let, Synced
  <2>8. Warned(c)' /\ Validated(c)'
    BY <1>1, <1>2, <1>3, <2>1, <2>3, AfterIs DEF Right, Warned, Validated
  <2>9. Mutation!Told(c)'
    BY <1>1, <1>2, <1>5 DEF Right, Mutation!Told, Mutation!Steps
  <2> QED
    BY <1>2, <1>5, <2>2, <2>3, <2>4, <2>5, <2>6, <2>7, <2>8, <2>9, ReadSuffices DEF Right
<1> QED
  BY <1>2, <1>4, <1>5

LEMMA AuthorizeStep ==
  ASSUME MutationInv, Mutation!MutationAssumption, NEW c \in User, Mutation!Authorize(c)
  PROVE  MutationInv'
<1>1. MutationTyped /\ OneName /\ wrong = {} /\ Right(c)
  BY DEF MutationInv
<1>2. /\ UNCHANGED <<lpar, tasks, command, altered, did, valid, wrong, uid, label>> /\ commandPc[c] = "owner"
      /\ \/ /\ answer' = [answer EXCEPT ![c].how = "refused"] /\ commandPc' = [commandPc EXCEPT ![c] = "end"]
            /\ copy' = copy
         \/ /\ \E u \in Mutation!Called(label[c]) : ~Mutation!Foreign(lpar[u]) /\ copy' = [copy EXCEPT ![c] = lpar[u]]
            /\ answer' = answer /\ commandPc' = [commandPc EXCEPT ![c] = Mutation!After(c)]
  BY DEF Mutation!Authorize, Mutation!Read, Mutation!hmc, Mutation!past, Mutation!At, Mutation!Ends, Mutation!Goes
<1>3. command[c] # Mutation!Idle /\ tasks[c].op = "-" /\ uid[c] \in Uuids /\ command[c].op # "create"
  BY <1>1, <1>2 DEF Right, Placed, Submitted, Bound
<1>4. CASE copy' = copy /\ answer' = [answer EXCEPT ![c].how = "refused"] /\ commandPc' = [commandPc EXCEPT ![c] = "end"]
  <2>1. MutationTyped'
    BY <1>1, <1>2, <1>4, AnswersTyped DEF MutationTyped, Places, Hows
  <2>2. Right(c)'
    BY <1>1, <1>2, <1>4, <2>1, EndsEarly DEF MutationTyped, Early
  <2> QED
    BY <1>1, <1>2, <1>4, <2>1, <2>2, ReadSuffices DEF MutationTyped
<1>5. ASSUME NEW u \in Mutation!Called(label[c]), ~Mutation!Foreign(lpar[u]), copy' = [copy EXCEPT ![c] = lpar[u]],
             answer' = answer, commandPc' = [commandPc EXCEPT ![c] = Mutation!After(c)]
      PROVE  MutationInv'
  <2>1. u \in Uuids /\ lpar[u] \in Partitions /\ lpar[u].name = label[c] /\ Mutation!There(u)
    BY <1>1 DEF MutationTyped, Mutation!Called
  <2>2. MutationTyped'
    BY <1>1, <1>2, <1>3, <1>5, <2>1, AfterIs DEF MutationTyped, Places, Early, Let
  <2>3. /\ commandPc'[c] = Mutation!After(c) /\ copy'[c] = lpar[u]
        /\ \A d \in User \ {c} : commandPc'[d] = commandPc[d] /\ copy'[d] = copy[d]
    BY <1>1, <1>5 DEF MutationTyped
  <2>4. uid[c] \notin altered[c] => u = uid[c]
    BY <1>1, <1>2, <2>1 DEF Right, Aims, OneName, Mutation!Called
  <2>5. Placed(c)'
    BY <1>1, <1>2, <1>3, <1>5, <2>3, AfterIs DEF Right, Placed, Makes, Bound, Let
  <2>6. Submitted(c)' /\ SoFar(c)'
    BY <1>1, <1>2, <1>3, <1>5, <2>3, AfterIs DEF Right, Submitted, SoFar, Early
  <2>7. Aims(c)'
    BY <1>1, <1>2, <1>3, <2>3, AfterIs DEF Right, Aims, Mutation!Called, Mutation!There
  <2>8. LetTo(c)' /\ Synced(c)'
    BY <1>1, <1>2, <1>3, <1>5, <2>3, <2>4, AfterIs DEF LetTo, Synced, Mutation!Foreign
  <2>9. Warned(c)' /\ Validated(c)'
    BY <1>1, <1>2, <1>3, <2>3, AfterIs DEF Right, Warned, Validated
  <2>10. Mutation!Told(c)'
    BY <1>1, <1>2, <1>5 DEF Right, Mutation!Told, Mutation!Steps
  <2> QED
    BY <1>2, <1>5, <2>2, <2>3, <2>5, <2>6, <2>7, <2>8, <2>9, <2>10, ReadSuffices DEF Right
<1> QED
  BY <1>2, <1>4, <1>5

LEMMA GetStep ==
  ASSUME MutationInv, NEW c \in User, Mutation!Get(c)
  PROVE  MutationInv'
<1>1. MutationTyped /\ OneName /\ wrong = {} /\ Right(c)
  BY DEF MutationInv
<1> DEFINE h == IF "rename" \in answer[c].steps THEN "partial" ELSE "refused"
<1>2. /\ UNCHANGED <<lpar, tasks, command, altered, did, valid, wrong, uid, label>> /\ commandPc[c] = "get"
      /\ \/ /\ answer' = [answer EXCEPT ![c].how = h] /\ commandPc' = [commandPc EXCEPT ![c] = "end"]
            /\ copy' = copy
         \/ /\ copy' = [copy EXCEPT ![c] = lpar[uid[c]]] /\ answer' = answer
            /\ commandPc' = [commandPc EXCEPT ![c] = "post"]
  BY DEF Mutation!Get, Mutation!Read, Mutation!hmc, Mutation!past, Mutation!At, Mutation!Ends, Mutation!Goes,
         Mutation!Partial, Mutation!Steps
<1>3. command[c] # Mutation!Idle /\ tasks[c].op = "-" /\ uid[c] \in Uuids /\ command[c].op \in {"rename", "size", "modify"}
  BY <1>1, <1>2 DEF Right, Placed, Submitted, Bound, Let
<1>4. CASE copy' = copy /\ answer' = [answer EXCEPT ![c].how = h] /\ commandPc' = [commandPc EXCEPT ![c] = "end"]
  <2>1. MutationTyped'
    BY <1>1, <1>2, <1>4, AnswersTyped DEF MutationTyped, Places, Hows
  <2>2. /\ commandPc'[c] = "end" /\ answer'[c].how = h /\ answer'[c].steps = answer[c].steps
        /\ \A d \in User \ {c} : commandPc'[d] = commandPc[d] /\ answer'[d] = answer[d]
    BY <1>1, <1>4 DEF MutationTyped, Answers
  <2>3. Mutation!Told(c)'
    BY <1>1, <1>2, <1>3, <2>2 DEF Right, SoFar, Mutation!Told, Mutation!Steps
  <2>4. Right(c)'
    BY <1>1, <1>2, <1>3, <2>1, <2>2, <2>3, EndsRight DEF Right, Submitted, Warned
  <2> QED
    BY <1>2, <1>4, <2>1, <2>2, <2>4, ReadSuffices
<1>5. CASE /\ copy' = [copy EXCEPT ![c] = lpar[uid[c]]] /\ answer' = answer
           /\ commandPc' = [commandPc EXCEPT ![c] = "post"]
  <2>1. MutationTyped'
    BY <1>1, <1>2, <1>3, <1>5 DEF MutationTyped, Places, Let
  <2>2. /\ commandPc'[c] = "post" /\ copy'[c] = lpar[uid[c]]
        /\ \A d \in User \ {c} : commandPc'[d] = commandPc[d] /\ copy'[d] = copy[d]
    BY <1>1, <1>5 DEF MutationTyped
  <2>3. Placed(c)' /\ Submitted(c)' /\ SoFar(c)'
    BY <1>1, <1>2, <1>3, <1>5, <2>2 DEF Right, Placed, Submitted, SoFar, Makes, Bound, Let, Early
  <2>4. Aims(c)' /\ LetTo(c)' /\ Synced(c)' /\ Warned(c)' /\ Validated(c)'
    BY <1>1, <1>2, <1>3, <2>2 DEF Right, Aims, LetTo, Let, Synced, Warned, Validated, Mutation!Foreign
  <2>5. Mutation!Told(c)'
    BY <1>1, <1>2, <1>5 DEF Right, Mutation!Told, Mutation!Steps
  <2> QED
    BY <1>2, <1>5, <2>1, <2>2, <2>3, <2>4, <2>5, ReadSuffices DEF Right
<1> QED
  BY <1>2, <1>4, <1>5

LEMMA WhereStep ==
  ASSUME MutationInv, NEW c \in User, Mutation!Where(c)
  PROVE  MutationInv'
<1>1. MutationTyped /\ OneName /\ wrong = {} /\ Right(c)
  BY DEF MutationInv
<1>2. /\ UNCHANGED <<lpar, tasks, command, altered, did, valid, wrong, uid, label>> /\ commandPc[c] = "where"
      /\ \/ /\ answer' = [answer EXCEPT ![c].how = "refused"] /\ commandPc' = [commandPc EXCEPT ![c] = "end"]
            /\ copy' = copy
         \/ /\ copy' = [copy EXCEPT ![c] = lpar[uid[c]]] /\ answer' = answer
            /\ commandPc' = [commandPc EXCEPT ![c] = "add"]
  BY DEF Mutation!Where, Mutation!Read, Mutation!hmc, Mutation!past, Mutation!At, Mutation!Ends, Mutation!Goes
<1>3. command[c] # Mutation!Idle /\ tasks[c].op = "-" /\ uid[c] \in Uuids /\ command[c].op = "adapter"
  BY <1>1, <1>2 DEF Right, Placed, Submitted, Bound, Let
<1>4. CASE copy' = copy /\ answer' = [answer EXCEPT ![c].how = "refused"] /\ commandPc' = [commandPc EXCEPT ![c] = "end"]
  <2>1. MutationTyped'
    BY <1>1, <1>2, <1>4, AnswersTyped DEF MutationTyped, Places, Hows
  <2>2. Right(c)'
    BY <1>1, <1>2, <1>4, <2>1, EndsEarly DEF MutationTyped, Early
  <2> QED
    BY <1>1, <1>2, <1>4, <2>1, <2>2, ReadSuffices DEF MutationTyped
<1>5. CASE /\ copy' = [copy EXCEPT ![c] = lpar[uid[c]]] /\ answer' = answer
           /\ commandPc' = [commandPc EXCEPT ![c] = "add"]
  <2>1. MutationTyped'
    BY <1>1, <1>2, <1>3, <1>5 DEF MutationTyped, Places, Let
  <2>2. /\ commandPc'[c] = "add" /\ copy'[c] = lpar[uid[c]]
        /\ \A d \in User \ {c} : commandPc'[d] = commandPc[d] /\ copy'[d] = copy[d]
    BY <1>1, <1>5 DEF MutationTyped
  <2>3. Placed(c)' /\ Submitted(c)' /\ SoFar(c)'
    BY <1>1, <1>2, <1>3, <1>5, <2>2 DEF Right, Placed, Submitted, SoFar, Makes, Bound, Let, Early
  <2>4. Aims(c)' /\ LetTo(c)' /\ Synced(c)' /\ Warned(c)' /\ Validated(c)'
    BY <1>1, <1>2, <1>3, <2>2 DEF Right, Aims, LetTo, Let, Synced, Warned, Validated, Mutation!Foreign
  <2>5. Mutation!Told(c)'
    BY <1>1, <1>2, <1>5 DEF Right, Mutation!Told, Mutation!Steps
  <2> QED
    BY <1>2, <1>5, <2>1, <2>2, <2>3, <2>4, <2>5, ReadSuffices DEF Right
<1> QED
  BY <1>2, <1>4, <1>5

LEMMA StateStep ==
  ASSUME MutationInv, Mutation!MutationAssumption, NEW c \in User, Mutation!State(c)
  PROVE  MutationInv'
<1>1. MutationTyped /\ OneName /\ wrong = {} /\ Right(c)
  BY DEF MutationInv
<1> DEFINE next == IF command[c].op = "delete" THEN "erase" ELSE IF command[c].form = "profile" THEN "lacks" ELSE "submit"
<1>2. /\ UNCHANGED <<lpar, tasks, command, altered, did, valid, wrong, uid, label, copy>> /\ commandPc[c] = "state"
      /\ \/ \E h \in {"refused", "already"} :
              answer' = [answer EXCEPT ![c].how = h] /\ commandPc' = [commandPc EXCEPT ![c] = "end"]
         \/ /\ ~lpar[uid[c]].on /\ answer' = answer /\ commandPc' = [commandPc EXCEPT ![c] = next]
  BY DEF Mutation!State, Mutation!Read, Mutation!hmc, Mutation!past, Mutation!At, Mutation!Ends, Mutation!Goes
<1>3. command[c] # Mutation!Idle /\ tasks[c].op = "-" /\ uid[c] \in Uuids /\ command[c].op \in {"delete", "on"}
  BY <1>1, <1>2 DEF Right, Placed, Submitted, Bound, Let
<1>4. ASSUME NEW h \in {"refused", "already"}, answer' = [answer EXCEPT ![c].how = h],
             commandPc' = [commandPc EXCEPT ![c] = "end"]
      PROVE  MutationInv'
  <2>1. MutationTyped'
    BY <1>1, <1>2, <1>4, AnswersTyped DEF MutationTyped, Places, Hows
  <2>2. Right(c)'
    BY <1>1, <1>2, <1>4, <2>1, EndsEarly DEF MutationTyped, Early
  <2> QED
    BY <1>1, <1>2, <1>4, <2>1, <2>2, ReadSuffices DEF MutationTyped
<1>5. CASE answer' = answer /\ commandPc' = [commandPc EXCEPT ![c] = next]
  <2>1. MutationTyped'
    BY <1>1, <1>2, <1>3, <1>5 DEF MutationTyped, Places, Let
  <2>2. /\ commandPc'[c] = next
        /\ \A d \in User \ {c} : commandPc'[d] = commandPc[d]
    BY <1>1, <1>5 DEF MutationTyped
  <2>3. Placed(c)' /\ Submitted(c)' /\ SoFar(c)'
    BY <1>1, <1>2, <1>3, <1>5, <2>2 DEF Right, Placed, Submitted, SoFar, Makes, Bound, Let, Early, Works
  <2>4. Aims(c)' /\ LetTo(c)' /\ Synced(c)' /\ Warned(c)'
    BY <1>1, <1>2, <1>3, <2>2 DEF Right, Aims, LetTo, Let, Synced, Warned, Mutation!Foreign
  <2>5. Validated(c)'
    BY <1>1, <1>2, <1>3, <2>2, CommandKnown DEF Validated
  <2>6. Mutation!Told(c)'
    BY <1>1, <1>2, <1>5 DEF Right, Mutation!Told, Mutation!Steps
  <2> QED
    BY <1>2, <1>5, <2>1, <2>2, <2>3, <2>4, <2>5, <2>6, ReadSuffices DEF Right
<1> QED
  BY <1>2, <1>4, <1>5

LEMMA LacksStep ==
  ASSUME MutationInv, NEW c \in User, Mutation!Lacks(c)
  PROVE  MutationInv'
<1>1. MutationTyped /\ OneName /\ wrong = {} /\ Right(c)
  BY DEF MutationInv
<1>2. /\ UNCHANGED <<lpar, tasks, command, altered, did, valid, wrong, uid, label, copy>> /\ commandPc[c] = "lacks"
      /\ commandPc' = [commandPc EXCEPT ![c] = "submit"]
  BY DEF Mutation!Lacks, Mutation!Read, Mutation!hmc, Mutation!past, Mutation!At, Mutation!Goes
<1>3. PICK w \in {lpar[uid[c]].slots \ lpar[uid[c]].kept, User} : answer' = [answer EXCEPT ![c].steps = w]
  BY DEF Mutation!Lacks
<1>4. /\ command[c] # Mutation!Idle /\ tasks[c].op = "-" /\ uid[c] \in Uuids /\ command[c].op = "on"
      /\ command[c].form = "profile" /\ lpar[uid[c]] \in Partitions
  BY <1>1, <1>2 DEF Right, Placed, Submitted, Bound, Let, MutationTyped
<1>5. w \in SUBSET User /\ lpar[uid[c]].slots \ lpar[uid[c]].kept \subseteq w
  BY <1>3, <1>4 DEF Partitions
<1>6. answer' \in [User -> Answers]
  <2>1. w \in SUBSET (Deeds \cup User)
    BY <1>5
  <2>2. "-" \in Hows
    BY DEF Hows
  <2> QED
    BY <1>1, <1>3, <2>1, <2>2, AnswersTyped
<1>7. MutationTyped'
  BY <1>1, <1>2, <1>6 DEF MutationTyped, Places, Let
<1>8. /\ commandPc'[c] = "submit" /\ answer'[c].how = answer[c].how /\ answer'[c].steps = w
      /\ \A d \in User \ {c} : commandPc'[d] = commandPc[d] /\ answer'[d] = answer[d]
  BY <1>1, <1>2, <1>3 DEF MutationTyped, Answers
<1>9. Placed(c)' /\ Submitted(c)' /\ SoFar(c)'
  BY <1>1, <1>2, <1>4, <1>8 DEF Right, Placed, Submitted, SoFar, Makes, Bound, Let, Early, Works
<1>10. Aims(c)' /\ LetTo(c)' /\ Synced(c)' /\ Warned(c)'
  BY <1>1, <1>2, <1>4, <1>5, <1>8 DEF Right, Aims, LetTo, Let, Synced, Warned, Mutation!Foreign
<1>11. Validated(c)' /\ Mutation!Told(c)'
  BY <1>1, <1>2, <1>4, <1>8 DEF Right, Placed, Validated, Mutation!Told, Mutation!Steps
<1> QED
  BY <1>2, <1>7, <1>8, <1>9, <1>10, <1>11, ReadSuffices DEF Right

LEMMA WaitStep ==
  ASSUME MutationInv, NEW c \in User, Mutation!Wait(c)
  PROVE  MutationInv'
<1>1. MutationTyped /\ OneName /\ wrong = {} /\ Right(c)
  BY DEF MutationInv
<1>2. UNCHANGED <<lpar, tasks, command, altered, did, valid, wrong, uid, label, copy>> /\ commandPc[c] = "wait"
  BY DEF Mutation!Wait, Mutation!Read, Mutation!hmc, Mutation!past, Mutation!At
<1>3. /\ command[c] # Mutation!Idle /\ tasks[c].op # "-" /\ tasks[c].op = command[c].op /\ uid[c] \in Uuids
      /\ answer[c].how = "-" /\ command[c].op \in Works
  BY <1>1, <1>2 DEF Right, Placed, Submitted, MutationTyped
<1>4. ASSUME NEW h \in {"timeout", "failed", "done"}, answer' = [answer EXCEPT ![c] = [how |-> h, steps |-> answer[c].steps]],
             commandPc' = [commandPc EXCEPT ![c] = "end"],
             h = "done" => tasks[c].end = "ok" /\ command[c].op # "on"
      PROVE  MutationInv'
  <2>1. answer[c].steps \in SUBSET (Deeds \cup User) /\ h \in Hows
    BY <1>1 DEF MutationTyped, Answers, Hows
  <2>2. MutationTyped'
    BY <1>1, <1>2, <1>4, <2>1, AnswersTyped DEF MutationTyped, Places
  <2>3. /\ commandPc'[c] = "end" /\ answer'[c].how = h /\ answer'[c].steps = answer[c].steps
        /\ \A d \in User \ {c} : commandPc'[d] = commandPc[d] /\ answer'[d] = answer[d]
    BY <1>1, <1>4 DEF MutationTyped
  <2>4. Mutation!Told(c)'
    <3>1. h = "done" => command[c].op \in {"off", "migrate"} /\ "ran" \in did[c]
      BY <1>1, <1>2, <1>3, <1>4 DEF Right, Submitted, Works
    <3>2. command[c].op # "on" => answer[c].steps = {}
      BY <1>1, <1>2 DEF Right, SoFar
    <3> QED
      BY <1>1, <1>2, <2>3, <3>1, <3>2 DEF Right, Mutation!Told, Mutation!Steps
  <2>5. Submitted(c)' /\ Warned(c)'
    BY <1>1, <1>2, <1>3, <2>3 DEF Right, Submitted, Warned
  <2>6. (tasks[c].op = "on" /\ lpar[uid[c]].on => "lit" \in did[c])'
    BY <1>1, <1>2 DEF Right, SoFar
  <2>7. Right(c)'
    BY <1>1, <1>2, <1>3, <2>2, <2>3, <2>4, <2>5, <2>6, EndsRight DEF Right
  <2> QED
    BY <1>2, <1>4, <2>2, <2>3, <2>7, ReadSuffices
<1>5. CASE /\ tasks[c].end = "ok" /\ command[c].op = "on" /\ commandPc' = [commandPc EXCEPT ![c] = "active"]
           /\ answer' = answer
  <2>1. MutationTyped'
    BY <1>1, <1>2, <1>5 DEF MutationTyped, Places
  <2>2. commandPc'[c] = "active" /\ \A d \in User \ {c} : commandPc'[d] = commandPc[d]
    BY <1>1, <1>5 DEF MutationTyped
  <2>3. Placed(c)' /\ Submitted(c)' /\ SoFar(c)'
    BY <1>1, <1>2, <1>3, <1>5, <2>2 DEF Right, Placed, Submitted, SoFar, Makes, Bound, Let, Early
  <2>4. Aims(c)' /\ LetTo(c)' /\ Synced(c)' /\ Warned(c)' /\ Validated(c)'
    BY <1>1, <1>2, <1>3, <1>5, <2>2 DEF Right, Aims, LetTo, Let, Synced, Warned, Validated
  <2>5. Mutation!Told(c)'
    BY <1>1, <1>2, <1>5 DEF Right, Mutation!Told, Mutation!Steps
  <2> QED
    BY <1>2, <1>5, <2>1, <2>2, <2>3, <2>4, <2>5, ReadSuffices DEF Right
<1>6. \/ \E h \in {"timeout", "failed", "done"} :
           /\ answer' = [answer EXCEPT ![c] = [how |-> h, steps |-> answer[c].steps]]
           /\ commandPc' = [commandPc EXCEPT ![c] = "end"]
           /\ h = "done" => tasks[c].end = "ok" /\ command[c].op # "on"
      \/ /\ tasks[c].end = "ok" /\ command[c].op = "on" /\ commandPc' = [commandPc EXCEPT ![c] = "active"]
         /\ answer' = answer
  BY <1>1 DEF Mutation!Wait, Mutation!Ends, Mutation!Goes, Mutation!Done, MutationTyped, Answers
<1> QED
  BY <1>4, <1>5, <1>6

LEMMA RequireActivatedStep ==
  ASSUME MutationInv, NEW c \in User, Mutation!RequireActivated(c)
  PROVE  MutationInv'
<1>1. MutationTyped /\ OneName /\ wrong = {} /\ Right(c)
  BY DEF MutationInv
<1>2. /\ UNCHANGED <<lpar, tasks, command, altered, did, valid, wrong, uid, label, copy>> /\ commandPc[c] = "active"
      /\ commandPc' = [commandPc EXCEPT ![c] = "end"]
  BY DEF Mutation!RequireActivated, Mutation!Read, Mutation!hmc, Mutation!past, Mutation!At, Mutation!Ends,
         Mutation!Goes, Mutation!Done
<1>3. /\ command[c] # Mutation!Idle /\ tasks[c].op = "on" /\ tasks[c].op = command[c].op /\ uid[c] \in Uuids
  BY <1>1, <1>2 DEF Right, Placed, Submitted
<1>4. PICK h \in {"error", "done"} : /\ answer' = [answer EXCEPT ![c] = [how |-> h, steps |-> answer[c].steps]]
                                     /\ h = "done" => lpar[uid[c]].on
  BY <1>1 DEF Mutation!RequireActivated, Mutation!Ends, Mutation!Done, MutationTyped, Answers
<1>5. answer[c].steps \in SUBSET (Deeds \cup User) /\ h \in Hows
  BY <1>1 DEF MutationTyped, Answers, Hows
<1>6. MutationTyped'
  BY <1>1, <1>2, <1>4, <1>5, AnswersTyped DEF MutationTyped, Places
<1>7. /\ commandPc'[c] = "end" /\ answer'[c].how = h /\ answer'[c].steps = answer[c].steps
      /\ \A d \in User \ {c} : commandPc'[d] = commandPc[d] /\ answer'[d] = answer[d]
  BY <1>1, <1>2, <1>4 DEF MutationTyped
<1>8. Mutation!Told(c)'
  <2>1. h = "done" => "lit" \in did[c]
    BY <1>1, <1>3, <1>4 DEF Right, SoFar
  <2> QED
    BY <1>1, <1>2, <1>3, <1>7, <2>1 DEF Right, Mutation!Told, Mutation!Steps
<1>9. Submitted(c)' /\ Warned(c)'
  BY <1>1, <1>2, <1>3, <1>7 DEF Right, Submitted, Warned
<1>10. (tasks[c].op = "on" /\ lpar[uid[c]].on => "lit" \in did[c])'
  BY <1>1, <1>2 DEF Right, SoFar
<1>11. Right(c)'
  BY <1>1, <1>2, <1>6, <1>7, <1>8, <1>9, <1>10, EndsRight DEF Right
<1> QED
  BY <1>2, <1>6, <1>7, <1>11, ReadSuffices

LEMMA ExistsStep ==
  ASSUME MutationInv, Mutation!MutationAssumption, NEW c \in User, Mutation!Exists(c)
  PROVE  MutationInv'
<1>1. MutationTyped /\ OneName /\ wrong = {} /\ Right(c)
  BY DEF MutationInv
<1>2. /\ UNCHANGED <<lpar, tasks, command, altered, did, valid, wrong, uid, copy>> /\ commandPc[c] = "exists"
      /\ label' = [label EXCEPT ![c] = command[c].name]
      /\ \/ answer' = [answer EXCEPT ![c].how = "refused"] /\ commandPc' = [commandPc EXCEPT ![c] = "end"]
         \/ /\ answer' = answer
            /\ \E next \in {"put", "cli"} : commandPc' = [commandPc EXCEPT ![c] = next]
  BY DEF Mutation!Exists, Mutation!Read, Mutation!hmc, Mutation!past, Mutation!At, Mutation!Ends, Mutation!Goes
<1>3. command[c] # Mutation!Idle /\ tasks[c].op = "-" /\ command[c].op = "create"
  BY <1>1, <1>2 DEF Right, Placed, Submitted, Makes
<1>4. command[c].name \in Titles /\ command[c].form # "validated" /\ command[c].form # "profile"
  BY <1>1, <1>3, CommandKnown
<1>5. /\ label' \in [User -> Titles \cup {"-"}] /\ label'[c] = command[c].name
      /\ \A d \in User \ {c} : label'[d] = label[d]
  BY <1>1, <1>2, <1>4 DEF MutationTyped
<1>6. CASE answer' = [answer EXCEPT ![c].how = "refused"] /\ commandPc' = [commandPc EXCEPT ![c] = "end"]
  <2>1. MutationTyped'
    BY <1>1, <1>2, <1>5, <1>6, AnswersTyped DEF MutationTyped, Places, Hows
  <2>2. Right(c)'
    BY <1>1, <1>2, <1>6, <2>1, EndsEarly DEF MutationTyped, Early
  <2> QED
    BY <1>1, <1>2, <1>5, <1>6, <2>1, <2>2, ReadSuffices DEF MutationTyped
<1>7. ASSUME NEW next \in {"put", "cli"}, answer' = answer, commandPc' = [commandPc EXCEPT ![c] = next]
      PROVE  MutationInv'
  <2>1. MutationTyped'
    BY <1>1, <1>2, <1>5, <1>7 DEF MutationTyped, Places, Early
  <2>2. commandPc'[c] = next /\ \A d \in User \ {c} : commandPc'[d] = commandPc[d]
    BY <1>1, <1>7 DEF MutationTyped
  <2>3. Placed(c)' /\ Submitted(c)' /\ SoFar(c)'
    BY <1>1, <1>2, <1>3, <1>5, <1>7, <2>2 DEF Right, Placed, Submitted, SoFar, Makes, Bound, Let, Early
  <2>4. Aims(c)' /\ LetTo(c)' /\ Synced(c)' /\ Warned(c)' /\ Validated(c)'
    BY <1>2, <1>3, <1>4, <2>2 DEF Aims, LetTo, Let, Synced, Warned, Validated
  <2>5. Mutation!Told(c)'
    BY <1>1, <1>2, <1>7 DEF Right, Mutation!Told, Mutation!Steps
  <2> QED
    BY <1>2, <1>5, <1>7, <2>1, <2>2, <2>3, <2>4, <2>5, ReadSuffices DEF Right
<1> QED
  BY <1>2, <1>6, <1>7

\* A create that made its partition says so, also when it has to say that the stamp is missing.
LEMMA Created ==
  ASSUME MutationTyped', NEW c \in User, Placed(c), commandPc[c] # "-", command'[c] = command[c],
         command[c].op = "create", tasks'[c].op = "-", tasks'[c].end = "-", commandPc'[c] = "end",
         "create" \in did'[c], "loss" \notin did'[c],
         \/ answer'[c].how \in {"kept", "error"} /\ answer'[c].steps = {}
         \/ answer'[c].how = "done" /\ answer'[c].steps \subseteq {"create", "stamp"} \cap did'[c]
  PROVE  Right(c)'
<1>1. Mutation!Told(c)'
  BY DEF Mutation!Told, Mutation!Steps
<1>2. Submitted(c)' /\ Warned(c)'
  <2>1. command[c].op = "create" /\ command'[c].op = "create"
    OBVIOUS
  <2> QED
    BY <2>1 DEF Submitted, Warned
<1> QED
  BY <1>1, <1>2, EndsRight

LEMMA BackStep ==
  ASSUME MutationInv, Mutation!MutationAssumption, NEW c \in User, Mutation!Back(c)
  PROVE  MutationInv'
<1>1. MutationTyped /\ OneName /\ wrong = {} /\ Right(c)
  BY DEF MutationInv
<1>2. /\ UNCHANGED <<lpar, tasks, command, altered, did, valid, wrong, uid, label, copy>> /\ commandPc[c] = "back"
  BY DEF Mutation!Back, Mutation!Read, Mutation!hmc, Mutation!past, Mutation!At
<1>3. /\ command[c] # Mutation!Idle /\ tasks[c].op = "-" /\ tasks[c].end = "-" /\ command[c].op = "create"
      /\ uid[c] \in Uuids /\ answer[c].steps = {} /\ "create" \in did[c] /\ "loss" \notin did[c]
  BY <1>1, <1>2 DEF Right, Placed, Submitted, Makes, Bound, Let, SoFar, Mutation!Told
<1>4. command[c].form # "validated" /\ command[c].form # "profile"
  BY <1>1, <1>3, CommandKnown
<1>5. ASSUME NEW h \in {"kept", "done"}, NEW s \in {{}, {"create"}}, h = "kept" => s = {},
             answer' = [answer EXCEPT ![c] = [how |-> h, steps |-> s]], commandPc' = [commandPc EXCEPT ![c] = "end"]
      PROVE  MutationInv'
  <2>1. s \in SUBSET (Deeds \cup User) /\ h \in Hows
    BY DEF Hows, Deeds
  <2>2. MutationTyped'
    BY <1>1, <1>2, <1>5, <2>1, AnswersTyped DEF MutationTyped, Places
  <2>3. /\ commandPc'[c] = "end" /\ answer'[c].how = h /\ answer'[c].steps = s
        /\ \A d \in User \ {c} : commandPc'[d] = commandPc[d] /\ answer'[d] = answer[d]
    BY <1>1, <1>5 DEF MutationTyped
  <2>4. Right(c)'
    BY <1>1, <1>2, <1>3, <1>5, <2>2, <2>3, Created DEF Right
  <2> QED
    BY <1>2, <2>2, <2>3, <2>4, ReadSuffices
<1>6. CASE answer' = answer /\ commandPc' = [commandPc EXCEPT ![c] = "stamp"]
  <2>1. MutationTyped'
    BY <1>1, <1>2, <1>6 DEF MutationTyped, Places, Let
  <2>2. commandPc'[c] = "stamp" /\ \A d \in User \ {c} : commandPc'[d] = commandPc[d]
    BY <1>1, <1>6 DEF MutationTyped
  <2>3. Placed(c)' /\ Submitted(c)' /\ SoFar(c)'
    BY <1>1, <1>2, <1>3, <1>6, <2>2 DEF Right, Placed, Submitted, SoFar, Makes, Bound, Let, Early
  <2>4. Aims(c)' /\ LetTo(c)' /\ Synced(c)' /\ Warned(c)' /\ Validated(c)'
    BY <1>1, <1>2, <1>3, <1>4, <2>2
       DEF Right, Aims, LetTo, Let, Synced, Warned, Validated, Mutation!Foreign, Mutation!Called, Mutation!There
  <2>5. Mutation!Told(c)'
    BY <1>1, <1>2, <1>6 DEF Right, Mutation!Told, Mutation!Steps
  <2> QED
    BY <1>2, <1>6, <2>1, <2>2, <2>3, <2>4, <2>5, ReadSuffices DEF Right
<1>7. \/ \E h \in {"kept", "done"}, s \in {{}, {"create"}} :
           /\ h = "kept" => s = {}
           /\ answer' = [answer EXCEPT ![c] = [how |-> h, steps |-> s]] /\ commandPc' = [commandPc EXCEPT ![c] = "end"]
      \/ answer' = answer /\ commandPc' = [commandPc EXCEPT ![c] = "stamp"]
  BY <1>1, <1>3 DEF Mutation!Back, Mutation!Unstamped, Mutation!Ends, Mutation!Goes, Mutation!Done, MutationTyped, Answers
<1> QED
  BY <1>5, <1>6, <1>7

LEMMA RunStep ==
  ASSUME MutationInv, NEW c \in User, Mutation!Run(c)
  PROVE  MutationInv'
<1>1. MutationTyped /\ OneName /\ wrong = {} /\ Right(c)
  BY DEF MutationInv
<1>2. /\ UNCHANGED <<command, commandPc, uid, label, copy, answer, altered, valid, wrong>>
      /\ tasks[c].op # "-" /\ tasks[c].end = "-"
  BY DEF Mutation!Run
<1>3. /\ tasks[c].op = command[c].op /\ tasks[c].uuid = uid[c] /\ uid[c] \in Uuids
      /\ commandPc[c] \in {"wait", "active", "end"} /\ answer[c].how # "refused" /\ tasks[c].op \in Works
  BY <1>1, <1>2 DEF Right, Submitted, MutationTyped
<1>4. PICK e \in {"ok", "failed"} :
        /\ tasks' = [tasks EXCEPT ![c].end = e]
        /\ Ran(c) \/ (UNCHANGED <<lpar, did>> /\ (e = "failed" \/ tasks[c].op = "on"))
  BY RunIs
<1>5. Shared(c)
  BY RunShared
<1>6. MutationTyped'
  BY <1>1, <1>2, <1>4, <1>5 DEF MutationTyped, Shared
<1>7. tasks'[c] = [tasks[c] EXCEPT !.end = e] /\ \A d \in User \ {c} : tasks'[d] = tasks[d]
  BY <1>1, <1>4 DEF MutationTyped
<1>8. \A d \in User \ {c} : Still(d)
  BY <1>2, <1>7 DEF Still
<1>9. /\ did[c] \subseteq did'[c] /\ did'[c] \subseteq did[c] \cup {"ran", "lit"}
      /\ e = "ok" /\ tasks[c].op # "on" => "ran" \in did'[c]
      /\ tasks[c].op = "on" /\ lpar'[uid[c]].on => lpar[uid[c]].on \/ "lit" \in did'[c]
      /\ lpar'[uid[c]].slots \ lpar'[uid[c]].kept \subseteq lpar[uid[c]].slots \ lpar[uid[c]].kept
  <2>1. CASE UNCHANGED <<lpar, did>> /\ (e = "failed" \/ tasks[c].op = "on")
    BY <2>1
  <2>2. CASE Ran(c)
    <3>1. did'[c] = did[c] \cup {"ran"} \cup (IF tasks[c].op = "on" THEN {"lit"} ELSE {})
      BY <1>3, <2>2 DEF Ran
    <3>2. PICK p \in SUBSET User :
            /\ p \ lpar[uid[c]].kept \subseteq lpar[uid[c]].slots \ lpar[uid[c]].kept
            /\ lpar' = [lpar EXCEPT ![uid[c]].on = IF tasks[c].op \in Mutation!Power THEN tasks[c].op = "on" ELSE @,
                                    ![uid[c]].slots = p]
      BY <1>3, <2>2 DEF Ran
    <3>3. lpar'[uid[c]].slots = p /\ lpar'[uid[c]].kept = lpar[uid[c]].kept
      BY <1>1, <1>3, <3>2 DEF MutationTyped, Partitions
    <3> QED
      BY <3>1, <3>2, <3>3
  <2> QED
    BY <1>4, <2>1, <2>2
<1>10. Placed(c)'
  BY <1>1, <1>2 DEF Right, Placed
<1>11. Submitted(c)' /\ SoFar(c)'
  BY <1>1, <1>2, <1>3, <1>7, <1>9 DEF Right, Submitted, SoFar, Early, MutationTyped
<1>12. Aims(c)' /\ LetTo(c)' /\ Synced(c)' /\ Validated(c)'
  BY <1>2, <1>3 DEF Aims, LetTo, Let, Synced, Validated
<1>13. Warned(c)'
  BY <1>1, <1>2, <1>3, <1>9 DEF Right, Warned
<1>14. Mutation!Told(c)'
  BY <1>1, <1>2, <1>3, <1>9 DEF Right, Mutation!Told, Mutation!Steps, Works
<1> QED
  BY <1>5, <1>6, <1>8, <1>10, <1>11, <1>12, <1>13, <1>14, SharedSuffices DEF Right

LEMMA HowOnly ==
  ASSUME MutationTyped, NEW c \in User, NEW h \in {"refused", "error", "partial", "submitted"}
  PROVE  /\ [answer EXCEPT ![c].how = h] = [answer EXCEPT ![c] = [how |-> h, steps |-> answer[c].steps]]
         /\ answer[c].steps \in SUBSET (Deeds \cup User) /\ h \in Hows
<1>1. h \in Hows
  BY DEF Hows
<1>2. answer[c] \in Answers /\ answer \in [User -> Answers]
  BY DEF MutationTyped
<1>3. [answer[c] EXCEPT !.how = h] = [how |-> h, steps |-> answer[c].steps]
  BY <1>2 DEF Answers
<1> QED
  BY <1>1, <1>2, <1>3 DEF Answers

LEMMA EffectOwn ==
  ASSUME MutationTyped, NEW c \in User, NEW u \in Uuids, NEW r \in Partitions, NEW x, Mutation!Effect(c, u, r, x)
  PROVE  /\ did'[c] = did[c] \cup {x} /\ altered'[c] = altered[c] /\ valid' = valid
         /\ \A v \in Uuids : lpar'[v] = IF v = u THEN r ELSE lpar[v]
BY DEF MutationTyped, Mutation!Effect

LEMMA EndsJobless ==
  ASSUME MutationTyped', NEW c \in User, Placed(c), commandPc[c] # "-", command'[c] = command[c],
         tasks'[c].op = "-", tasks'[c].end = "-", commandPc'[c] = "end", answer'[c].how # "-", Mutation!Told(c)'
  PROVE  Right(c)'
<1>1. Submitted(c)' /\ Warned(c)'
  BY DEF Submitted, Warned
<1> QED
  BY <1>1, EndsRight

\* What a call that wrote, or did not, leaves of its own variables.
LEMMA EndsTyped ==
  ASSUME MutationTyped, NEW c \in User, NEW h \in Hows, NEW s \in SUBSET (Deeds \cup User), Shared(c),
         UNCHANGED <<command, label, copy, tasks, uid, valid>>,
         answer' = [answer EXCEPT ![c] = [how |-> h, steps |-> s]], commandPc' = [commandPc EXCEPT ![c] = "end"]
  PROVE  /\ MutationTyped' /\ \A d \in User \ {c} : Still(d)
         /\ commandPc'[c] = "end" /\ answer'[c].how = h /\ answer'[c].steps = s
<1>1. MutationTyped'
  BY AnswersTyped DEF MutationTyped, Shared, Places
<1> QED
  BY <1>1 DEF MutationTyped, Still

LEMMA PostStep ==
  ASSUME MutationInv, Mutation!MutationAssumption, NEW c \in User, Mutation!Post(c)
  PROVE  MutationInv'
<1>1. MutationTyped /\ OneName /\ wrong = {} /\ Right(c)
  BY DEF MutationInv
<1> DEFINE u == uid[c]
           r == Mutation!Changed(c)
           x == IF Mutation!Renames(c) THEN "rename" ELSE "size"
<1>2. UNCHANGED <<command, label, copy, tasks, uid>> /\ commandPc[c] = "post"
  BY DEF Mutation!Post, Mutation!Write, Mutation!At
<1>3. /\ command[c] # Mutation!Idle /\ tasks[c].op = "-" /\ tasks[c].end = "-" /\ u \in Uuids
      /\ command[c].op \in {"rename", "size", "modify"} /\ answer[c].how = "-" /\ "loss" \notin did[c]
      /\ \/ answer[c].steps = {} /\ did[c] \subseteq {"lit"}
         \/ answer[c].steps = {"rename"} /\ "rename" \in did[c] /\ command[c].op = "modify"
  BY <1>1, <1>2 DEF Right, Placed, Submitted, Bound, Let, SoFar, Mutation!Told
<1>4. Shared(c)
  BY HarmlessShared, PostHarmless DEF Mutation!NoEffect, Mutation!past
<1>5. \/ /\ Mutation!NoEffect \/ (Mutation!Matches(c) /\ Mutation!Effect(c, u, r, x))
         /\ \E h \in {"refused", "error", "partial"} :
              /\ h = "refused" => Mutation!NoEffect
              /\ (h = "partial") = ("rename" \in answer[c].steps)
              /\ answer' = [answer EXCEPT ![c].how = h] /\ commandPc' = [commandPc EXCEPT ![c] = "end"]
      \/ /\ Mutation!Matches(c) /\ Mutation!Effect(c, u, r, x)
         /\ \/ /\ command[c].op = "modify" /\ x = "rename" /\ answer' = [answer EXCEPT ![c].steps = {x}]
               /\ commandPc' = [commandPc EXCEPT ![c] = "get"]
            \/ /\ ~(command[c].op = "modify" /\ x = "rename")
               /\ answer' = [answer EXCEPT ![c] = [how |-> "done", steps |-> answer[c].steps \cup {x}]]
               /\ commandPc' = [commandPc EXCEPT ![c] = "end"]
  BY <1>1 DEF Mutation!Post, Mutation!Ends, Mutation!Goes, Mutation!Done, Mutation!Partial, Mutation!Steps, MutationTyped, Answers
<1>6. Mutation!Matches(c) => r \in Partitions /\ r.on = lpar[u].on /\ r.owner = lpar[u].owner
  <2> SUFFICES ASSUME Mutation!Matches(c) PROVE r \in Partitions /\ r.on = lpar[u].on /\ r.owner = lpar[u].owner
    OBVIOUS
  <2>1. r = IF Mutation!Renames(c) THEN [lpar[u] EXCEPT !.name = command[c].name] ELSE [lpar[u] EXCEPT !.size = c]
    BY <1>1, <1>3, ChangedIs
  <2>2. lpar[u] \in Partitions /\ (Mutation!Renames(c) => command[c].name \in Titles)
    BY <1>1, <1>3, CommandKnown DEF MutationTyped, Mutation!Renames
  <2> QED
    BY <2>1, <2>2 DEF Partitions
<1>7. valid' = valid /\ did'[c] \subseteq did[c] \cup {x} /\ did[c] \subseteq did'[c]
  BY <1>1, <1>3, <1>5, <1>6, EffectOwn DEF Mutation!NoEffect, Mutation!past
<1>8. ASSUME NEW h \in {"refused", "error", "partial"}, h = "refused" => Mutation!NoEffect,
             (h = "partial") = ("rename" \in answer[c].steps),
             answer' = [answer EXCEPT ![c].how = h], commandPc' = [commandPc EXCEPT ![c] = "end"]
      PROVE  MutationInv'
  <2>1. /\ answer' = [answer EXCEPT ![c] = [how |-> h, steps |-> answer[c].steps]]
        /\ answer[c].steps \in SUBSET (Deeds \cup User) /\ h \in Hows
    BY <1>1, <1>8, HowOnly
  <2>0. commandPc' = [commandPc EXCEPT ![c] = "end"]
    BY <1>8
  <2>2. /\ MutationTyped' /\ (\A d \in User \ {c} : Still(d))
        /\ commandPc'[c] = "end" /\ answer'[c].how = h /\ answer'[c].steps = answer[c].steps
    BY <1>1, <1>2, <1>4, <1>7, <2>0, <2>1, EndsTyped
  <2>3. h = "refused" => did'[c] = did[c]
    BY <1>8 DEF Mutation!NoEffect, Mutation!past
  <2>4. Mutation!Told(c)'
    BY <1>2, <1>3, <1>7, <1>8, <2>2, <2>3 DEF Mutation!Told, Mutation!Steps
  <2>5. Right(c)'
    BY <1>1, <1>2, <1>3, <2>2, <2>4, EndsJobless DEF Right
  <2> QED
    BY <1>4, <2>2, <2>5, SharedSuffices
<1>9. ASSUME Mutation!Matches(c), Mutation!Effect(c, u, r, x), ~(command[c].op = "modify" /\ x = "rename"),
             answer' = [answer EXCEPT ![c] = [how |-> "done", steps |-> answer[c].steps \cup {x}]],
             commandPc' = [commandPc EXCEPT ![c] = "end"]
      PROVE  MutationInv'
  <2>1. answer[c].steps \cup {x} \in SUBSET (Deeds \cup User) /\ "done" \in Hows
    BY <1>1 DEF MutationTyped, Answers, Hows, Deeds
  <2>2. /\ MutationTyped' /\ (\A d \in User \ {c} : Still(d))
        /\ commandPc'[c] = "end" /\ answer'[c].how = "done" /\ answer'[c].steps = answer[c].steps \cup {x}
    BY <1>1, <1>2, <1>4, <1>7, <1>9, <2>1, EndsTyped
  <2>3. did'[c] = did[c] \cup {x}
    BY <1>1, <1>3, <1>6, <1>9, EffectOwn
  <2>4. x = IF command[c].op = "modify" THEN "size" ELSE command[c].op
    BY <1>3, <1>9 DEF Mutation!Renames
  <2>5. Mutation!Told(c)'
    BY <1>2, <1>3, <2>2, <2>3, <2>4 DEF Mutation!Told, Mutation!Steps
  <2>6. Right(c)'
    BY <1>1, <1>2, <1>3, <2>2, <2>5, EndsJobless DEF Right
  <2> QED
    BY <1>4, <2>2, <2>6, SharedSuffices
<1>10. ASSUME Mutation!Matches(c), Mutation!Effect(c, u, r, x), command[c].op = "modify", x = "rename",
              answer' = [answer EXCEPT ![c].steps = {x}], commandPc' = [commandPc EXCEPT ![c] = "get"]
       PROVE  MutationInv'
  <2>1. {x} \in SUBSET (Deeds \cup User) /\ "done" \in Hows
    BY <1>10 DEF Deeds, Hows
  <2>2. MutationTyped'
    BY <1>1, <1>2, <1>4, <1>7, <1>10, <2>1, AnswersTyped DEF MutationTyped, Shared, Places, Let
  <2>3. \A d \in User \ {c} : Still(d)
    BY <1>1, <1>2, <1>7, <1>10 DEF MutationTyped, Still
  <2>4. commandPc'[c] = "get" /\ answer'[c].how = answer[c].how /\ answer'[c].steps = {"rename"}
    BY <1>1, <1>10 DEF MutationTyped, Answers
  <2>5. did'[c] = did[c] \cup {"rename"} /\ altered'[c] = altered[c] /\ lpar'[u].owner = lpar[u].owner
    <3>1. did'[c] = did[c] \cup {x} /\ altered'[c] = altered[c] /\ \A v \in Uuids : lpar'[v] = IF v = u THEN r ELSE lpar[v]
      BY <1>1, <1>3, <1>6, <1>10, EffectOwn
    <3> QED
      BY <1>3, <1>6, <1>10, <3>1
  <2>6. Placed(c)' /\ Submitted(c)'
    BY <1>1, <1>2, <1>3, <2>4 DEF Right, Placed, Submitted, Makes, Bound, Let
  <2>10. SoFar(c)'
    BY <1>2, <1>3, <1>10, <2>4, <2>5 DEF SoFar, Early
  <2>7. LetTo(c)'
    BY <1>1, <1>2, <1>3, <2>4, <2>5 DEF Right, LetTo, Let, Mutation!Foreign
  <2>8. Aims(c)' /\ Synced(c)' /\ Warned(c)' /\ Validated(c)'
    BY <1>2, <1>3, <2>4 DEF Aims, Synced, Warned, Validated
  <2>9. Mutation!Told(c)'
    BY <1>2, <1>3, <2>4, <2>5 DEF Mutation!Told, Mutation!Steps
  <2> QED
    BY <1>4, <2>2, <2>3, <2>6, <2>7, <2>8, <2>9, <2>10, SharedSuffices DEF Right
<1> QED
  BY <1>5, <1>8, <1>9, <1>10

LEMMA EffectDid ==
  ASSUME MutationTyped, NEW c \in User, NEW u, NEW r, NEW x, Mutation!Effect(c, u, r, x)
  PROVE  did'[c] = did[c] \cup {x} /\ altered'[c] = altered[c] /\ valid' = valid
BY DEF MutationTyped, Mutation!Effect

LEMMA NoEffectDid ==
  ASSUME Mutation!NoEffect
  PROVE  UNCHANGED <<lpar, altered, did, valid, wrong>>
BY DEF Mutation!NoEffect, Mutation!past

LEMMA EndsIs ==
  ASSUME MutationTyped, NEW c \in User, NEW h, Mutation!Ends(c, h)
  PROVE  /\ answer' = [answer EXCEPT ![c] = [how |-> h, steps |-> answer[c].steps]]
         /\ commandPc' = [commandPc EXCEPT ![c] = "end"]
<1>1. answer' = [answer EXCEPT ![c].how = h] /\ commandPc' = [commandPc EXCEPT ![c] = "end"]
  BY DEF Mutation!Ends, Mutation!Goes
<1>2. answer[c] \in Answers /\ answer \in [User -> Answers]
  BY DEF MutationTyped
<1>3. [answer[c] EXCEPT !.how = h] = [how |-> h, steps |-> answer[c].steps]
  BY <1>2 DEF Answers
<1> QED
  BY <1>1, <1>2, <1>3 DEF Answers

LEMMA DoneIs ==
  ASSUME MutationTyped, NEW c \in User, NEW s, Mutation!Done(c, s)
  PROVE  /\ answer' = [answer EXCEPT ![c] = [how |-> "done", steps |-> answer[c].steps \cup s]]
         /\ commandPc' = [commandPc EXCEPT ![c] = "end"]
BY DEF Mutation!Done, Mutation!Goes, MutationTyped, Answers

\* A single write that is not of a whole partition and starts no job ends its call.
LEMMA WriteEnds ==
  ASSUME MutationInv, NEW c \in User, Shared(c), commandPc[c] \in {"write", "add", "erase"},
         UNCHANGED <<command, label, copy, tasks, uid, valid>>, commandPc' = [commandPc EXCEPT ![c] = "end"],
         NEW h \in {"done", "error"}, NEW s \in {{}, {"kept"}}, "loss" \notin did'[c],
         answer' = [answer EXCEPT ![c] = [how |-> h, steps |-> s]],
         s = {} \/ "kept" \in did'[c] \/ uid[c] \in altered'[c],
         h = "done" => (IF command[c].op = "adapter" THEN IF "kept" \in did'[c] THEN "kept" ELSE "adapter"
                        ELSE command[c].op) \in did'[c]
  PROVE  MutationInv'
<1>1. MutationTyped /\ Right(c)
  BY DEF MutationInv
<1>2. s \in SUBSET (Deeds \cup User) /\ h \in Hows
  BY DEF Hows, Deeds
<1>3. /\ MutationTyped' /\ (\A d \in User \ {c} : Still(d))
      /\ commandPc'[c] = "end" /\ answer'[c].how = h /\ answer'[c].steps = s
  BY <1>1, <1>2, EndsTyped
<1>4. /\ tasks[c].op = "-" /\ tasks[c].end = "-"
      /\ command[c].op \in {"describe", "sync", "adapter", "delete"}
  BY <1>1 DEF Right, Placed, Submitted
<1>5. Mutation!Told(c)'
  BY <1>3, <1>4 DEF Mutation!Told, Mutation!Steps
<1>6. Right(c)'
  BY <1>1, <1>3, <1>4, <1>5, EndsJobless DEF Right
<1> QED
  BY <1>3, <1>6, SharedSuffices

LEMMA WriteNamedStep ==
  ASSUME MutationInv, Mutation!MutationAssumption, NEW c \in User, Mutation!WriteNamed(c)
  PROVE  MutationInv'
<1>1. MutationTyped /\ Right(c) /\ Shared(c)
  BY HarmlessShared, WriteNamedHarmless, NoEffectDid DEF MutationInv
<1>2. UNCHANGED <<command, label, copy, tasks, uid>> /\ commandPc[c] = "write"
  BY DEF Mutation!WriteNamed, Mutation!Write, Mutation!At
<1>3. answer[c].steps = {} /\ did[c] \subseteq {"lit"} /\ command[c].op \in {"describe", "sync"}
  BY <1>1, <1>2 DEF Right, SoFar, Early, Placed
<1>4. PICK h \in {"done", "error"} :
        /\ answer' = [answer EXCEPT ![c] = [how |-> h, steps |-> {}]] /\ commandPc' = [commandPc EXCEPT ![c] = "end"]
        /\ \/ h = "error" /\ Mutation!NoEffect
           \/ \E u, r : Mutation!Effect(c, u, r, command[c].op)
  <2>1. ASSUME NEW u, NEW r, Mutation!Effect(c, u, r, command[c].op), Mutation!Done(c, {}) \/ Mutation!Ends(c, "error")
        PROVE  \E h \in {"done", "error"} :
                 /\ answer' = [answer EXCEPT ![c] = [how |-> h, steps |-> {}]]
                 /\ commandPc' = [commandPc EXCEPT ![c] = "end"]
    BY <1>1, <1>3, <2>1, EndsIs, DoneIs
  <2>2. CASE Mutation!NoEffect /\ Mutation!Ends(c, "error")
    BY <1>1, <1>3, <2>2, EndsIs
  <2>3. \/ \E u, r : Mutation!Effect(c, u, r, command[c].op) /\ (Mutation!Done(c, {}) \/ Mutation!Ends(c, "error"))
        \/ Mutation!NoEffect /\ Mutation!Ends(c, "error")
    BY DEF Mutation!WriteNamed
  <2> QED
    BY <2>1, <2>2, <2>3
<1>5. valid' = valid /\ (h = "done" => command[c].op \in did'[c]) /\ did'[c] \subseteq {"lit", "describe", "sync"}
  BY <1>1, <1>3, <1>4, EffectDid, NoEffectDid
<1> QED
  BY <1>1, <1>2, <1>3, <1>4, <1>5, WriteEnds

LEMMA AddAdapterStep ==
  ASSUME MutationInv, Mutation!MutationAssumption, NEW c \in User, Mutation!AddAdapter(c)
  PROVE  MutationInv'
<1>1. MutationTyped /\ Right(c) /\ Shared(c)
  BY HarmlessShared, AddAdapterHarmless, NoEffectDid DEF MutationInv
<1>2. UNCHANGED <<command, label, copy, tasks, uid>> /\ commandPc[c] = "add"
  BY DEF Mutation!AddAdapter, Mutation!Write, Mutation!At
<1>3. answer[c].steps = {} /\ did[c] \subseteq {"lit"} /\ command[c].op = "adapter" /\ Synced(c)
  BY <1>1, <1>2 DEF Right, SoFar, Early, Placed
<1>4. PICK h \in {"done", "error"}, s \in {{}, {"kept"}} :
        /\ answer' = [answer EXCEPT ![c] = [how |-> h, steps |-> s]] /\ commandPc' = [commandPc EXCEPT ![c] = "end"]
        /\ s # {} => copy[c].sync /\ h = "done"
        /\ \/ h = "error" /\ Mutation!NoEffect
           \/ \E u, r : Mutation!Effect(c, u, r, IF lpar[uid[c]].sync THEN "kept" ELSE "adapter")
  <2> DEFINE x == IF lpar[uid[c]].sync THEN "kept" ELSE "adapter"
             k == IF copy[c].sync THEN {"kept"} ELSE {}
  <2>1. ASSUME NEW u, NEW r, Mutation!Effect(c, u, r, x), Mutation!Done(c, k)
        PROVE  /\ answer' = [answer EXCEPT ![c] = [how |-> "done", steps |-> k]]
               /\ commandPc' = [commandPc EXCEPT ![c] = "end"]
    BY <1>1, <1>3, <2>1, DoneIs
  <2>2. CASE Mutation!Ends(c, "error") /\ (Mutation!NoEffect \/ \E u, r : Mutation!Effect(c, u, r, x))
    BY <1>1, <1>3, <2>2, EndsIs
  <2>3. \/ \E u, r : Mutation!Effect(c, u, r, x) /\ Mutation!Done(c, k)
        \/ Mutation!Ends(c, "error") /\ (Mutation!NoEffect \/ \E u, r : Mutation!Effect(c, u, r, x))
    BY DEF Mutation!AddAdapter
  <2> QED
    BY <2>1, <2>2, <2>3
<1>5. /\ valid' = valid /\ did'[c] \subseteq {"lit", "kept", "adapter"}
      /\ h = "done" => (IF "kept" \in did'[c] THEN "kept" ELSE "adapter") \in did'[c]
      /\ s = {} \/ "kept" \in did'[c] \/ uid[c] \in altered'[c]
  BY <1>1, <1>2, <1>3, <1>4, EffectDid, NoEffectDid DEF Synced
<1> QED
  BY <1>1, <1>2, <1>3, <1>4, <1>5, WriteEnds

LEMMA EraseStep ==
  ASSUME MutationInv, Mutation!MutationAssumption, NEW c \in User, Mutation!Erase(c)
  PROVE  MutationInv'
<1>1. MutationTyped /\ Right(c) /\ Shared(c)
  BY HarmlessShared, EraseHarmless, NoEffectDid DEF MutationInv
<1>2. UNCHANGED <<command, label, copy, tasks, uid>> /\ commandPc[c] = "erase"
  BY DEF Mutation!Erase, Mutation!Write, Mutation!At
<1>3. answer[c].steps = {} /\ did[c] \subseteq {"lit"} /\ command[c].op = "delete"
  BY <1>1, <1>2 DEF Right, SoFar, Early, Placed
<1>4. PICK h \in {"done", "error"} :
        /\ answer' = [answer EXCEPT ![c] = [how |-> h, steps |-> {}]] /\ commandPc' = [commandPc EXCEPT ![c] = "end"]
        /\ \/ h = "error" /\ Mutation!NoEffect
           \/ \E u, r : Mutation!Effect(c, u, r, "delete")
  <2>1. ASSUME NEW u, NEW r, Mutation!Effect(c, u, r, "delete"), Mutation!Done(c, {}) \/ Mutation!Ends(c, "error")
        PROVE  \E h \in {"done", "error"} :
                 /\ answer' = [answer EXCEPT ![c] = [how |-> h, steps |-> {}]]
                 /\ commandPc' = [commandPc EXCEPT ![c] = "end"]
    BY <1>1, <1>3, <2>1, EndsIs, DoneIs
  <2>2. CASE Mutation!NoEffect /\ Mutation!Ends(c, "error")
    BY <1>1, <1>3, <2>2, EndsIs
  <2>3. \/ \E u, r : Mutation!Effect(c, u, r, "delete") /\ (Mutation!Done(c, {}) \/ Mutation!Ends(c, "error"))
        \/ Mutation!NoEffect /\ Mutation!Ends(c, "error")
    BY DEF Mutation!Erase
  <2> QED
    BY <2>1, <2>2, <2>3
<1>5. valid' = valid /\ (h = "done" => "delete" \in did'[c]) /\ did'[c] \subseteq {"lit", "delete"}
  BY <1>1, <1>3, <1>4, EffectDid, NoEffectDid
<1> QED
  BY <1>1, <1>2, <1>3, <1>4, <1>5, WriteEnds

LEMMA SubmitStep ==
  ASSUME MutationInv, Mutation!MutationAssumption, NEW c \in User, Mutation!Submit(c)
  PROVE  MutationInv'
<1>1. MutationTyped /\ Right(c) /\ Shared(c)
  BY HarmlessShared, SubmitHarmless, NoEffectDid DEF MutationInv
<1> DEFINE u == uid[c]
           x == IF lpar[u].on THEN "lit" ELSE "submit"
           j == [op |-> command[c].op, uuid |-> u, end |-> "-"]
<1>2. UNCHANGED <<command, label, copy, uid>> /\ commandPc[c] = "submit"
  BY DEF Mutation!Submit, Mutation!Write, Mutation!At
<1>3. /\ did[c] \subseteq {"lit"} /\ command[c].op \in Works /\ tasks[c].op = "-" /\ tasks[c].end = "-"
      /\ u \in Uuids /\ (command[c].op # "on" => answer[c].steps = {}) /\ answer[c].how = "-"
      /\ command[c] # Mutation!Idle /\ answer[c].steps \in SUBSET (Deeds \cup User)
  BY <1>1, <1>2 DEF Right, SoFar, Early, Placed, Submitted, Bound, Let, MutationTyped, Answers
<1>4. CASE Mutation!NoEffect /\ UNCHANGED tasks /\ Mutation!Ends(c, "error")
  <2>1. UNCHANGED <<lpar, altered, did, valid, wrong>> /\ answer' = [answer EXCEPT ![c].how = "error"]
    BY <1>4, NoEffectDid DEF Mutation!Ends
  <2>2. commandPc' = [commandPc EXCEPT ![c] = "end"]
    BY <1>4 DEF Mutation!Ends, Mutation!Goes
  <2>3. MutationTyped'
    BY <1>1, <1>2, <1>4, <2>1, <2>2, AnswersTyped DEF MutationTyped, Places, Hows
  <2>4. Right(c)'
    BY <1>1, <1>2, <1>4, <2>1, <2>2, <2>3, EndsEarly DEF MutationTyped, Early
  <2> QED
    BY <1>1, <1>2, <1>4, <2>1, <2>2, <2>3, <2>4, ReadSuffices DEF MutationTyped
<1>5. ASSUME tasks' = [tasks EXCEPT ![c] = j], Mutation!Effect(c, u, lpar[u], x),
             \/ Mutation!Ends(c, "error") \/ Mutation!Ends(c, "submitted")
             \/ Mutation!Goes(c, "wait") /\ UNCHANGED answer
      PROVE  MutationInv'
  <2>1. did'[c] = did[c] \cup {x} /\ altered'[c] = altered[c] /\ valid' = valid
    BY <1>1, <1>5, EffectDid
  <2>2. \A v \in Uuids : lpar'[v] = lpar[v]
    BY <1>1, <1>3, <1>5 DEF MutationTyped, Mutation!Effect
  <2>3. tasks'[c] = j /\ \A d \in User \ {c} : tasks'[d] = tasks[d]
    BY <1>1, <1>5 DEF MutationTyped
  <2>4. tasks' \in [User -> [op : Works \cup {"-"}, uuid : Uuids \cup {"-"}, end : {"-", "ok", "failed"}]]
    BY <1>1, <1>3, <1>5 DEF MutationTyped
  <2>5. PICK h \in {"-", "error", "submitted"}, at \in {"wait", "end"} :
          /\ answer' = [answer EXCEPT ![c] = [how |-> h, steps |-> answer[c].steps]]
          /\ commandPc' = [commandPc EXCEPT ![c] = at] /\ (at = "wait") = (h = "-")
    <3>1. CASE Mutation!Ends(c, "error") \/ Mutation!Ends(c, "submitted")
      BY <1>1, <3>1, EndsIs
    <3>2. CASE Mutation!Goes(c, "wait") /\ UNCHANGED answer
      <4>1. answer = [answer EXCEPT ![c] = [how |-> "-", steps |-> answer[c].steps]]
        BY <1>1, <1>3 DEF MutationTyped, Answers
      <4> QED
        BY <3>2, <4>1 DEF Mutation!Goes
    <3> QED
      BY <1>5, <3>1, <3>2
  <2>6. answer' \in [User -> Answers]
    <3>1. h \in Hows
      BY DEF Hows
    <3> QED
      BY <1>1, <1>3, <2>5, <3>1, AnswersTyped
  <2>7. MutationTyped'
    BY <1>1, <1>2, <2>1, <2>4, <2>5, <2>6 DEF MutationTyped, Shared, Places
  <2>8. /\ commandPc'[c] = at /\ answer'[c].how = h /\ answer'[c].steps = answer[c].steps
        /\ \A d \in User \ {c} : commandPc'[d] = commandPc[d] /\ answer'[d] = answer[d]
    BY <1>1, <2>5 DEF MutationTyped
  <2>9. \A d \in User \ {c} : Still(d)
    BY <1>2, <2>1, <2>3, <2>8 DEF Still
  <2>10. Placed(c)'
    BY <1>1, <1>2, <1>3, <2>5, <2>8 DEF Right, Placed, Makes, Bound, Let
  <2>11. Submitted(c)'
    BY <1>2, <1>3, <2>3, <2>5, <2>8 DEF Submitted, Works
  <2>12. SoFar(c)'
    BY <1>2, <1>3, <2>1, <2>2, <2>3, <2>5, <2>8 DEF SoFar, Early
  <2>13. Aims(c)' /\ LetTo(c)' /\ Synced(c)' /\ Validated(c)'
    BY <1>2, <2>5, <2>8 DEF Aims, LetTo, Let, Synced, Validated
  <2>14. Warned(c)'
    BY <1>1, <1>2, <1>3, <2>1, <2>2, <2>3, <2>8 DEF Right, Warned
  <2>15. Mutation!Told(c)'
    BY <1>2, <1>3, <2>1, <2>5, <2>8 DEF Mutation!Told, Mutation!Steps
  <2> QED
    BY <1>1, <2>7, <2>9, <2>10, <2>11, <2>12, <2>13, <2>14, <2>15, SharedSuffices DEF Right
<1> QED
  BY <1>4, <1>5 DEF Mutation!Submit

LEMMA CreateEnds ==
  ASSUME MutationInv, NEW c \in User, Shared(c), command[c].op = "create", commandPc[c] # "-", tasks[c].op = "-",
         answer[c].steps = {}, uid' \in [User -> Uuids \cup {"-"}], \A d \in User \ {c} : uid'[d] = uid[d],
         UNCHANGED <<command, label, copy, tasks, valid>>, "create" \in did'[c], "loss" \notin did'[c],
         \/ Mutation!Ends(c, "error") \/ Mutation!Unstamped(c)
         \/ Mutation!Done(c, {"create", "stamp"}) /\ "stamp" \in did'[c]
  PROVE  MutationInv'
<1>1. MutationTyped /\ Right(c)
  BY DEF MutationInv
<1>2. PICK h \in {"error", "kept", "done"}, s \in {{}, {"create"}, {"create", "stamp"}} :
        /\ answer' = [answer EXCEPT ![c] = [how |-> h, steps |-> s]]
        /\ commandPc' = [commandPc EXCEPT ![c] = "end"]
        /\ h # "done" => s = {}
        /\ s \subseteq did'[c]
  <2>1. CASE Mutation!Ends(c, "error") \/ Mutation!Ends(c, "kept")
    BY <1>1, <2>1, EndsIs
  <2>2. CASE Mutation!Done(c, {"create"})
    BY <1>1, <2>2, DoneIs
  <2>3. CASE Mutation!Done(c, {"create", "stamp"}) /\ "stamp" \in did'[c]
    BY <1>1, <2>3, DoneIs
  <2> QED
    BY <2>1, <2>2, <2>3 DEF Mutation!Unstamped
<1>3. h \in Hows /\ s \in SUBSET (Deeds \cup User)
  BY DEF Hows, Deeds
<1>4. MutationTyped'
  BY <1>1, <1>2, <1>3, AnswersTyped DEF MutationTyped, Shared, Places
<1>5. /\ commandPc'[c] = "end" /\ answer'[c].how = h /\ answer'[c].steps = s
      /\ \A d \in User \ {c} : commandPc'[d] = commandPc[d] /\ answer'[d] = answer[d]
  BY <1>1, <1>2 DEF MutationTyped
<1>6. \A d \in User \ {c} : Still(d)
  BY <1>5 DEF Still
<1>7. tasks'[c].op = "-" /\ tasks'[c].end = "-"
  BY <1>1 DEF Right, Submitted
<1>8. Right(c)'
  BY <1>1, <1>2, <1>4, <1>5, <1>7, Created DEF Right
<1> QED
  BY <1>4, <1>6, <1>8, SharedSuffices

LEMMA MakesOwn ==
  ASSUME MutationTyped, NEW c \in User, NEW u \in Uuids, Mutation!Makes(c, u)
  PROVE  /\ did'[c] = did[c] \cup {"create"} /\ uid' = [uid EXCEPT ![c] = u] /\ valid' = valid
         /\ \A v \in Uuids : lpar'[v] = IF v = u THEN [Mutation!Absent EXCEPT !.name = command[c].name] ELSE lpar[v]
         /\ Mutation!Called(command[c].name) = {}
BY DEF Mutation!Makes, MutationTyped

LEMMA MadeStep ==
  ASSUME MutationInv, Mutation!MutationAssumption, NEW c \in User, NEW u \in Uuids, Mutation!Makes(c, u),
         commandPc[c] \in {"put", "cli"}, UNCHANGED <<command, label, copy, tasks>>,
         \/ Mutation!Ends(c, "error") \/ Mutation!Unstamped(c)
         \/ \E next \in {"stamp", "apply"} : Mutation!Goes(c, next) /\ UNCHANGED answer
  PROVE  MutationInv'
<1>1. MutationTyped /\ Right(c) /\ wrong = {}
  BY DEF MutationInv
<1>2. /\ command[c] # Mutation!Idle /\ command[c].op = "create" /\ tasks[c].op = "-" /\ tasks[c].end = "-"
      /\ answer[c].steps = {} /\ answer[c].how = "-" /\ did[c] \subseteq {"lit"} /\ label[c] = command[c].name
  BY <1>1 DEF Right, Placed, Submitted, SoFar, Early, Makes
<1>3. command[c].name \in Titles /\ command[c].form # "validated" /\ command[c].form # "profile"
  BY <1>1, <1>2, CommandKnown
<1>4. Shared(c)
  BY <1>3, MakesShared
<1>5. /\ did'[c] = did[c] \cup {"create"} /\ uid' = [uid EXCEPT ![c] = u] /\ valid' = valid
      /\ \A v \in Uuids : lpar'[v] = IF v = u THEN [Mutation!Absent EXCEPT !.name = command[c].name] ELSE lpar[v]
      /\ Mutation!Called(command[c].name) = {}
  BY <1>1, MakesOwn
<1>6. uid' \in [User -> Uuids \cup {"-"}] /\ uid'[c] = u /\ \A d \in User \ {c} : uid'[d] = uid[d]
  BY <1>1, <1>5 DEF MutationTyped
<1>7. CASE Mutation!Ends(c, "error") \/ Mutation!Unstamped(c)
  BY <1>1, <1>2, <1>4, <1>5, <1>6, <1>7, CreateEnds
<1>8. ASSUME NEW next \in {"stamp", "apply"}, Mutation!Goes(c, next), answer' = answer
      PROVE  MutationInv'
  <2>1. commandPc' = [commandPc EXCEPT ![c] = next]
    BY <1>8 DEF Mutation!Goes
  <2>2. MutationTyped'
    BY <1>1, <1>4, <1>5, <1>6, <1>8, <2>1 DEF MutationTyped, Shared, Places, Let
  <2>3. commandPc'[c] = next /\ \A d \in User \ {c} : commandPc'[d] = commandPc[d]
    BY <1>1, <2>1 DEF MutationTyped
  <2>4. \A d \in User \ {c} : Still(d)
    BY <1>5, <1>6, <1>8, <2>3 DEF Still
  <2>5. Placed(c)' /\ Submitted(c)'
    BY <1>1, <1>2, <1>6, <1>8, <2>3 DEF Right, Placed, Submitted, Makes, Bound, Let
  <2>6. SoFar(c)'
    BY <1>2, <1>5, <1>8, <2>3 DEF SoFar, Early
  <2>7. Aims(c)'
    BY <1>2, <1>5, <1>6, <2>3 DEF Aims, Mutation!Called, Mutation!There, Mutation!Absent
  <2>8. LetTo(c)'
    BY <1>5, <1>6, <2>3 DEF LetTo, Let, Mutation!Foreign, Mutation!Absent
  <2>9. Synced(c)' /\ Warned(c)' /\ Validated(c)'
    BY <1>2, <1>3, <2>3 DEF Synced, Warned, Validated
  <2>10. Mutation!Told(c)'
    BY <1>2, <1>5, <1>8, <2>3 DEF Mutation!Told, Mutation!Steps
  <2> QED
    BY <1>4, <2>2, <2>4, <2>5, <2>6, <2>7, <2>8, <2>9, <2>10, SharedSuffices DEF Right
<1> QED
  BY <1>7, <1>8

LEMMA UnmadeStep ==
  ASSUME MutationInv, Mutation!MutationAssumption, NEW c \in User, Mutation!Unmade, commandPc[c] \in {"put", "cli"},
         UNCHANGED <<command, label, copy, tasks>>,
         Mutation!Ends(c, "error") \/ (Mutation!Goes(c, "cli") /\ UNCHANGED answer)
  PROVE  MutationInv'
<1>1. MutationTyped /\ Right(c) /\ wrong = {}
  BY DEF MutationInv
<1>2. UNCHANGED <<lpar, altered, did, valid, wrong, uid>>
  BY NoEffectDid DEF Mutation!Unmade
<1>3. CASE Mutation!Ends(c, "error")
  <2>1. answer' = [answer EXCEPT ![c].how = "error"] /\ commandPc' = [commandPc EXCEPT ![c] = "end"]
    BY <1>3 DEF Mutation!Ends, Mutation!Goes
  <2>2. MutationTyped'
    BY <1>1, <1>2, <2>1, AnswersTyped DEF MutationTyped, Places, Hows
  <2>3. Right(c)'
    BY <1>1, <1>2, <2>1, <2>2, EndsEarly DEF MutationTyped, Early
  <2> QED
    BY <1>1, <1>2, <2>1, <2>2, <2>3, ReadSuffices DEF MutationTyped
<1>4. CASE Mutation!Goes(c, "cli") /\ UNCHANGED answer
  <2>1. commandPc' = [commandPc EXCEPT ![c] = "cli"] /\ answer' = answer
    BY <1>4 DEF Mutation!Goes
  <2>2. MutationTyped'
    BY <1>1, <1>2, <2>1 DEF MutationTyped, Places, Early
  <2>3. commandPc'[c] = "cli" /\ \A d \in User \ {c} : commandPc'[d] = commandPc[d]
    BY <1>1, <2>1 DEF MutationTyped
  <2>4. /\ command[c] # Mutation!Idle /\ command[c].op = "create" /\ tasks[c].op = "-"
        /\ label[c] = command[c].name
    BY <1>1 DEF Right, Placed, Submitted, Makes
  <2>5. command[c].form # "validated" /\ command[c].form # "profile"
    BY <1>1, <2>4, CommandKnown
  <2>6. Placed(c)' /\ Submitted(c)' /\ SoFar(c)'
    BY <1>1, <1>2, <2>1, <2>3, <2>4 DEF Right, Placed, Submitted, SoFar, Makes, Bound, Let, Early
  <2>7. Aims(c)' /\ LetTo(c)' /\ Synced(c)' /\ Warned(c)' /\ Validated(c)'
    BY <2>3, <2>4, <2>5 DEF Aims, LetTo, Let, Synced, Warned, Validated
  <2>8. Mutation!Told(c)'
    BY <1>1, <1>2, <2>1 DEF Right, Mutation!Told, Mutation!Steps
  <2> QED
    BY <1>2, <2>1, <2>2, <2>3, <2>6, <2>7, <2>8, ReadSuffices DEF Right
<1> QED
  BY <1>3, <1>4

LEMMA PutCliStep ==
  ASSUME MutationInv, Mutation!MutationAssumption, NEW c \in User, Mutation!Put(c) \/ Mutation!Cli(c)
  PROVE  MutationInv'
<1>1. UNCHANGED <<command, label, copy, tasks>> /\ commandPc[c] \in {"put", "cli"}
  BY DEF Mutation!Put, Mutation!Cli, Mutation!Write, Mutation!At
<1>2. \/ /\ \E u \in Uuids : Mutation!Makes(c, u)
         /\ \/ Mutation!Ends(c, "error") \/ Mutation!Unstamped(c)
            \/ \E next \in {"stamp", "apply"} : Mutation!Goes(c, next) /\ UNCHANGED answer
      \/ /\ Mutation!Unmade
         /\ Mutation!Ends(c, "error") \/ (Mutation!Goes(c, "cli") /\ UNCHANGED answer)
  BY DEF Mutation!Put, Mutation!Cli
<1> QED
  BY <1>1, <1>2, MadeStep, UnmadeStep

LEMMA ApplyStep ==
  ASSUME MutationInv, Mutation!MutationAssumption, NEW c \in User, Mutation!Apply(c)
  PROVE  MutationInv'
<1>1. MutationTyped /\ Right(c) /\ wrong = {}
  BY DEF MutationInv
<1>2. /\ UNCHANGED <<command, label, copy, tasks, uid, answer>> /\ commandPc[c] = "apply"
      /\ commandPc' = [commandPc EXCEPT ![c] = "back"]
  BY DEF Mutation!Apply, Mutation!Write, Mutation!At, Mutation!Goes
<1>3. Shared(c)
  BY HarmlessShared, ApplyHarmless, NoEffectDid
<1>4. /\ command[c] # Mutation!Idle /\ command[c].op = "create" /\ tasks[c].op = "-" /\ uid[c] \in Uuids
  BY <1>1, <1>2 DEF Right, Placed, Submitted, Makes, Bound, Let
<1>5. command[c].form # "validated" /\ command[c].form # "profile"
  BY <1>1, <1>4, CommandKnown
<1>6. /\ did[c] \subseteq did'[c] /\ did'[c] \subseteq did[c] \cup {"apply"} /\ altered'[c] = altered[c] /\ valid' = valid
      /\ \A v \in Uuids : lpar'[v].name = lpar[v].name /\ lpar'[v].owner = lpar[v].owner
  <2>1. CASE Mutation!NoEffect
    BY <2>1, NoEffectDid
  <2>2. ASSUME NEW u \in Mutation!Called(label[c]),
               Mutation!Effect(c, u, [lpar[u] EXCEPT !.slots = lpar[u].kept], "apply")
        PROVE  /\ did'[c] = did[c] \cup {"apply"} /\ altered'[c] = altered[c] /\ valid' = valid
               /\ \A v \in Uuids : lpar'[v].name = lpar[v].name /\ lpar'[v].owner = lpar[v].owner
    <3>1. did'[c] = did[c] \cup {"apply"} /\ altered'[c] = altered[c] /\ valid' = valid
      BY <1>1, <2>2, EffectDid
    <3>2. \A v \in Uuids : lpar'[v].name = lpar[v].name /\ lpar'[v].owner = lpar[v].owner
      BY <1>1, <2>2 DEF MutationTyped, Partitions, Mutation!Effect
    <3> QED
      BY <3>1, <3>2
  <2> QED
    BY <2>1, <2>2 DEF Mutation!Apply
<1>7. MutationTyped'
  BY <1>1, <1>2, <1>3, <1>6 DEF MutationTyped, Shared, Places, Let
<1>8. commandPc'[c] = "back" /\ \A d \in User \ {c} : commandPc'[d] = commandPc[d]
  BY <1>1, <1>2 DEF MutationTyped
<1>9. \A d \in User \ {c} : Still(d)
  BY <1>2, <1>6, <1>8 DEF Still
<1>10. Placed(c)' /\ Submitted(c)' /\ SoFar(c)'
  BY <1>1, <1>2, <1>4, <1>6, <1>8 DEF Right, Placed, Submitted, SoFar, Makes, Bound, Let, Early
<1>11. Aims(c)' /\ LetTo(c)'
  BY <1>1, <1>2, <1>4, <1>6, <1>8 DEF Right, Aims, LetTo, Let, Mutation!Foreign, Mutation!Called, Mutation!There
<1>12. Synced(c)' /\ Warned(c)' /\ Validated(c)'
  BY <1>2, <1>4, <1>5, <1>8 DEF Synced, Warned, Validated
<1>13. Mutation!Told(c)'
  BY <1>1, <1>2, <1>4, <1>6, <1>8 DEF Right, SoFar, Placed, Mutation!Told, Mutation!Steps
<1> QED
  BY <1>3, <1>7, <1>9, <1>10, <1>11, <1>12, <1>13, SharedSuffices DEF Right

LEMMA StampCreatedStep ==
  ASSUME MutationInv, Mutation!MutationAssumption, NEW c \in User, Mutation!StampCreated(c)
  PROVE  MutationInv'
<1>1. MutationTyped /\ Right(c) /\ wrong = {}
  BY DEF MutationInv
<1>2. UNCHANGED <<command, label, copy, tasks, uid>> /\ commandPc[c] = "stamp"
  BY DEF Mutation!StampCreated, Mutation!Write, Mutation!At
<1>3. Shared(c)
  BY HarmlessShared, StampCreatedHarmless, NoEffectDid
<1>4. /\ command[c].op = "create" /\ tasks[c].op = "-" /\ answer[c].steps = {} /\ "create" \in did[c]
      /\ "loss" \notin did[c]
  BY <1>1, <1>2 DEF Right, Placed, Submitted, SoFar, Makes, Mutation!Told
<1>5. uid' \in [User -> Uuids \cup {"-"}] /\ \A d \in User \ {c} : uid'[d] = uid[d]
  BY <1>1, <1>2 DEF MutationTyped
<1>6. ASSUME NEW u, NEW r, Mutation!Effect(c, u, r, "stamp"),
             Mutation!Done(c, {"create", "stamp"}) \/ Mutation!Unstamped(c)
      PROVE  MutationInv'
  <2>1. did'[c] = did[c] \cup {"stamp"} /\ valid' = valid
    BY <1>1, <1>6, EffectDid
  <2> QED
    BY <1>2, <1>3, <1>4, <1>5, <1>6, <2>1, CreateEnds
<1>7. CASE Mutation!NoEffect /\ Mutation!Unstamped(c)
  BY <1>2, <1>3, <1>4, <1>5, <1>7, NoEffectDid, CreateEnds
<1> QED
  BY <1>6, <1>7 DEF Mutation!StampCreated

LEMMA MutationStep ==
  ASSUME MutationInv, Mutation!MutationAssumption, [Mutation!Next]_Mutation!vars
  PROVE  MutationInv'
<1>1. CASE UNCHANGED Mutation!vars
  <2>1. /\ UNCHANGED <<lpar, tasks, command, commandPc, uid, label, copy, answer, altered, did, valid, wrong>>
    BY <1>1 DEF Mutation!vars, Mutation!hmc, Mutation!past
  <2>2. MutationTyped' /\ OneName' /\ wrong' = {}
    BY <2>1 DEF MutationInv, MutationTyped, OneName, Mutation!There
  <2>3. \A d \in User : Apart(d)
    BY <2>1 DEF Apart, Still, Sees
  <2> QED
    BY <2>2, <2>3, Unmoved DEF MutationInv
<1>2. ASSUME NEW c \in User,
             \/ Mutation!Begin(c) \/ Mutation!Resolve(c, "find", "validate") \/ Mutation!Validate(c)
             \/ Mutation!Resolve(c, "resolve", IF command[c].op \in Mutation!Power /\ ~Guard THEN Mutation!After(c) ELSE "name")
             \/ Mutation!ReadName(c) \/ Mutation!Authorize(c) \/ Mutation!Get(c) \/ Mutation!Post(c)
             \/ Mutation!WriteNamed(c) \/ Mutation!Where(c) \/ Mutation!AddAdapter(c) \/ Mutation!State(c)
             \/ Mutation!Erase(c)
      PROVE  MutationInv'
  BY <1>2, BeginStep, ResolveStep, ValidateStep, ReadNameStep, AuthorizeStep, GetStep, PostStep, WriteNamedStep,
     WhereStep, AddAdapterStep, StateStep, EraseStep
<1>3. ASSUME NEW c \in User,
             \/ Mutation!Lacks(c) \/ Mutation!Submit(c) \/ Mutation!Run(c) \/ Mutation!Wait(c)
             \/ Mutation!RequireActivated(c) \/ Mutation!Exists(c) \/ Mutation!Put(c) \/ Mutation!Cli(c)
             \/ Mutation!Apply(c) \/ Mutation!Back(c) \/ Mutation!StampCreated(c)
      PROVE  MutationInv'
  BY <1>3, LacksStep, SubmitStep, RunStep, WaitStep, RequireActivatedStep, ExistsStep, PutCliStep, ApplyStep,
     BackStep, StampCreatedStep
<1> QED
  BY <1>1, <1>2, <1>3, OtherStep DEF Mutation!Next

-----------------------------------------------------------------------------
(* Workflows of several steps and their reports (LparWorkflow).              *)

Applying == Workflow!Step("apply_profile")
StepName ==
  {"create", "minimum_affinity_policy", "network", "storage", "create_disk", "assignment", "power_on",
   "affinity_assessment", "rename", "resources", "apply_profile"}
Steps == StepName \X Nat
Recs == [step : Steps, status : Workflow!Statuses]
Distinct(s) == \A i, j \in DOMAIN s : s[i] = s[j] => i = j
Names_of(s) == {s[i] : i \in DOMAIN s}

\* What the steps of a plan are: each one once, and only assignments are numbered.
Plain(s) == s[1] # "assignment" => s[2] = 0
WellFormed(p) == p \in Seq(Steps) /\ Distinct(p) /\ \A i \in DOMAIN p : Plain(p[i])

\* The plan of a request that makes a partition begins with the create, and no request's
\* names the apply step, of which only the create knows.
Planned(r, p) ==
  /\ WellFormed(p) /\ \A i \in DOMAIN p : p[i] # Applying
  /\ r.op \in {"provision", "create"} => p # <<>> /\ p[1] = Workflow!Step("create")

\* Before the create is judged the plan is the request's, and what is recorded is the apply
\* step, if it was come to.
OneApply(s) ==
  \/ s = <<>> /\ done = {}
  \/ \E t \in {"ok", "error", "skipped"} :
       /\ s = <<Workflow!Rec(Applying, t)>>
       /\ t = "ok" => Applying \in done
       /\ t = "skipped" => done = {}

Unjudged ==
  flowPc \in {"preflight", "rest", "cli", "apply", "readback", "stamp", "judge"} =>
    /\ Planned(req, plan)
    /\ flowPc # "preflight" => Workflow!Creates
    /\ flowPc \in {"preflight", "rest", "cli"} => ~made
    /\ flowPc \in {"preflight", "rest", "cli", "apply"} => flowSteps = <<>> /\ done = {}
    /\ done \subseteq {Applying} /\ OneApply(flowSteps)

\* What is recorded of a workflow is what it has come to, all that was done among it.
Recorded(s, p, d) ==
  /\ s \in Seq(Recs) /\ Len(s) <= Len(p) /\ \A i \in 1..Len(s) : s[i].step = p[i]
  /\ \A i \in 1..Len(s) :
       /\ s[i].status = "ok" => s[i].step \in d \cup {Workflow!Step("create"), Workflow!Step("affinity_assessment")}
       /\ s[i].status = "skipped" => s[i].step \notin d
  /\ d \subseteq {s[i].step : i \in 1..Len(s)}

\* A step that went well, or an apply step with nothing to do.
Fine(rec) == rec.status = "ok" \/ (rec.step = Applying /\ rec.status = "skipped")

InLegs ==
  flowPc = "legs" =>
    /\ WellFormed(plan) /\ Recorded(flowSteps, plan, done)
    /\ \A i \in 1..Len(flowSteps) : Fine(flowSteps[i])
    /\ req.op = "create" => body

Ended == (flowPc = "done") = (result # "none")

\* What a report rests on, and the types.
Reporting == flowSteps \in Seq(Recs) /\ Unjudged /\ InLegs /\ Ended /\ Workflow!ReportTruthful

WorkflowInv == Workflow!WorkflowTypeOK /\ Reporting

\* Sequences put together of parts that have nothing in common name nothing twice.
LEMMA DistinctConcat ==
  ASSUME NEW S, NEW a \in Seq(S), NEW b \in Seq(S), Distinct(a), Distinct(b),
         Names_of(a) \cap Names_of(b) = {}
  PROVE  a \o b \in Seq(S) /\ Distinct(a \o b) /\ Names_of(a \o b) = Names_of(a) \cup Names_of(b)
<1> DEFINE c == a \o b
<1>1. /\ c \in Seq(S) /\ DOMAIN a = 1..Len(a) /\ DOMAIN b = 1..Len(b) /\ DOMAIN c = 1..Len(a) + Len(b)
      /\ Len(a) \in Nat /\ Len(b) \in Nat
  OBVIOUS
<1>2. \A i \in DOMAIN c : c[i] = IF i <= Len(a) THEN a[i] ELSE b[i - Len(a)]
  BY <1>1
<1>3. \A i \in DOMAIN c : i <= Len(a) => i \in DOMAIN a /\ c[i] = a[i]
  BY ONLY <1>1, <1>2
<1>4. \A i \in DOMAIN c : ~(i <= Len(a)) => i - Len(a) \in DOMAIN b /\ c[i] = b[i - Len(a)]
  BY ONLY <1>1, <1>2
<1>5. \A i \in DOMAIN a, j \in DOMAIN b : a[i] # b[j]
  BY DEF Names_of
<1>6. \A i \in DOMAIN a : i \in DOMAIN c /\ c[i] = a[i]
  BY ONLY <1>1, <1>2
<1>7. \A j \in DOMAIN b : j + Len(a) \in DOMAIN c /\ c[j + Len(a)] = b[j]
  BY ONLY <1>1, <1>2
<1> HIDE DEF c
<1>8. Distinct(c)
  <2> SUFFICES ASSUME NEW i \in DOMAIN c, NEW j \in DOMAIN c, c[i] = c[j] PROVE i = j
    BY DEF Distinct
  <2>1. i \in Int /\ j \in Int /\ Len(a) \in Int
    BY <1>1
  <2>2. CASE i <= Len(a) /\ j <= Len(a)
    BY <2>2, <1>3 DEF Distinct
  <2>3. CASE ~(i <= Len(a)) /\ ~(j <= Len(a))
    <3>1. i - Len(a) = j - Len(a)
      BY <2>3, <1>4 DEF Distinct
    <3> QED
      BY ONLY <3>1, <2>1
  <2>4. CASE i <= Len(a) /\ ~(j <= Len(a))
    BY <2>4, <1>3, <1>4, <1>5
  <2>5. CASE ~(i <= Len(a)) /\ j <= Len(a)
    BY <2>5, <1>3, <1>4, <1>5
  <2> QED
    BY <2>2, <2>3, <2>4, <2>5
<1>9. Names_of(c) = Names_of(a) \cup Names_of(b)
  <2>1. \A x \in Names_of(c) : x \in Names_of(a) \cup Names_of(b)
    BY <1>3, <1>4 DEF Names_of
  <2>2. \A x \in Names_of(a) : x \in Names_of(c)
    BY <1>6 DEF Names_of
  <2>3. \A x \in Names_of(b) : x \in Names_of(c)
    BY <1>7 DEF Names_of
  <2> QED
    BY <2>1, <2>2, <2>3
<1> QED
  BY <1>1, <1>8, <1>9 DEF c

LEMMA ConcatIs ==
  ASSUME NEW S, NEW a \in Seq(S), NEW b \in Seq(S)
  PROVE  /\ a \o b \in Seq(S) /\ Len(a \o b) = Len(a) + Len(b)
         /\ \A i \in 1..Len(a) + Len(b) : (a \o b)[i] = IF i <= Len(a) THEN a[i] ELSE b[i - Len(a)]
OBVIOUS

LEMMA FirstOfConcat ==
  ASSUME NEW S, NEW a \in Seq(S), NEW b \in Seq(S), Len(a) > 0
  PROVE  a \o b # <<>> /\ Len(a \o b) > 0 /\ (a \o b)[1] = a[1]
OBVIOUS

LEMMA DistinctOne ==
  ASSUME NEW S, NEW x \in S, NEW b \in BOOLEAN
  PROVE  /\ <<x>> \in Seq(S) /\ Distinct(<<x>>) /\ Names_of(<<x>>) = {x}
         /\ Workflow!When(b, x) \in Seq(S) /\ Distinct(Workflow!When(b, x))
         /\ Names_of(Workflow!When(b, x)) \subseteq {x}
<1>1. <<x>> \in Seq(S) /\ <<>> \in Seq(S) /\ DOMAIN <<x>> = {1} /\ <<x>>[1] = x
  <2>1. DOMAIN <<x>> = 1..1
    OBVIOUS
  <2> QED
    BY <2>1
<1>2. Distinct(<<x>>) /\ Names_of(<<x>>) = {x}
  BY <1>1 DEF Distinct, Names_of
<1>3. Distinct(<<>>) /\ Names_of(<<>>) = {}
  <2>1. DOMAIN <<>> = {}
    OBVIOUS
  <2> QED
    BY <2>1 DEF Distinct, Names_of
<1> QED
  BY <1>1, <1>2, <1>3 DEF Workflow!When

LEMMA DistinctTwo ==
  ASSUME NEW S, NEW x \in S, NEW y \in S, x # y
  PROVE  <<x, y>> \in Seq(S) /\ Distinct(<<x, y>>) /\ Names_of(<<x, y>>) = {x, y}
<1> DEFINE s == <<x, y>>
<1>1. s \in Seq(S) /\ DOMAIN s = 1..2 /\ s[1] = x /\ s[2] = y
  OBVIOUS
<1>2. DOMAIN s = {1, 2}
  BY <1>1
<1> HIDE DEF s
<1> QED
  BY <1>1, <1>2 DEF Distinct, Names_of, s

LEMMA DistinctAssignments ==
  ASSUME NEW r, r.assignments \in Nat
  PROVE  /\ Workflow!assignment_step_names(r) \in Seq(Steps) /\ Distinct(Workflow!assignment_step_names(r))
         /\ Names_of(Workflow!assignment_step_names(r)) \subseteq {<<"assignment", k>> : k \in Nat}
<1> DEFINE s == Workflow!assignment_step_names(r)
<1>1. s = [i \in 1..r.assignments |-> <<"assignment", i>>]
  BY DEF Workflow!assignment_step_names
<1>2. \A i \in 1..r.assignments : i \in Nat /\ <<"assignment", i>> \in Steps
  <2> SUFFICES ASSUME NEW i \in 1..r.assignments PROVE i \in Nat /\ <<"assignment", i>> \in StepName \X Nat
    BY DEF Steps
  <2>1. i \in Nat /\ "assignment" \in StepName
    BY DEF StepName
  <2> QED
    BY ONLY <2>1
<1>3. s \in Seq(Steps)
  BY <1>1, <1>2
<1>4. DOMAIN s = 1..r.assignments /\ \A i \in DOMAIN s : s[i] = <<"assignment", i>>
  BY <1>1
<1> HIDE DEF s
<1>5. Distinct(s)
  BY <1>4 DEF Distinct
<1>6. Names_of(s) \subseteq {<<"assignment", k>> : k \in Nat}
  <2> SUFFICES ASSUME NEW i \in DOMAIN s PROVE s[i] \in {<<"assignment", k>> : k \in Nat}
    BY DEF Names_of
  <2>1. s[i] = <<"assignment", i>> /\ i \in Nat
    BY <1>4
  <2> QED
    BY ONLY <2>1
<1> QED
  BY <1>3, <1>5, <1>6 DEF s

\* What each request plans: steps put together without repeating one.
LEMMA PlanOfProvision ==
  ASSUME NEW r, r.assignments \in Nat, r.policy \in BOOLEAN, r.power \in BOOLEAN, r.assess \in BOOLEAN
  PROVE  LET p == Workflow!_provision_step_names(r)
         IN  /\ p \in Seq(Steps) /\ Distinct(p) /\ p # <<>> /\ p[1] = Workflow!Step("create")
             /\ Names_of(p) \subseteq {<<"assignment", k>> : k \in Nat}
                  \cup {Workflow!Step("create"), Workflow!Step("minimum_affinity_policy"), Workflow!Step("network"), Workflow!Step("storage"), Workflow!Step("power_on"), Workflow!Step("affinity_assessment")}
<1> DEFINE create == <<Workflow!Step("create")>>
           policy == Workflow!When(r.policy, Workflow!Step("minimum_affinity_policy"))
           legs == <<Workflow!Step("network"), Workflow!Step("storage")>>
           slots == Workflow!assignment_step_names(r)
           on == Workflow!When(r.power, Workflow!Step("power_on"))
           assess == Workflow!When(r.assess, Workflow!Step("affinity_assessment"))
           numbered == {<<"assignment", k>> : k \in Nat}
           a == create \o policy
           b == a \o legs
           c == b \o slots
           d == c \o on
           e == d \o assess
<1>1. \A n \in StepName : Workflow!Step(n) \in Steps /\ Workflow!Step(n)[1] = n
  BY DEF Workflow!Step, Steps
<1>2. \A x \in numbered : x[1] = "assignment"
  OBVIOUS
<1>20. {"create", "minimum_affinity_policy", "network", "storage", "power_on", "affinity_assessment"} \subseteq StepName \ {"assignment"}
  BY DEF StepName
<1>3. create \in Seq(Steps) /\ Distinct(create) /\ Names_of(create) = {Workflow!Step("create")}
  BY <1>1, <1>20, DistinctOne
<1>4. policy \in Seq(Steps) /\ Distinct(policy) /\ Names_of(policy) \subseteq {Workflow!Step("minimum_affinity_policy")}
  BY <1>1, <1>20, DistinctOne
<1>5. legs \in Seq(Steps) /\ Distinct(legs) /\ Names_of(legs) = {Workflow!Step("network"), Workflow!Step("storage")}
  BY <1>1, <1>20, DistinctTwo
<1>6. slots \in Seq(Steps) /\ Distinct(slots) /\ Names_of(slots) \subseteq numbered
  BY DistinctAssignments
<1>7. on \in Seq(Steps) /\ Distinct(on) /\ Names_of(on) \subseteq {Workflow!Step("power_on")}
  BY <1>1, <1>20, DistinctOne
<1>8. assess \in Seq(Steps) /\ Distinct(assess) /\ Names_of(assess) \subseteq {Workflow!Step("affinity_assessment")}
  BY <1>1, <1>20, DistinctOne
<1>9. \A n \in StepName : n # "assignment" => Workflow!Step(n) \notin numbered
  BY <1>1, <1>2
<1>10. \A m, n \in StepName : m # n => Workflow!Step(m) # Workflow!Step(n)
  BY <1>1
<1> HIDE DEF create, policy, legs, slots, on, assess, numbered
<1>11. a \in Seq(Steps) /\ Distinct(a) /\ Names_of(a) \subseteq {Workflow!Step("create"), Workflow!Step("minimum_affinity_policy")}
  <2>1. Names_of(create) \cap Names_of(policy) = {}
    BY <1>3, <1>4, <1>10, <1>20
  <2>2. a \in Seq(Steps) /\ Distinct(a) /\ Names_of(a) = Names_of(create) \cup Names_of(policy)
    BY <1>3, <1>4, <2>1, DistinctConcat
  <2> QED
    BY ONLY <1>3, <1>4, <2>2
<1> HIDE DEF a
<1>12. b \in Seq(Steps) /\ Distinct(b)
       /\ Names_of(b) \subseteq {Workflow!Step("create"), Workflow!Step("minimum_affinity_policy"), Workflow!Step("network"), Workflow!Step("storage")}
  <2>1. Names_of(a) \cap Names_of(legs) = {}
    BY <1>11, <1>5, <1>10, <1>20
  <2>2. b \in Seq(Steps) /\ Distinct(b) /\ Names_of(b) = Names_of(a) \cup Names_of(legs)
    BY <1>11, <1>5, <2>1, DistinctConcat
  <2> QED
    BY <1>11, <1>5, <2>2
<1> HIDE DEF b
<1>13. c \in Seq(Steps) /\ Distinct(c)
       /\ Names_of(c) \subseteq {Workflow!Step("create"), Workflow!Step("minimum_affinity_policy"), Workflow!Step("network"), Workflow!Step("storage")} \cup numbered
  <2>1. Names_of(b) \cap Names_of(slots) = {}
    BY <1>12, <1>6, <1>9, <1>20
  <2>2. c \in Seq(Steps) /\ Distinct(c) /\ Names_of(c) = Names_of(b) \cup Names_of(slots)
    BY <1>12, <1>6, <2>1, DistinctConcat
  <2> QED
    BY <1>12, <1>6, <2>2
<1> HIDE DEF c
<1>14. d \in Seq(Steps) /\ Distinct(d)
       /\ Names_of(d) \subseteq {Workflow!Step("create"), Workflow!Step("minimum_affinity_policy"), Workflow!Step("network"), Workflow!Step("storage"), Workflow!Step("power_on")}
            \cup numbered
  <2>1. Names_of(c) \cap Names_of(on) = {}
    BY <1>13, <1>7, <1>9, <1>10, <1>20
  <2>2. d \in Seq(Steps) /\ Distinct(d) /\ Names_of(d) = Names_of(c) \cup Names_of(on)
    BY <1>13, <1>7, <2>1, DistinctConcat
  <2> QED
    BY <1>13, <1>7, <2>2
<1> HIDE DEF d
<1>15. e \in Seq(Steps) /\ Distinct(e)
       /\ Names_of(e) \subseteq {Workflow!Step("create"), Workflow!Step("minimum_affinity_policy"), Workflow!Step("network"), Workflow!Step("storage"), Workflow!Step("power_on"), Workflow!Step("affinity_assessment")} \cup numbered
  <2>1. Names_of(d) \cap Names_of(assess) = {}
    BY <1>14, <1>8, <1>9, <1>10, <1>20
  <2>2. e \in Seq(Steps) /\ Distinct(e) /\ Names_of(e) = Names_of(d) \cup Names_of(assess)
    BY <1>14, <1>8, <2>1, DistinctConcat
  <2> QED
    BY <1>14, <1>8, <2>2
<1>16. e # <<>> /\ e[1] = Workflow!Step("create")
  <2>1. Len(create) > 0 /\ create[1] = Workflow!Step("create")
    BY DEF create
  <2>2. Len(a) > 0 /\ a[1] = create[1]
    BY <1>3, <1>4, <2>1, FirstOfConcat DEF a
  <2>3. Len(b) > 0 /\ b[1] = a[1]
    BY <1>11, <1>5, <2>2, FirstOfConcat DEF b
  <2>4. Len(c) > 0 /\ c[1] = b[1]
    BY <1>12, <1>6, <2>3, FirstOfConcat DEF c
  <2>5. Len(d) > 0 /\ d[1] = c[1]
    BY <1>13, <1>7, <2>4, FirstOfConcat DEF d
  <2>6. e # <<>> /\ e[1] = d[1]
    BY <1>14, <1>8, <2>5, FirstOfConcat
  <2> QED
    BY <2>1, <2>2, <2>3, <2>4, <2>5, <2>6
<1>17. Workflow!_provision_step_names(r) = e
  BY DEF Workflow!_provision_step_names, create, policy, legs, slots, on, assess, a, b, c, d
<1> HIDE DEF e
<1> QED
  BY <1>15, <1>16, <1>17 DEF numbered

LEMMA PlanOfOthers ==
  ASSUME NEW r, r.assignments \in Nat, r.rename \in BOOLEAN, r.resources \in BOOLEAN
  PROVE  LET s == Workflow!assignment_step_names(r)
             c == <<Workflow!Step("create")>> \o s
             m == Workflow!When(r.rename, Workflow!Step("rename"))
                    \o Workflow!When(r.resources, Workflow!Step("resources")) \o s
         IN  /\ s \in Seq(Steps) /\ Distinct(s) /\ Names_of(s) \subseteq {<<"assignment", k>> : k \in Nat}
             /\ c \in Seq(Steps) /\ Distinct(c) /\ c # <<>> /\ c[1] = Workflow!Step("create")
             /\ Names_of(c) \subseteq {<<"assignment", k>> : k \in Nat} \cup {Workflow!Step("create")}
             /\ m \in Seq(Steps) /\ Distinct(m)
             /\ Names_of(m) \subseteq {<<"assignment", k>> : k \in Nat}
                  \cup {Workflow!Step("rename"), Workflow!Step("resources")}
<1> DEFINE numbered == {<<"assignment", k>> : k \in Nat}
           s == Workflow!assignment_step_names(r)
           create == <<Workflow!Step("create")>>
           rename == Workflow!When(r.rename, Workflow!Step("rename"))
           size == Workflow!When(r.resources, Workflow!Step("resources"))
           c == create \o s
           b == rename \o size
           m == b \o s
<1>1. \A n \in StepName : Workflow!Step(n) \in Steps /\ Workflow!Step(n)[1] = n
  BY DEF Workflow!Step, Steps
<1>2. \A x \in numbered : x[1] = "assignment"
  OBVIOUS
<1>3. {"create", "rename", "resources"} \subseteq StepName \ {"assignment"}
  BY DEF StepName
<1>4. s \in Seq(Steps) /\ Distinct(s) /\ Names_of(s) \subseteq numbered
  BY DistinctAssignments
<1>5. create \in Seq(Steps) /\ Distinct(create) /\ Names_of(create) = {Workflow!Step("create")}
  BY <1>1, <1>3, DistinctOne
<1>6. rename \in Seq(Steps) /\ Distinct(rename) /\ Names_of(rename) \subseteq {Workflow!Step("rename")}
  BY <1>1, <1>3, DistinctOne
<1>7. size \in Seq(Steps) /\ Distinct(size) /\ Names_of(size) \subseteq {Workflow!Step("resources")}
  BY <1>1, <1>3, DistinctOne
<1>8. Len(create) > 0 /\ create[1] = Workflow!Step("create")
  OBVIOUS
<1>9. \A n \in StepName : n # "assignment" => Workflow!Step(n) \notin numbered
  BY <1>1, <1>2
<1>10. \A k, n \in StepName : k # n => Workflow!Step(k) # Workflow!Step(n)
  BY <1>1
<1> HIDE DEF s, create, rename, size, numbered
<1>11. /\ c \in Seq(Steps) /\ Distinct(c) /\ Names_of(c) \subseteq numbered \cup {Workflow!Step("create")}
       /\ c # <<>> /\ c[1] = Workflow!Step("create")
  <2>1. Names_of(create) \cap Names_of(s) = {}
    BY <1>3, <1>4, <1>5, <1>9
  <2>2. c \in Seq(Steps) /\ Distinct(c) /\ Names_of(c) = Names_of(create) \cup Names_of(s)
    BY <1>4, <1>5, <2>1, DistinctConcat
  <2>3. c # <<>> /\ c[1] = create[1]
    BY <1>4, <1>5, <1>8, FirstOfConcat
  <2> QED
    BY <1>4, <1>5, <1>8, <2>2, <2>3
<1>12. b \in Seq(Steps) /\ Distinct(b) /\ Names_of(b) \subseteq {Workflow!Step("rename"), Workflow!Step("resources")}
  <2>1. Names_of(rename) \cap Names_of(size) = {}
    BY <1>3, <1>6, <1>7, <1>10
  <2>2. b \in Seq(Steps) /\ Distinct(b) /\ Names_of(b) = Names_of(rename) \cup Names_of(size)
    BY <1>6, <1>7, <2>1, DistinctConcat
  <2> QED
    BY <1>6, <1>7, <2>2
<1> HIDE DEF b
<1>13. m \in Seq(Steps) /\ Distinct(m)
       /\ Names_of(m) \subseteq numbered \cup {Workflow!Step("rename"), Workflow!Step("resources")}
  <2>1. Names_of(b) \cap Names_of(s) = {}
    BY <1>3, <1>4, <1>9, <1>12
  <2>2. m \in Seq(Steps) /\ Distinct(m) /\ Names_of(m) = Names_of(b) \cup Names_of(s)
    BY <1>4, <1>12, <2>1, DistinctConcat
  <2> QED
    BY <1>4, <1>12, <2>2
<1> QED
  BY <1>4, <1>11, <1>13 DEF s, create, rename, size, numbered, b

LEMMA PlansWell ==
  ASSUME NEW r \in Workflow!Request, Workflow!WorkflowAssumption
  PROVE  Planned(r, Workflow!StepNames(r))
<1> DEFINE p == Workflow!StepNames(r)
           numbered == {<<"assignment", k>> : k \in Nat}
           single == {Workflow!Step(n) : n \in StepName \ {"assignment", "apply_profile"}}
<1>1. /\ r.op \in {"provision", "create", "attach", "modify", "assign"} /\ r.assignments \in Nat
      /\ r.policy \in BOOLEAN /\ r.power \in BOOLEAN /\ r.assess \in BOOLEAN
      /\ r.rename \in BOOLEAN /\ r.resources \in BOOLEAN
  <2>1. /\ r.op \in {"provision", "create", "attach", "modify", "assign"} /\ r.assignments \in 0..MaxAssignments
        /\ r.policy \in {TRUE, FALSE} /\ r.power \in {TRUE, FALSE} /\ r.assess \in {TRUE, FALSE}
        /\ r.rename \in {TRUE, FALSE} /\ r.resources \in {TRUE, FALSE}
    BY Zenon DEF Workflow!Request
  <2>2. \A i \in 0..MaxAssignments : i \in Nat
    BY DEF Workflow!WorkflowAssumption
  <2> QED
    BY <2>1, <2>2
<1>2. \A n \in StepName \ {"assignment", "apply_profile"} : Workflow!Step(n) \in single
  OBVIOUS
<1>3. /\ p \in Seq(Steps) /\ Distinct(p) /\ Names_of(p) \subseteq numbered \cup single
      /\ r.op \in {"provision", "create"} => p # <<>> /\ p[1] = Workflow!Step("create")
  <2>1. CASE r.op = "provision"
    <3>1. p = Workflow!_provision_step_names(r)
      BY <2>1 DEF Workflow!StepNames
    <3>2. {"create", "minimum_affinity_policy", "network", "storage", "power_on", "affinity_assessment"}
            \subseteq StepName \ {"assignment", "apply_profile"}
      BY DEF StepName
    <3> HIDE DEF p, single
    <3> QED
      BY <1>1, <1>2, <3>1, <3>2, PlanOfProvision
  <2>2. CASE r.op = "create"
    <3>1. p = <<Workflow!Step("create")>> \o Workflow!assignment_step_names(r)
      BY <2>2 DEF Workflow!StepNames
    <3>2. "create" \in StepName \ {"assignment", "apply_profile"}
      BY DEF StepName
    <3> HIDE DEF p, single
    <3> QED
      BY <1>1, <1>2, <2>2, <3>1, <3>2, PlanOfOthers
  <2>3. CASE r.op = "modify"
    <3>1. p = Workflow!When(r.rename, Workflow!Step("rename"))
                \o Workflow!When(r.resources, Workflow!Step("resources")) \o Workflow!assignment_step_names(r)
      BY <2>3 DEF Workflow!StepNames
    <3>2. {"rename", "resources"} \subseteq StepName \ {"assignment", "apply_profile"}
      BY DEF StepName
    <3> HIDE DEF p, single
    <3> QED
      BY <1>1, <1>2, <2>3, <3>1, <3>2, PlanOfOthers
  <2>4. CASE r.op = "assign"
    <3>1. p = Workflow!assignment_step_names(r)
      BY <2>4 DEF Workflow!StepNames
    <3> HIDE DEF p, single
    <3> QED
      BY <1>1, <2>4, <3>1, PlanOfOthers
  <2>5. CASE r.op = "attach"
    <3>1. p = <<Workflow!Step("create_disk"), Workflow!Step("storage")>>
      BY <2>5 DEF Workflow!StepNames
    <3>2. {"create_disk", "storage"} \subseteq StepName \ {"assignment", "apply_profile"}
      BY DEF StepName
    <3>3. /\ Workflow!Step("create_disk") \in Steps /\ Workflow!Step("storage") \in Steps
          /\ Workflow!Step("create_disk") # Workflow!Step("storage")
      BY DEF Workflow!Step, Steps, StepName
    <3> HIDE DEF p, single
    <3> QED
      BY <1>2, <2>5, <3>1, <3>2, <3>3, DistinctTwo
  <2> QED
    BY <1>1, <2>1, <2>2, <2>3, <2>4, <2>5
<1>4. \A x \in numbered \cup single : Plain(x) /\ x # Applying
  BY DEF Plain, Applying, Workflow!Step, StepName
<1> HIDE DEF p, numbered, single
<1>5. \A i \in DOMAIN p : p[i] \in numbered \cup single
  BY <1>3 DEF Names_of
<1> QED
  BY <1>3, <1>4, <1>5 DEF Planned, WellFormed, p

LEMMA WorkflowStarts == ASSUME Workflow!Init, Workflow!WorkflowAssumption PROVE WorkflowInv
<1> USE DEF Workflow!Init
<1>1. Planned(req, plan)
  BY PlansWell
<1>2. Workflow!WorkflowTypeOK
  <2>1. rivals \in 0..MaxOthers
    BY DEF Workflow!WorkflowAssumption
  <2>2. flowSteps = <<>> /\ 1..Len(flowSteps) = {}
    OBVIOUS
  <2> QED
    BY <2>1, <2>2 DEF Workflow!WorkflowTypeOK
<1>3. flowSteps \in Seq(Recs)
  OBVIOUS
<1>4. Unjudged /\ InLegs /\ Ended /\ Workflow!ReportTruthful
  BY <1>1 DEF Unjudged, OneApply, InLegs, Ended, Workflow!ReportTruthful
<1> QED
  BY <1>2, <1>3, <1>4 DEF WorkflowInv, Reporting

\* A report filled up: what is left of the plan gets one status.
FilledUp(t, p, r, st) ==
  /\ t \in Seq(Recs) /\ Len(t) = Len(p) /\ \A i \in 1..Len(p) : t[i].step = p[i]
  /\ \A i \in 1..Len(r) : t[i] = r[i]
  /\ \A i \in 1..Len(p) : ~(i <= Len(r)) => t[i].status = st

LEMMA Filled ==
  ASSUME NEW p \in Seq(Steps), NEW r \in Seq(Recs), Len(r) <= Len(p), \A i \in 1..Len(r) : r[i].step = p[i],
         NEW st \in Workflow!Statuses
  PROVE  FilledUp(r \o Workflow!Marked(Workflow!Rest(p, Len(r)), st), p, r, st)
<1> DEFINE n == Len(r)
           q == Workflow!Rest(p, n)
           m == Workflow!Marked(q, st)
           t == r \o m
<1>1. n \in Nat /\ Len(p) \in Nat /\ n <= Len(p)
  OBVIOUS
<1>2. q \in Seq(Steps) /\ Len(q) = Len(p) - n /\ \A i \in 1..Len(q) : q[i] = p[i + n]
  <2>1. q = SubSeq(p, n + 1, Len(p))
    BY DEF Workflow!Rest
  <2>2. \A i \in n + 1..Len(p) : p[i] \in Steps
    BY <1>1
  <2> HIDE DEF q
  <2> QED
    BY <1>1, <2>1, <2>2
<1> HIDE DEF q
<1>3. m = [i \in 1..Len(q) |-> Workflow!Rec(q[i], st)]
  BY DEF Workflow!Marked
<1>4. \A i \in 1..Len(q) : Workflow!Rec(q[i], st) \in Recs
  <2> SUFFICES ASSUME NEW i \in 1..Len(q) PROVE Workflow!Rec(q[i], st) \in Recs
    OBVIOUS
  <2>1. q[i] \in Steps
    BY <1>2
  <2> QED
    BY <2>1 DEF Recs, Workflow!Rec
<1>5. m \in Seq(Recs) /\ Len(m) = Len(q) /\ \A i \in 1..Len(q) : m[i] = Workflow!Rec(q[i], st)
  BY <1>1, <1>2, <1>3, <1>4
<1> HIDE DEF m
<1>6. t \in Seq(Recs) /\ Len(t) = n + Len(q) /\ \A i \in 1..n + Len(q) : t[i] = IF i <= n THEN r[i] ELSE m[i - n]
  <2>1. m \in Seq(Recs)
    BY <1>5
  <2>2. /\ r \o m \in Seq(Recs) /\ Len(r \o m) = Len(r) + Len(m)
        /\ \A i \in 1..Len(r) + Len(m) : (r \o m)[i] = IF i <= Len(r) THEN r[i] ELSE m[i - Len(r)]
    BY <2>1, ConcatIs
  <2> QED
    BY <1>5, <2>2
<1>7. Len(t) = Len(p)
  BY <1>1, <1>2, <1>6
<1> HIDE DEF t
<1>8. \A i \in 1..Len(r) : t[i] = r[i]
  <2> SUFFICES ASSUME NEW i \in 1..Len(r) PROVE t[i] = r[i]
    OBVIOUS
  <2>1. Len(q) \in Nat /\ n \in Nat /\ i \in 1..n
    BY <1>1, <1>2 DEF n
  <2>2. i \in 1..n + Len(q) /\ i <= n
    BY ONLY <2>1
  <2> QED
    BY ONLY <1>6, <2>2
<1>9. \A i \in 1..Len(p) : ~(i <= n) => t[i].step = p[i] /\ t[i].status = st
  <2> SUFFICES ASSUME NEW i \in 1..Len(p), ~(i <= n) PROVE t[i].step = p[i] /\ t[i].status = st
    OBVIOUS
  <2>1. t[i] = m[i - n] /\ i - n \in 1..Len(q)
    BY <1>1, <1>2, <1>6
  <2>2. m[i - n] = Workflow!Rec(q[i - n], st) /\ q[i - n] = p[i - n + n]
    BY <2>1, <1>2, <1>5
  <2>3. i - n + n = i
    BY <1>1
  <2> QED
    BY <2>1, <2>2, <2>3 DEF Workflow!Rec
<1>10. \A i \in 1..Len(p) : t[i].step = p[i]
  BY <1>1, <1>8, <1>9
<1> QED
  BY <1>6, <1>7, <1>8, <1>9, <1>10 DEF FilledUp, t, m, q, n

\* A plan that names nothing twice names as many steps as it is long.
LEMMA EachOnce ==
  ASSUME NEW p \in Seq(Steps), Distinct(p)
  PROVE  Workflow!Cardinality(Workflow!ToSet(p)) = Len(p)
<1>1. DOMAIN p = 1..Len(p) /\ Len(p) \in Nat
  OBVIOUS
<1>2. Workflow!ToSet(p) = {p[i] : i \in 1..Len(p)}
  BY <1>1 DEF Workflow!ToSet
<1>3. IsFiniteSet(1..Len(p)) /\ Cardinality(1..Len(p)) = Len(p)
  BY <1>1, FS_Interval
<1>4. p \in [1..Len(p) -> Workflow!ToSet(p)]
  BY <1>1, <1>2
<1>5. \A x \in Workflow!ToSet(p) : \E i \in 1..Len(p) : p[i] = x
  BY <1>2
<1>6. \A i, j \in 1..Len(p) : p[i] = p[j] => i = j
  BY <1>1 DEF Distinct
<1>7. p \in Bijection(1..Len(p), Workflow!ToSet(p))
  BY <1>4, <1>5, <1>6 DEF Bijection, Injection, Surjection, IsInjective
<1>8. ExistsBijection(1..Len(p), Workflow!ToSet(p))
  BY <1>7 DEF ExistsBijection
<1>9. Cardinality(Workflow!ToSet(p)) = Len(p)
  BY <1>3, <1>8, FS_Bijection
<1> QED
  BY <1>9 DEF Cardinality, Workflow!Cardinality

\* One more step recorded.
LEMMA Appended ==
  ASSUME WellFormed(plan), Recorded(flowSteps, plan, done), Len(flowSteps) < Len(plan),
         NEW st \in {"ok", "error", "skipped"}, NEW d, d = done \/ d = done \cup {Workflow!Next_},
         st = "ok" => Workflow!Next_ \in d \cup {Workflow!Step("create"), Workflow!Step("affinity_assessment")},
         st = "skipped" => d = done
  PROVE  LET r == Append(flowSteps, Workflow!Rec(Workflow!Next_, st))
         IN  /\ Recorded(r, plan, d) /\ Len(r) = Len(flowSteps) + 1
             /\ r[Len(r)] = Workflow!Rec(Workflow!Next_, st) /\ \A i \in 1..Len(flowSteps) : r[i] = flowSteps[i]
<1> DEFINE n == Len(flowSteps)
           x == Workflow!Rec(Workflow!Next_, st)
           r == Append(flowSteps, x)
<1>1. n \in Nat /\ flowSteps \in Seq(Recs) /\ plan \in Seq(Steps) /\ Len(plan) \in Nat /\ DOMAIN plan = 1..Len(plan)
  BY DEF Recorded, WellFormed
<1>2. Workflow!Next_ = plan[n + 1] /\ plan[n + 1] \in Steps
  BY <1>1 DEF Workflow!Next_
<1>3. x \in Recs /\ x.step = plan[n + 1] /\ x.status = st
  BY <1>2 DEF Recs, Workflow!Rec, Workflow!Statuses
<1> HIDE DEF x
<1>4. r \in Seq(Recs) /\ Len(r) = n + 1 /\ r[n + 1] = x /\ \A i \in 1..n : r[i] = flowSteps[i]
  BY <1>1, <1>3
<1> HIDE DEF r
<1>5. \A i \in 1..n : plan[i] # plan[n + 1]
  <2> SUFFICES ASSUME NEW i \in 1..n, plan[i] = plan[n + 1] PROVE FALSE
    OBVIOUS
  <2>1. i \in DOMAIN plan /\ n + 1 \in DOMAIN plan /\ i # n + 1
    BY <1>1
  <2> QED
    BY <2>1 DEF WellFormed, Distinct
<1>6. \A i \in 1..Len(r) : i \in 1..n \/ i = n + 1
  BY <1>1, <1>4
<1>7. \A i \in 1..n : r[i].step = plan[i]
  BY <1>4 DEF Recorded
<1>8. \A i \in 1..Len(r) : r[i].step = plan[i]
  BY <1>3, <1>4, <1>6, <1>7
<1>9. \A i \in 1..n : /\ r[i].status = "ok" =>
                           r[i].step \in d \cup {Workflow!Step("create"), Workflow!Step("affinity_assessment")}
                      /\ r[i].status = "skipped" => r[i].step \notin d
  BY <1>2, <1>4, <1>5, <1>7 DEF Recorded
<1>10. plan[n + 1] \notin done
  <2>1. \A y \in done : \E i \in 1..n : y = plan[i]
    BY DEF Recorded
  <2> QED
    BY <2>1, <1>5
<1>11. /\ st = "ok" => plan[n + 1] \in d \cup {Workflow!Step("create"), Workflow!Step("affinity_assessment")}
       /\ st = "skipped" => plan[n + 1] \notin d
  BY <1>2, <1>10
<1>12. \A i \in 1..Len(r) :
         /\ r[i].status = "ok" => r[i].step \in d \cup {Workflow!Step("create"), Workflow!Step("affinity_assessment")}
         /\ r[i].status = "skipped" => r[i].step \notin d
  BY <1>3, <1>4, <1>6, <1>9, <1>11
<1>13. d \subseteq {r[i].step : i \in 1..Len(r)}
  <2>1. \A y \in done : \E i \in 1..n : y = r[i].step
    BY <1>4 DEF Recorded
  <2>2. \A i \in 1..n : i \in 1..Len(r)
    BY <1>1, <1>4
  <2>3. n + 1 \in 1..Len(r)
    BY <1>1, <1>4
  <2>4. \A y \in d : y \in done \/ y = plan[n + 1]
    BY <1>2
  <2> QED
    BY <2>1, <2>2, <2>3, <2>4, <1>3, <1>4
<1>14. Len(r) <= Len(plan)
  BY <1>1, <1>4
<1> QED
  BY <1>4, <1>8, <1>12, <1>13, <1>14 DEF Recorded, r, x, n

\* A workflow that stops at a step reports what it recorded and skips the rest.
LEMMA FailsReported ==
  ASSUME NEW p, NEW r, NEW d, WellFormed(p), Recorded(r, p, d), plan' = p, done' = d, Workflow!Fails(r, p),
         \A i, j \in 1..Len(r) : j < i /\ r[j].status = "error" => r[i].status = "skipped" \/ r[i].step = Applying,
         \/ ~(req'.op = "create" => body')
         \/ \E i \in 1..Len(r) : ~Fine(r[i])
  PROVE  /\ flowPc' = "done" /\ result' = "returned" /\ completed' = FALSE /\ created' = made'
         /\ flowSteps' \in Seq(Recs) /\ Workflow!ReportTruthful'
<1> DEFINE t == flowSteps'
<1>1. r \in Seq(Recs) /\ Len(r) \in Nat /\ p \in Seq(Steps) /\ Len(p) \in Nat /\ Len(r) <= Len(p) /\ DOMAIN p = 1..Len(p)
  BY DEF Recorded, WellFormed
<1>2. t = r \o Workflow!Marked(Workflow!Rest(p, Len(r)), "skipped")
  BY DEF Workflow!Fails
<1>3. flowPc' = "done" /\ result' = "returned" /\ completed' = FALSE /\ created' = made'
  BY DEF Workflow!Fails, Workflow!Ends
<1>4. /\ t \in Seq(Recs) /\ Len(t) = Len(p) /\ \A i \in 1..Len(p) : t[i].step = p[i]
      /\ \A i \in 1..Len(r) : t[i] = r[i]
      /\ \A i \in 1..Len(p) : ~(i <= Len(r)) => t[i].status = "skipped"
  <2>1. "skipped" \in Workflow!Statuses
    BY DEF Workflow!Statuses
  <2>2. \A i \in 1..Len(r) : r[i].step = p[i]
    BY DEF Recorded
  <2>3. FilledUp(r \o Workflow!Marked(Workflow!Rest(p, Len(r)), "skipped"), p, r, "skipped")
    BY <1>1, <2>1, <2>2, Filled
  <2> HIDE DEF t
  <2>4. FilledUp(t, p, r, "skipped")
    BY <1>2, <2>3
  <2> QED
    BY <2>4 DEF FilledUp
<1> HIDE DEF t
<1>5. [i \in 1..Len(t) |-> t[i].step] = p
  <2>1. p = [i \in 1..Len(p) |-> p[i]]
    BY <1>1
  <2> QED
    BY <1>4, <2>1
<1>6. Workflow!Cardinality(Workflow!ToSet(p)) = Len(p)
  BY EachOnce DEF WellFormed
<1>7. \A i \in 1..Len(t) : i \in 1..Len(r) \/ ~(i <= Len(r))
  BY <1>1, <1>4
<1>8. \A i \in 1..Len(t) :
        /\ t[i].status = "ok" => t[i].step \in d \cup {Workflow!Step("create"), Workflow!Step("affinity_assessment")}
        /\ t[i].status = "skipped" => t[i].step \notin d
  <2> SUFFICES ASSUME NEW i \in 1..Len(t)
               PROVE  /\ t[i].status = "ok" =>
                           t[i].step \in d \cup {Workflow!Step("create"), Workflow!Step("affinity_assessment")}
                      /\ t[i].status = "skipped" => t[i].step \notin d
    OBVIOUS
  <2>1. CASE i \in 1..Len(r)
    BY <1>4, <2>1 DEF Recorded
  <2>2. CASE ~(i <= Len(r))
    <3>1. t[i].status = "skipped" /\ t[i].step = p[i] /\ i \in 1..Len(p)
      BY <1>4, <2>2
    <3>2. \A y \in d : \E k \in 1..Len(r) : y = p[k]
      BY DEF Recorded
    <3>3. \A k \in 1..Len(r) : k \in DOMAIN p /\ i \in DOMAIN p /\ k # i
      BY <1>1, <1>4, <2>2
    <3>4. \A k \in 1..Len(r) : p[k] # p[i]
      BY <3>3 DEF WellFormed, Distinct
    <3> QED
      BY <3>1, <3>2, <3>4
  <2> QED
    BY <1>7, <2>1, <2>2
<1>9. \A i \in 1..Len(t) : \A j \in 1..i - 1 :
        t[j].status = "error" => t[i].status = "skipped" \/ t[i].step = Applying
  <2> SUFFICES ASSUME NEW i \in 1..Len(t), NEW j \in 1..i - 1, t[j].status = "error"
               PROVE  t[i].status = "skipped" \/ t[i].step = Applying
    OBVIOUS
  <2>1. j < i /\ j \in 1..Len(t) /\ i \in 1..Len(p) /\ j \in 1..Len(p)
    BY <1>1, <1>4
  <2>2. CASE i \in 1..Len(r)
    <3>1. j \in 1..Len(r)
      BY <2>1, <2>2, <1>1
    <3> QED
      BY <2>1, <2>2, <3>1, <1>4
  <2>3. CASE ~(i <= Len(r))
    BY <2>1, <2>3, <1>4
  <2> QED
    BY <1>7, <2>2, <2>3
<1>10. ~(/\ req'.op = "create" => body'
         /\ \A i \in 1..Len(t) : t[i].status = "ok" \/ (t[i].step = Applying /\ t[i].status = "skipped"))
  <2>1. CASE ~(req'.op = "create" => body')
    BY <2>1
  <2>2. CASE \E i \in 1..Len(r) : ~Fine(r[i])
    <3>1. PICK i \in 1..Len(r) : ~Fine(r[i])
      BY <2>2
    <3>2. i \in 1..Len(t) /\ t[i] = r[i]
      BY <1>1, <1>4
    <3> QED
      BY <3>1, <3>2 DEF Fine
  <2> QED
    BY <2>1, <2>2
<1> QED
  BY <1>3, <1>4, <1>5, <1>6, <1>8, <1>9, <1>10
     DEF Workflow!ReportTruthful, Workflow!Status, Workflow!Apply, Applying, t

\* A workflow that has done all its steps reports them.
LEMMA FinishReported ==
  ASSUME WellFormed(plan), Recorded(flowSteps, plan, done), Len(flowSteps) = Len(plan),
         \A i \in 1..Len(flowSteps) : Fine(flowSteps[i]), req.op = "create" => body,
         UNCHANGED <<plan, flowSteps, done, req, body, made>>,
         result' = "returned", completed' = TRUE, created' = made
  PROVE  Workflow!ReportTruthful'
<1>1. /\ plan \in Seq(Steps) /\ Distinct(plan) /\ DOMAIN plan = 1..Len(plan)
  BY DEF WellFormed
<1>2. [i \in 1..Len(flowSteps) |-> flowSteps[i].step] = plan
  <2>1. \A i \in 1..Len(flowSteps) : flowSteps[i].step = plan[i]
    BY DEF Recorded
  <2>2. plan = [i \in 1..Len(plan) |-> plan[i]]
    BY <1>1
  <2> QED
    BY <2>1, <2>2
<1>3. Workflow!Cardinality(Workflow!ToSet(plan)) = Len(plan)
  BY <1>1, EachOnce
<1>4. \A i \in 1..Len(flowSteps) :
        /\ flowSteps[i].status = "ok" =>
             flowSteps[i].step \in done \cup {Workflow!Step("create"), Workflow!Step("affinity_assessment")}
        /\ flowSteps[i].status = "skipped" => flowSteps[i].step \notin done
        /\ flowSteps[i].status # "error"
        /\ flowSteps[i].status = "ok" \/ (flowSteps[i].step = Applying /\ flowSteps[i].status = "skipped")
  BY DEF Recorded, Fine
<1>5. \A i \in 1..Len(flowSteps) : \A j \in 1..i - 1 : j \in 1..Len(flowSteps)
  BY DEF Recorded
<1> QED
  BY <1>2, <1>3, <1>4, <1>5 DEF Workflow!ReportTruthful, Workflow!Status, Workflow!Apply, Applying

LEMMA GoesOn ==
  ASSUME Ended, flowPc # "done", flowPc' # "done", result' = result
  PROVE  Ended' /\ Workflow!ReportTruthful'
BY DEF Ended, Workflow!ReportTruthful

LEMMA NothingReported ==
  ASSUME Workflow!Raises, flowSteps \in Seq(Recs)
  PROVE  Reporting'
BY DEF Reporting, Workflow!Raises, Workflow!Ends, Unjudged, InLegs, Ended, Workflow!ReportTruthful

LEMMA Preflight ==
  ASSUME Reporting, Workflow!Refuse \/ Workflow!DryRun \/ Workflow!Go
  PROVE  Reporting'
<1> USE DEF Reporting
<1>1. CASE Workflow!Refuse
  BY <1>1 DEF Workflow!Refuse, Workflow!Ends, Workflow!state, Unjudged, InLegs, Ended, Workflow!ReportTruthful
<1>2. CASE Workflow!DryRun
  <2>1. flowPc = "preflight" /\ WellFormed(plan) /\ done = {} /\ ~made
    BY <1>2 DEF Workflow!DryRun, Unjudged, Planned
  <2>2. flowSteps' \in Seq(Recs)
    <3>1. flowSteps' = [i \in 1..Len(plan) |-> Workflow!Rec(plan[i], "dry_run")]
      BY <1>2 DEF Workflow!DryRun, Workflow!Marked
    <3>2. plan \in Seq(Steps) /\ Len(plan) \in Nat /\ \A i \in 1..Len(plan) : plan[i] \in Steps
      BY <2>1 DEF WellFormed
    <3>3. \A x \in Steps : Workflow!Rec(x, "dry_run") \in Recs
      BY DEF Workflow!Rec, Recs, Workflow!Statuses
    <3>4. \A i \in 1..Len(plan) : Workflow!Rec(plan[i], "dry_run") \in Recs
      BY <3>2, <3>3
    <3> QED
      BY <3>1, <3>2, <3>4
  <2> QED
    BY <1>2, <2>1, <2>2 DEF Workflow!DryRun, Workflow!Ends, Unjudged, InLegs, Ended, Workflow!ReportTruthful
<1>3. CASE Workflow!Go
  <2>1. /\ flowPc = "preflight" /\ Planned(req, plan) /\ flowSteps = <<>> /\ done = {} /\ ~made
        /\ flowPc' \in {"rest", "cli", "legs"} /\ result' = result
        /\ UNCHANGED <<req, plan, flowSteps, done, made, body>>
    BY <1>3 DEF Workflow!Go, Workflow!state, Workflow!ends, Unjudged
  <2>2. Ended' /\ Workflow!ReportTruthful'
    BY <2>1, GoesOn
  <2>3. Unjudged'
    BY <1>3, <2>1 DEF Unjudged, OneApply, Workflow!Go, Workflow!Creates
  <2>4. InLegs'
    <3>1. flowPc' = "legs" => req.op # "create"
      BY <1>3, <2>1 DEF Workflow!Go, Workflow!Creates
    <3>2. WellFormed(plan) /\ Len(plan) \in Nat
      BY <2>1 DEF Planned, WellFormed
    <3>3. <<>> \in Seq(Recs) /\ Len(<<>>) = 0 /\ 1..Len(<<>>) = {}
      OBVIOUS
    <3>4. Recorded(<<>>, plan, {})
      BY <3>2, <3>3 DEF Recorded
    <3> QED
      BY <2>1, <3>1, <3>2, <3>3, <3>4 DEF InLegs
  <2> QED
    BY <2>1, <2>2, <2>3, <2>4
<1> QED
  BY <1>1, <1>2, <1>3

\* Up to the judgement of the create.
LEMMA PartitionMade ==
  ASSUME Reporting, NEW answered \in BOOLEAN,
         Workflow!RestCreated(answered) \/ Workflow!RestRefused \/ Workflow!_create_via_cli
  PROVE  Reporting'
<1> USE DEF Reporting
<1>1. /\ flowPc \in {"rest", "cli"} /\ flowPc' \in {"stamp", "judge", "cli", "apply", "readback"} /\ result' = result
      /\ Planned(req, plan) /\ Workflow!Creates /\ flowSteps = <<>> /\ done = {} /\ ~made
      /\ UNCHANGED <<req, plan, done>>
  BY DEF Workflow!RestCreated, Workflow!RestRefused, Workflow!_create_via_cli, Workflow!state, Workflow!ends, Unjudged
<1>2. Ended' /\ Workflow!ReportTruthful'
  BY <1>1, GoesOn
<1>3. Workflow!Rec(Applying, "skipped") \in Recs
  BY DEF Workflow!Rec, Recs, Workflow!Statuses, Applying, Workflow!Step, Steps, StepName
<1>4. CASE Workflow!RestCreated(answered)
  <2>1. flowPc' \in {"stamp", "judge"} /\ made' = TRUE
        /\ (flowSteps' = flowSteps \o <<>> \/ flowSteps' = flowSteps \o <<Workflow!Rec(Applying, "skipped")>>)
    BY <1>4 DEF Workflow!RestCreated, Workflow!When, Applying
  <2>2. flowSteps' = <<>> \/ flowSteps' = <<Workflow!Rec(Applying, "skipped")>>
    BY <1>1, <2>1
  <2>3. <<>> \in Seq(Recs) /\ <<Workflow!Rec(Applying, "skipped")>> \in Seq(Recs)
    BY <1>3
  <2>6. flowSteps' \in Seq(Recs)
    BY <2>2, <2>3
  <2>4. OneApply(flowSteps)'
    BY <1>1, <2>2 DEF OneApply
  <2>5. Unjudged' /\ InLegs'
    BY <1>1, <2>1, <2>4 DEF Unjudged, InLegs, Workflow!Creates
  <2> QED
    BY <1>2, <2>5, <2>6
<1>5. CASE Workflow!RestRefused \/ Workflow!_create_via_cli
  <2>1. /\ flowSteps' = <<>> /\ (flowPc' = "cli" => ~made') /\ flowPc' \in {"cli", "apply", "readback"}
    BY <1>1, <1>5 DEF Workflow!RestRefused, Workflow!_create_via_cli, Workflow!state
  <2>2. OneApply(flowSteps)'
    BY <1>1, <2>1 DEF OneApply
  <2>3. Unjudged' /\ InLegs'
    BY <1>1, <2>1, <2>2 DEF Unjudged, InLegs, Workflow!Creates
  <2> QED
    BY <1>1, <1>2, <2>1, <2>3
<1> QED
  BY <1>4, <1>5

LEMMA CreateReported ==
  ASSUME Reporting, Workflow!CreateFails
  PROVE  Reporting'
<1> USE DEF Reporting
<1>1. /\ flowPc \in {"rest", "cli"} /\ Planned(req, plan) /\ Workflow!Creates /\ flowSteps = <<>> /\ done = {}
      /\ UNCHANGED <<req, plan, done, body>>
  BY DEF Workflow!CreateFails, Unjudged
<1>2. CASE req.op = "provision"
  <2> DEFINE x == Workflow!Rec(Workflow!Step("create"), "error")
             r == <<x>>
  <2>1. Workflow!Fails(r, plan)
    BY <1>2 DEF Workflow!CreateFails
  <2>2. plan \in Seq(Steps) /\ Len(plan) \in Nat /\ plan # <<>> /\ plan[1] = Workflow!Step("create") /\ WellFormed(plan)
    BY <1>1, <1>2 DEF Planned, WellFormed
  <2>3. Len(plan) >= 1
    BY <2>2
  <2>4. x \in Recs /\ x.step = Workflow!Step("create") /\ x.status = "error"
    BY DEF Workflow!Rec, Recs, Workflow!Statuses, Workflow!Step, Steps, StepName
  <2> HIDE DEF x
  <2>5. r \in Seq(Recs) /\ Len(r) = 1 /\ r[1] = x /\ 1..Len(r) = {1}
    BY <2>4
  <2> HIDE DEF r
  <2>6. Recorded(r, plan, {})
    BY <2>2, <2>3, <2>4, <2>5 DEF Recorded
  <2>7. ~Fine(r[1])
    BY <2>4, <2>5 DEF Fine
  <2>8. \A i, j \in 1..Len(r) : ~(j < i)
    BY <2>5
  <2>9. /\ flowPc' = "done" /\ result' = "returned" /\ flowSteps' \in Seq(Recs) /\ Workflow!ReportTruthful'
    BY <1>1, <2>1, <2>2, <2>5, <2>6, <2>7, <2>8, FailsReported
  <2> QED
    BY <2>9 DEF Unjudged, InLegs, Ended
<1>3. CASE req.op # "provision"
  BY <1>3, NothingReported DEF Workflow!CreateFails
<1> QED
  BY <1>2, <1>3

LEMMA CreateSettles ==
  ASSUME Reporting, Workflow!_apply_created_profile \/ Workflow!ReadBack \/ Workflow!Stamp
  PROVE  Reporting'
<1> USE DEF Reporting
<1>1. /\ flowPc \in {"apply", "readback", "stamp"} /\ flowPc' \in {"readback", "stamp", "judge"} /\ result' = result
      /\ UNCHANGED <<req, plan>>
  BY DEF Workflow!_apply_created_profile, Workflow!ReadBack, Workflow!Stamp, Workflow!ends
<1>2. Ended' /\ Workflow!ReportTruthful'
  BY <1>1, GoesOn
<1>3. Planned(req, plan) /\ Workflow!Creates /\ done \subseteq {Applying} /\ OneApply(flowSteps)
      /\ (flowPc = "apply" => flowSteps = <<>> /\ done = {})
  BY <1>1 DEF Unjudged
<1>4. CASE Workflow!_apply_created_profile
  <2>1. PICK ok \in BOOLEAN, took \in BOOLEAN :
          /\ flowPc = "apply" /\ flowPc' = "readback" /\ (ok => took)
          /\ IF req.apply = "no" THEN UNCHANGED done /\ flowSteps' = Append(flowSteps, Workflow!Rec(Applying, "skipped"))
             ELSE /\ done' = done \cup (IF took THEN {Applying} ELSE {})
                  /\ flowSteps' = Append(flowSteps, Workflow!Rec(Applying, IF ok THEN "ok" ELSE "error"))
    BY <1>4 DEF Workflow!_apply_created_profile, Applying
  <2>2. \A x : Append(<<>>, x) = <<x>>
    OBVIOUS
  <2>3. PICK t \in {"ok", "error", "skipped"} :
          /\ flowSteps' = <<Workflow!Rec(Applying, t)>> /\ done' \subseteq {Applying}
          /\ t = "ok" => Applying \in done'
          /\ t = "skipped" => done' = {}
    BY <1>3, <2>1, <2>2
  <2>4. Workflow!Rec(Applying, t) \in Recs
    BY DEF Workflow!Rec, Recs, Workflow!Statuses, Applying, Workflow!Step, Steps, StepName
  <2>5. flowSteps' \in Seq(Recs)
    BY <2>3, <2>4
  <2>6. OneApply(flowSteps)'
    BY <2>3 DEF OneApply
  <2>7. Unjudged' /\ InLegs'
    BY <1>1, <1>3, <2>1, <2>3, <2>6 DEF Unjudged, InLegs, Workflow!Creates
  <2> QED
    BY <1>2, <2>5, <2>7
<1>5. CASE Workflow!ReadBack \/ Workflow!Stamp
  <2>1. UNCHANGED <<flowSteps, done>> /\ flowPc' \in {"stamp", "judge"}
    BY <1>5 DEF Workflow!ReadBack, Workflow!Stamp
  <2>2. OneApply(flowSteps)'
    BY <1>3, <2>1 DEF OneApply
  <2>3. Unjudged' /\ InLegs'
    BY <1>1, <1>3, <2>1, <2>2 DEF Unjudged, InLegs, Workflow!Creates
  <2> QED
    BY <1>2, <2>1, <2>3
<1> QED
  BY <1>4, <1>5

\* Judging the create puts the apply step, where there was one, behind it.
LEMMA SmallConcat == \A x, y : <<x>> \o <<>> = <<x>> /\ <<x>> \o <<y>> = <<x, y>>
<1> TAKE x, y
<1>1. <<>> \in Seq({x, y}) /\ <<x>> \in Seq({x, y}) /\ <<y>> \in Seq({x, y}) /\ <<x, y>> \in Seq({x, y})
  OBVIOUS
<1>2. /\ Len(<<>>) = 0 /\ Len(<<x>>) = 1 /\ Len(<<y>>) = 1 /\ Len(<<x, y>>) = 2
      /\ <<x>>[1] = x /\ <<y>>[1] = y /\ <<x, y>>[1] = x /\ <<x, y>>[2] = y
  OBVIOUS
<1>3. ASSUME NEW a \in Seq({x, y}), NEW b \in Seq({x, y}), NEW c \in Seq({x, y}),
             Len(c) = Len(a) + Len(b),
             \A i \in 1..Len(c) : c[i] = IF i <= Len(a) THEN a[i] ELSE b[i - Len(a)]
      PROVE  a \o b = c
  <2>1. Len(a) \in Nat /\ Len(b) \in Nat
    OBVIOUS
  <2>2. /\ a \o b \in Seq({x, y}) /\ Len(a \o b) = Len(c)
        /\ \A i \in 1..Len(c) : (a \o b)[i] = c[i]
    BY <1>3, <2>1, ConcatIs
  <2>3. ASSUME NEW d \in Seq({x, y}) PROVE d = [i \in 1..Len(d) |-> d[i]]
    OBVIOUS
  <2> HIDE <1>3
  <2> QED
    BY <2>2, <2>3
<1>4. <<x>> \o <<>> = <<x>>
  <2>1. \A i \in 1..1 : i = 1 /\ i <= 1
    OBVIOUS
  <2> QED
    BY <1>1, <1>2, <1>3, <2>1
<1>5. <<x>> \o <<y>> = <<x, y>>
  <2>1. \A i \in 1..2 : (i = 1 /\ i <= 1) \/ (i = 2 /\ ~(i <= 1) /\ i - 1 = 1)
    OBVIOUS
  <2>2. Len(<<x, y>>) = Len(<<x>>) + Len(<<y>>)
    BY <1>2
  <2>3. \A i \in 1..Len(<<x, y>>) : <<x, y>>[i] = IF i <= Len(<<x>>) THEN <<x>>[i] ELSE <<y>>[i - Len(<<x>>)]
    BY <1>2, <2>1
  <2> QED
    BY ONLY <1>1, <1>3, <2>2, <2>3, Zenon
<1> QED
  BY <1>4, <1>5

Full == <<Head(plan)>> \o [i \in 1..Len(flowSteps) |-> flowSteps[i].step] \o Tail(plan)

LEMMA Inserted ==
  ASSUME Planned(req, plan), Workflow!Creates, OneApply(flowSteps)
  PROVE  /\ WellFormed(Full) /\ Len(Full) >= Len(flowSteps) + 1
         /\ Full[1] = Workflow!Step("create") /\ (flowSteps # <<>> => Full[2] = Applying)
<1> DEFINE create == Workflow!Step("create")
           middle == [i \in 1..Len(flowSteps) |-> flowSteps[i].step]
           rest == Tail(plan)
<1>0. Full = (<<Head(plan)>> \o middle) \o rest
  BY DEF Full
<1>1. /\ plan \in Seq(Steps) /\ Distinct(plan) /\ plan # <<>> /\ plan[1] = create
      /\ \A i \in DOMAIN plan : Plain(plan[i]) /\ plan[i] # Applying
  BY DEF Planned, WellFormed, Workflow!Creates
<1>2. Len(plan) \in Nat \ {0} /\ DOMAIN plan = 1..Len(plan) /\ Head(plan) = create /\ create \in Steps
  BY <1>1 DEF Workflow!Step, Steps, StepName
<1>3. rest \in Seq(Steps) /\ Len(rest) = Len(plan) - 1 /\ \A i \in 1..Len(rest) : rest[i] = plan[i + 1]
  BY <1>1
<1>4. DOMAIN rest = 1..Len(rest) /\ Len(rest) \in Nat
  BY <1>3
<1>9. Applying \in Steps /\ Applying # create /\ Plain(Applying) /\ Plain(create)
  BY DEF Applying, Workflow!Step, Steps, StepName, Plain
<1> HIDE DEF create, rest
<1>5. \A i \in 1..Len(rest) : i + 1 \in DOMAIN plan /\ 1 \in DOMAIN plan /\ i + 1 # 1
  BY <1>2, <1>3
<1>6. \A i \in 1..Len(rest) : rest[i] # create /\ rest[i] # Applying /\ Plain(rest[i])
  BY <1>1, <1>3, <1>5 DEF Distinct
<1>7. Distinct(rest)
  <2> SUFFICES ASSUME NEW i \in 1..Len(rest), NEW j \in 1..Len(rest), rest[i] = rest[j] PROVE i = j
    BY <1>4 DEF Distinct
  <2>1. i + 1 = j + 1
    BY <1>1, <1>3, <1>5 DEF Distinct
  <2> QED
    BY <2>1
<1>8. create \notin Names_of(rest) /\ Applying \notin Names_of(rest) /\ \A x \in Names_of(rest) : Plain(x)
  BY <1>4, <1>6 DEF Names_of
<1>10. \E a \in Seq(Steps) :
         /\ Full = a \o rest /\ Distinct(a) /\ Names_of(a) \subseteq {create, Applying}
         /\ Len(a) = Len(flowSteps) + 1 /\ a[1] = create /\ (flowSteps # <<>> => Len(a) = 2 /\ a[2] = Applying)
  <2>1. CASE flowSteps = <<>>
    <3>1. middle = <<>> /\ Len(flowSteps) = 0
      BY <2>1
    <3>2. <<Head(plan)>> \o middle = <<create>>
      BY <1>2, <3>1, SmallConcat
    <3>3. Full = <<create>> \o rest
      BY <1>0, <3>2
    <3>4. <<create>> \in Seq(Steps) /\ Distinct(<<create>>) /\ Names_of(<<create>>) = {create}
      BY <1>2, DistinctOne
    <3>5. Len(<<create>>) = 1 /\ <<create>>[1] = create
      OBVIOUS
    <3>6. Names_of(<<create>>) \subseteq {create, Applying} /\ Len(<<create>>) = Len(flowSteps) + 1
      BY <3>1, <3>4, <3>5
    <3> HIDE DEF middle
    <3> USE <3>4
    <3> WITNESS <<create>> \in Seq(Steps)
    <3> QED
      BY <2>1, <3>3, <3>4, <3>5, <3>6
  <2>2. CASE flowSteps # <<>>
    <3>1. PICK t : flowSteps = <<Workflow!Rec(Applying, t)>>
      BY <2>2 DEF OneApply
    <3>2. Len(flowSteps) = 1 /\ flowSteps[1].step = Applying
      BY <3>1 DEF Workflow!Rec
    <3>3. middle = <<Applying>>
      BY <3>2
    <3>4. <<Head(plan)>> \o middle = <<create, Applying>>
      <4> HIDE DEF middle
      <4> QED
        BY <1>2, <3>3, SmallConcat
    <3>5. Full = <<create, Applying>> \o rest
      BY <1>0, <3>4
    <3>6. <<create, Applying>> \in Seq(Steps) /\ Distinct(<<create, Applying>>)
          /\ Names_of(<<create, Applying>>) = {create, Applying}
      BY <1>2, <1>9, DistinctTwo
    <3>7. Len(<<create, Applying>>) = 2 /\ <<create, Applying>>[1] = create /\ <<create, Applying>>[2] = Applying
      OBVIOUS
    <3>8. Names_of(<<create, Applying>>) \subseteq {create, Applying} /\ Len(<<create, Applying>>) = Len(flowSteps) + 1
      BY <3>2, <3>6, <3>7
    <3> HIDE DEF middle
    <3> USE <3>6
    <3> WITNESS <<create, Applying>> \in Seq(Steps)
    <3> QED
      BY <3>5, <3>6, <3>7, <3>8
  <2> QED
    BY <2>1, <2>2
<1>11. PICK a \in Seq(Steps) :
         /\ Full = a \o rest /\ Distinct(a) /\ Names_of(a) \subseteq {create, Applying}
         /\ Len(a) = Len(flowSteps) + 1 /\ a[1] = create /\ (flowSteps # <<>> => Len(a) = 2 /\ a[2] = Applying)
  BY <1>10
<1>12. Names_of(a) \cap Names_of(rest) = {}
  BY <1>8, <1>11
<1>13. a \o rest \in Seq(Steps) /\ Distinct(a \o rest) /\ Names_of(a \o rest) = Names_of(a) \cup Names_of(rest)
  BY <1>3, <1>7, <1>11, <1>12, DistinctConcat
<1>14. /\ Len(a \o rest) = Len(a) + Len(rest)
       /\ \A i \in 1..Len(a) + Len(rest) : (a \o rest)[i] = IF i <= Len(a) THEN a[i] ELSE rest[i - Len(a)]
  BY <1>3, ConcatIs
<1>15. Len(a) \in Nat /\ Len(a) >= 1
  <2>1. Len(a) \in Nat /\ Len(flowSteps) \in Nat
    BY DEF OneApply
  <2> QED
    BY <1>11, <2>1
<1>16. Len(Full) >= Len(flowSteps) + 1 /\ Full[1] = create
  BY <1>4, <1>11, <1>14, <1>15
<1>17. flowSteps # <<>> => Full[2] = Applying
  BY <1>4, <1>11, <1>14, <1>15
<1>18. \A i \in DOMAIN Full : Plain(Full[i])
  BY <1>8, <1>9, <1>11, <1>13 DEF Names_of
<1> QED
  BY <1>11, <1>13, <1>16, <1>17, <1>18 DEF WellFormed, create

LEMMA Judges ==
  ASSUME Reporting, Workflow!Judge
  PROVE  Reporting'
<1> USE DEF Reporting
<1> DEFINE x == Workflow!Rec(Workflow!Step("create"), IF body \/ req.op = "create" THEN "ok" ELSE "error")
           r == <<x>> \o flowSteps
<1>1. /\ flowPc = "judge" /\ plan' = Full /\ UNCHANGED <<done, req, made, body>>
      /\ IF req.required /\ stamped # "yes" THEN Workflow!Raises
         ELSE IF ~body \/ ~Workflow!Applied THEN Workflow!Fails(r, Full)
         ELSE flowPc' = "legs" /\ flowSteps' = r /\ UNCHANGED Workflow!ends
  BY DEF Workflow!Judge, Full
<1>2. Planned(req, plan) /\ Workflow!Creates /\ done \subseteq {Applying} /\ OneApply(flowSteps)
  BY <1>1 DEF Unjudged
<1>3. /\ WellFormed(Full) /\ Len(Full) >= Len(flowSteps) + 1
      /\ Full[1] = Workflow!Step("create") /\ (flowSteps # <<>> => Full[2] = Applying)
  BY <1>2, Inserted
<1>4. /\ x \in Recs /\ x.step = Workflow!Step("create") /\ x.status \in {"ok", "error"}
      /\ (body => x.status = "ok") /\ (~body /\ req.op # "create" => x.status = "error")
  BY DEF Workflow!Rec, Recs, Workflow!Statuses, Workflow!Step, Steps, StepName
<1> HIDE DEF x
<1>5. /\ <<x>> \in Seq(Recs) /\ Len(<<x>>) = 1 /\ <<x>>[1] = x /\ flowSteps \in Seq(Recs) /\ Len(flowSteps) \in Nat
  BY <1>4
<1>6. /\ r \in Seq(Recs) /\ Len(r) = 1 + Len(flowSteps)
      /\ \A i \in 1..1 + Len(flowSteps) : r[i] = IF i <= 1 THEN <<x>>[i] ELSE flowSteps[i - 1]
  <2> HIDE DEF r
  <2>1. /\ <<x>> \o flowSteps \in Seq(Recs) /\ Len(<<x>> \o flowSteps) = Len(<<x>>) + Len(flowSteps)
        /\ \A i \in 1..Len(<<x>>) + Len(flowSteps) :
             (<<x>> \o flowSteps)[i] = IF i <= Len(<<x>>) THEN <<x>>[i] ELSE flowSteps[i - Len(<<x>>)]
    BY <1>5, ConcatIs
  <2> QED
    BY <1>5, <2>1 DEF r
<1> HIDE DEF r
<1>7. /\ \A t \in {"ok", "error", "skipped"} : Workflow!Rec(Applying, t).status = t /\ Workflow!Rec(Applying, t).step = Applying
      /\ Applying # Workflow!Step("create")
  BY DEF Workflow!Rec, Applying, Workflow!Step
<1>8. \/ /\ flowSteps = <<>> /\ Len(r) = 1 /\ done = {}
      \/ /\ flowSteps # <<>> /\ Len(r) = 2 /\ r[2] = flowSteps[1] /\ Len(flowSteps) = 1
         /\ \E t \in {"ok", "error", "skipped"} :
              /\ r[2].step = Applying /\ r[2].status = t
              /\ t = "ok" => Applying \in done
              /\ t = "skipped" => done = {}
  <2>1. CASE flowSteps = <<>> /\ done = {}
    BY <2>1, <1>6
  <2>2. CASE \E t \in {"ok", "error", "skipped"} :
               /\ flowSteps = <<Workflow!Rec(Applying, t)>>
               /\ t = "ok" => Applying \in done
               /\ t = "skipped" => done = {}
    <3>1. PICK t \in {"ok", "error", "skipped"} :
               /\ flowSteps = <<Workflow!Rec(Applying, t)>>
               /\ t = "ok" => Applying \in done
               /\ t = "skipped" => done = {}
      BY <2>2
    <3>2. Len(flowSteps) = 1 /\ flowSteps[1] = Workflow!Rec(Applying, t) /\ flowSteps # <<>>
      BY <3>1
    <3>3. Len(r) = 2 /\ r[2] = flowSteps[1]
      BY <1>6, <3>2
    <3> QED
      BY <3>1, <3>2, <3>3, <1>7
  <2> QED
    BY <1>2, <2>1, <2>2 DEF OneApply
<1>9. r[1] = x
  BY <1>5, <1>6
<1>10. \A i \in 1..Len(r) : i = 1 \/ (i = 2 /\ Len(r) = 2 /\ flowSteps # <<>>)
  BY <1>8
<1>11. Recorded(r, Full, done)
  <2>1. Len(r) <= Len(Full)
    BY <1>3, <1>5, <1>6 DEF WellFormed
  <2>2. \A i \in 1..Len(r) : r[i].step = Full[i]
    BY <1>3, <1>4, <1>8, <1>9, <1>10
  <2>3. \A i \in 1..Len(r) :
          /\ r[i].status = "ok" => r[i].step \in done \cup {Workflow!Step("create"), Workflow!Step("affinity_assessment")}
          /\ r[i].status = "skipped" => r[i].step \notin done
    BY <1>4, <1>8, <1>9, <1>10
  <2>4. done \subseteq {r[i].step : i \in 1..Len(r)}
    <3>1. CASE Len(r) = 1 /\ done = {}
      BY <3>1
    <3>2. CASE Len(r) = 2 /\ r[2].step = Applying
      <4>1. 2 \in 1..Len(r)
        BY <3>2
      <4> QED
        BY <3>2, <4>1, <1>2
    <3> QED
      BY <3>1, <3>2, <1>8
  <2> QED
    BY <1>6, <2>1, <2>2, <2>3, <2>4 DEF Recorded
<1>12. Workflow!Applied = (\A i \in 1..Len(flowSteps) : flowSteps[i].status # "error")
  BY DEF Workflow!Applied
<1>13. CASE req.required /\ stamped # "yes"
  BY <1>1, <1>13, NothingReported
<1>14. CASE ~(req.required /\ stamped # "yes") /\ (~body \/ ~Workflow!Applied)
  <2>1. Workflow!Fails(r, Full)
    BY <1>1, <1>14
  <2>2. \A i, j \in 1..Len(r) : j < i /\ r[j].status = "error" => r[i].status = "skipped" \/ r[i].step = Applying
    BY <1>8, <1>10
  <2>3. ~(req'.op = "create" => body') \/ \E i \in 1..Len(r) : ~Fine(r[i])
    <3>1. CASE ~body /\ req.op = "create"
      BY <3>1, <1>1
    <3>2. CASE ~body /\ req.op # "create"
      <4>1. 1 \in 1..Len(r) /\ r[1].status = "error"
        BY <3>2, <1>4, <1>8, <1>9
      <4> QED
        BY <4>1 DEF Fine
    <3>3. CASE ~Workflow!Applied
      <4>1. PICK i \in 1..Len(flowSteps) : flowSteps[i].status = "error"
        BY <3>3, <1>12
      <4>2. flowSteps # <<>>
        BY <4>1
      <4>3. i = 1 /\ Len(r) = 2
        BY <4>1, <4>2, <1>8
      <4>4. 2 \in 1..Len(r) /\ r[2].status = "error"
        BY <4>1, <4>2, <4>3, <1>8
      <4> QED
        BY <4>4 DEF Fine
    <3> QED
      BY <1>14, <3>1, <3>2, <3>3
  <2>4. /\ flowPc' = "done" /\ result' = "returned" /\ flowSteps' \in Seq(Recs) /\ Workflow!ReportTruthful'
    BY <1>1, <1>3, <1>11, <2>1, <2>2, <2>3, FailsReported
  <2> QED
    BY <2>4 DEF Unjudged, InLegs, Ended
<1>15. CASE ~(req.required /\ stamped # "yes") /\ body /\ Workflow!Applied
  <2>1. flowPc' = "legs" /\ flowSteps' = r /\ result' = result
    BY <1>1, <1>15 DEF Workflow!ends
  <2>2. Ended' /\ Workflow!ReportTruthful'
    BY <1>1, <2>1, GoesOn
  <2>3. \A i \in 1..Len(r) : Fine(r[i])
    <3>1. Fine(r[1])
      BY <1>4, <1>9, <1>15 DEF Fine
    <3>2. flowSteps # <<>> => flowSteps[1].status # "error"
      <4>1. flowSteps # <<>> => 1 \in 1..Len(flowSteps)
        BY <1>8
      <4> QED
        BY <1>12, <1>15, <4>1
    <3>3. flowSteps # <<>> => Fine(r[2])
      BY <1>8, <3>2 DEF Fine
    <3> QED
      BY <1>10, <3>1, <3>3
  <2>4. InLegs'
    BY <1>1, <1>3, <1>11, <1>15, <2>1, <2>3 DEF InLegs, WellFormed, Recorded
  <2> QED
    BY <1>6, <2>1, <2>2, <2>4 DEF Unjudged
<1> QED
  BY <1>13, <1>14, <1>15

\* A step that ends the workflow is the last that is recorded, and everything before it went well.
LEMMA LegFails ==
  ASSUME Reporting, flowPc = "legs", Len(flowSteps) < Len(plan), UNCHANGED <<req, plan, made, body>>,
         NEW st \in {"error", "skipped"}, done' = done \/ done' = done \cup {Workflow!Next_},
         st = "skipped" => done' = done /\ Workflow!Next_ # Applying,
         Workflow!Fails(Append(flowSteps, Workflow!Rec(Workflow!Next_, st)), plan)
  PROVE  Reporting'
<1> DEFINE x == Workflow!Rec(Workflow!Next_, st)
           r == Append(flowSteps, x)
<1>1. WellFormed(plan) /\ Recorded(flowSteps, plan, done) /\ \A i \in 1..Len(flowSteps) : Fine(flowSteps[i])
  BY DEF Reporting, InLegs
<1>2. Len(flowSteps) \in Nat
  BY <1>1 DEF Recorded
<1>3. x.status = st /\ x.step = Workflow!Next_
  BY DEF Workflow!Rec
<1>4. Recorded(r, plan, done') /\ Len(r) = Len(flowSteps) + 1 /\ r[Len(r)] = x
      /\ \A i \in 1..Len(flowSteps) : r[i] = flowSteps[i]
  BY <1>1, Appended
<1>5. Workflow!Fails(r, plan)
  OBVIOUS
<1> HIDE DEF x, r
<1>6. \A i \in 1..Len(r) : i \in 1..Len(flowSteps) \/ i = Len(r)
  BY <1>2, <1>4
<1>7. Len(r) \in 1..Len(r) /\ ~Fine(r[Len(r)])
  <2>1. Len(r) \in 1..Len(r)
    BY <1>2, <1>4
  <2> QED
    BY <2>1, <1>3, <1>4 DEF Fine
<1>8. \A i, j \in 1..Len(r) : j < i /\ r[j].status = "error" => r[i].status = "skipped" \/ r[i].step = Applying
  <2> SUFFICES ASSUME NEW i \in 1..Len(r), NEW j \in 1..Len(r), j < i, r[j].status = "error" PROVE FALSE
    OBVIOUS
  <2>1. j \in 1..Len(flowSteps)
    BY <1>2, <1>4
  <2> QED
    BY <2>1, <1>1, <1>4 DEF Fine
<1>9. /\ flowPc' = "done" /\ result' = "returned" /\ flowSteps' \in Seq(Recs) /\ Workflow!ReportTruthful'
  BY <1>1, <1>4, <1>5, <1>7, <1>8, FailsReported
<1> QED
  BY <1>9 DEF Reporting, Unjudged, InLegs, Ended

LEMMA LegRecorded ==
  ASSUME Reporting, flowPc = "legs", Len(flowSteps) < Len(plan), UNCHANGED <<req, plan, made, body>>,
         NEW ok \in BOOLEAN, done' = done \/ done' = done \cup {Workflow!Next_},
         ok => Workflow!Next_ \in done' \cup {Workflow!Step("create"), Workflow!Step("affinity_assessment")},
         Workflow!Records(ok)
  PROVE  Reporting'
<1>1. CASE ~ok
  <2>1. Workflow!Fails(Append(flowSteps, Workflow!Rec(Workflow!Next_, "error")), plan)
    BY <1>1 DEF Workflow!Records
  <2> QED
    BY <2>1, LegFails
<1>2. CASE ok
  <2> DEFINE x == Workflow!Rec(Workflow!Next_, "ok")
             r == Append(flowSteps, x)
  <2>1. flowSteps' = r /\ UNCHANGED <<flowPc, result>>
    BY <1>2 DEF Workflow!Records, Workflow!ends
  <2>2. /\ WellFormed(plan) /\ Recorded(flowSteps, plan, done) /\ \A i \in 1..Len(flowSteps) : Fine(flowSteps[i])
        /\ req.op = "create" => body
    BY DEF Reporting, InLegs
  <2>3. x.status = "ok"
    BY DEF Workflow!Rec
  <2>4. Recorded(r, plan, done') /\ Len(r) = Len(flowSteps) + 1 /\ r[Len(r)] = x
        /\ \A i \in 1..Len(flowSteps) : r[i] = flowSteps[i]
    BY <1>2, <2>2, Appended
  <2>5. Len(flowSteps) \in Nat
    BY <2>2 DEF Recorded
  <2> HIDE DEF x, r
  <2>6. \A i \in 1..Len(r) : i \in 1..Len(flowSteps) \/ i = Len(r)
    BY <2>4, <2>5
  <2>7. \A i \in 1..Len(r) : Fine(r[i])
    BY <2>2, <2>3, <2>4, <2>6 DEF Fine
  <2>8. Ended' /\ Workflow!ReportTruthful'
    BY <2>1, GoesOn DEF Reporting
  <2>9. r \in Seq(Recs)
    BY <2>4 DEF Recorded
  <2>10. InLegs'
    BY <2>1, <2>2, <2>4, <2>7 DEF InLegs, WellFormed, Recorded
  <2> QED
    BY <2>1, <2>8, <2>9, <2>10 DEF Reporting, Unjudged
<1> QED
  BY <1>1, <1>2

\* The step that comes next, of the plan and of the name that its action looks for.
LEMMA Comes ==
  ASSUME Reporting, NEW name, Workflow!AtStep(name)
  PROVE  /\ flowPc = "legs" /\ Len(flowSteps) < Len(plan) /\ Workflow!Next_[1] = name
         /\ Workflow!Next_ \in Workflow!ToSet(plan)
         /\ name = "affinity_assessment" => Workflow!Next_ = Workflow!Step("affinity_assessment")
<1>1. flowPc = "legs" /\ Len(flowSteps) < Len(plan) /\ Workflow!Next_ = plan[Len(flowSteps) + 1] /\ Workflow!Next_[1] = name
  BY DEF Workflow!AtStep, Workflow!Next_
<1>2. WellFormed(plan) /\ Len(flowSteps) \in Nat /\ Len(plan) \in Nat /\ plan \in Seq(Steps)
  BY <1>1 DEF Reporting, InLegs, Recorded, WellFormed
<1>3. Len(flowSteps) + 1 \in DOMAIN plan
  BY <1>1, <1>2
<1>4. Workflow!Next_ \in Steps /\ Plain(Workflow!Next_) /\ Workflow!Next_ \in Workflow!ToSet(plan)
  BY <1>1, <1>2, <1>3 DEF WellFormed, Workflow!ToSet
<1>5. \A s \in Steps : s = <<s[1], s[2]>>
  BY DEF Steps
<1>6. name = "affinity_assessment" => Workflow!Next_ = Workflow!Step("affinity_assessment")
  BY <1>1, <1>4, <1>5 DEF Plain, Workflow!Step
<1> QED
  BY <1>1, <1>4, <1>6

LEMMA LegsReport ==
  ASSUME Reporting, Workflow!Legs
  PROVE  Reporting'
<1>1. ASSUME NEW name, Workflow!ByUuid(name) PROVE Reporting'
  <2>1. PICK ok \in BOOLEAN, took \in BOOLEAN :
          Workflow!AtStep(name) /\ (ok => took) /\ Workflow!Kept /\ Workflow!Takes(took) /\ Workflow!Records(ok)
    BY <1>1 DEF Workflow!ByUuid
  <2> QED
    BY <2>1, Comes, LegRecorded DEF Workflow!Kept, Workflow!Takes
<1>2. CASE Workflow!_run_policy_leg
  <2>1. PICK ok \in BOOLEAN, took \in BOOLEAN :
          /\ Workflow!AtStep("minimum_affinity_policy") /\ Workflow!Kept
          /\ \/ Workflow!ByName(ok, took)
             \/ Workflow!Raises
    BY <1>2 DEF Workflow!_run_policy_leg
  <2>2. CASE Workflow!Raises
    BY <2>2, NothingReported DEF Reporting
  <2>3. CASE Workflow!ByName(ok, took)
    BY <2>1, <2>3, Comes, LegRecorded DEF Workflow!Kept, Workflow!Takes, Workflow!ByName
  <2> QED
    BY <2>1, <2>2, <2>3
<1>3. CASE Workflow!apply_validated_lpar_pcie_assignments
  <2>1. PICK ok \in BOOLEAN, took \in BOOLEAN :
          Workflow!AtStep("assignment") /\ (ok => took) /\ Workflow!Kept /\ Workflow!Takes(took) /\ Workflow!Records(ok)
    BY <1>3 DEF Workflow!apply_validated_lpar_pcie_assignments
  <2> QED
    BY <2>1, Comes, LegRecorded DEF Workflow!Kept, Workflow!Takes
<1>4. CASE Workflow!_run_affinity_leg
  <2>1. PICK ok \in BOOLEAN :
          /\ Workflow!AtStep("affinity_assessment") /\ UNCHANGED done /\ Workflow!Kept
          /\ \/ Workflow!Fails(Append(flowSteps, Workflow!Rec(Workflow!Next_, "skipped")), plan)
             \/ Workflow!Records(ok)
             \/ Workflow!Raises
    BY <1>4 DEF Workflow!_run_affinity_leg
  <2>2. /\ flowPc = "legs" /\ Len(flowSteps) < Len(plan) /\ Workflow!Next_ = Workflow!Step("affinity_assessment")
        /\ UNCHANGED <<req, plan, made, body>>
    BY <2>1, Comes DEF Workflow!Kept
  <2>3. CASE Workflow!Raises
    BY <2>3, NothingReported DEF Reporting
  <2>4. CASE Workflow!Records(ok)
    BY <2>1, <2>2, <2>4, LegRecorded
  <2>5. CASE Workflow!Fails(Append(flowSteps, Workflow!Rec(Workflow!Next_, "skipped")), plan)
    <3>1. Workflow!Next_ # Applying
      BY <2>2 DEF Applying, Workflow!Step
    <3> QED
      BY <2>1, <2>2, <2>5, <3>1, LegFails
  <2> QED
    BY <2>1, <2>3, <2>4, <2>5
<1>5. ASSUME NEW name, NEW ok \in BOOLEAN, NEW took \in BOOLEAN,
             Workflow!AtStep(name), Workflow!Kept, ok => took, Workflow!Takes(took),
             Workflow!Records(ok) \/ Workflow!Raises
      PROVE  Reporting'
  <2>1. CASE Workflow!Raises
    BY <2>1, NothingReported DEF Reporting
  <2>2. CASE Workflow!Records(ok)
    BY <1>5, <2>2, Comes, LegRecorded DEF Workflow!Kept, Workflow!Takes
  <2> QED
    BY <1>5, <2>1, <2>2
<1>7. CASE Workflow!Rename
  <2>1. PICK ok \in BOOLEAN, took \in BOOLEAN :
          /\ Workflow!AtStep("rename") /\ Workflow!Kept /\ (ok => took) /\ Workflow!Takes(took)
          /\ IF ok THEN Workflow!Records(TRUE) ELSE Workflow!Raises
    BY <1>7 DEF Workflow!Rename
  <2>2. Workflow!Records(ok) \/ Workflow!Raises
    BY <2>1, Zenon
  <2> QED
    BY <1>5, <2>1, <2>2
<1>8. CASE Workflow!Resources
  <2>1. PICK ok \in BOOLEAN, took \in BOOLEAN :
          /\ Workflow!AtStep("resources") /\ Workflow!Kept /\ (ok => took) /\ Workflow!Takes(took)
          /\ Workflow!Records(ok) \/ Workflow!Raises
    BY <1>8 DEF Workflow!Resources
  <2> QED
    BY <1>5, <2>1
<1>6. CASE Workflow!Finish
  <2>1. CASE Workflow!Raises
    BY <2>1, NothingReported DEF Reporting
  <2>2. CASE ~Workflow!Raises
    <3>1. /\ flowPc = "legs" /\ Len(flowSteps) = Len(plan) /\ flowPc' = "done" /\ result' = "returned"
          /\ completed' = TRUE /\ created' = made /\ UNCHANGED <<flowSteps, done, req, plan, made, body>>
      BY <1>6, <2>2 DEF Workflow!Finish, Workflow!Ends
    <3>2. /\ WellFormed(plan) /\ Recorded(flowSteps, plan, done) /\ \A i \in 1..Len(flowSteps) : Fine(flowSteps[i])
          /\ req.op = "create" => body
      BY <3>1 DEF Reporting, InLegs
    <3>3. Workflow!ReportTruthful'
      BY <3>1, <3>2, FinishReported
    <3> QED
      BY <3>1, <3>3 DEF Reporting, Unjudged, InLegs, Ended
  <2> QED
    BY <2>1, <2>2
<1> QED
  BY <1>1, <1>2, <1>3, <1>4, <1>6, <1>7, <1>8
     DEF Workflow!Legs, Workflow!_run_network_leg, Workflow!_map_storage, Workflow!_create_disk, Workflow!_run_power_leg

LEMMA ReportingStep ==
  ASSUME Reporting, [Workflow!Next]_Workflow!vars
  PROVE  Reporting'
<1>1. CASE Workflow!Refuse \/ Workflow!DryRun \/ Workflow!Go
  BY <1>1, Preflight
<1>2. CASE Workflow!Creating
  BY <1>2, PartitionMade, CreateReported, CreateSettles, Judges DEF Workflow!Creating
<1>3. CASE Workflow!Legs
  BY <1>3, LegsReport
<1>4. CASE Workflow!OtherChanges \/ UNCHANGED Workflow!vars
  <2>1. UNCHANGED <<done, req, plan, flowSteps, made, body, flowPc, result, completed, created>>
    BY <1>4 DEF Workflow!OtherChanges, Workflow!vars, Workflow!state, Workflow!ends
  <2> QED
    BY <2>1 DEF Reporting, Unjudged, OneApply, InLegs, WellFormed, Recorded, Ended, Workflow!Creates,
                Workflow!ReportTruthful, Workflow!Status, Workflow!Apply
<1> QED
  BY <1>1, <1>2, <1>3, <1>4 DEF Workflow!Next

\* The types of the HMC and of what the workflow keeps, its report and its steps aside.
Kinds ==
  /\ there \in BOOLEAN /\ made \in BOOLEAN /\ body \in BOOLEAN /\ completed \in BOOLEAN /\ created \in BOOLEAN
  /\ named \in {"it", "another", "none"} /\ stamp \in {"none", "own", "foreign"} /\ stamped \in {"yes", "no", "null"}
  /\ flowPc \in {"preflight", "rest", "cli", "apply", "readback", "stamp", "judge", "legs", "done"}
  /\ result \in {"none", "returned", "dry_run", "refused", "raised"}

LEMMA EndKinds ==
  ASSUME Kinds, made' \in BOOLEAN,
         (\E r, p : Workflow!Fails(r, p)) \/ Workflow!Raises \/ Workflow!Ends("returned", TRUE, made)
           \/ Workflow!Ends("refused", FALSE, FALSE) \/ Workflow!Ends("dry_run", FALSE, FALSE)
  PROVE  /\ flowPc' = "done" /\ completed' \in BOOLEAN /\ created' \in BOOLEAN
         /\ result' \in {"none", "returned", "dry_run", "refused", "raised"}
BY DEF Kinds, Workflow!Fails, Workflow!Raises, Workflow!Ends

LEMMA KindsStep ==
  ASSUME Kinds, [Workflow!Next]_Workflow!vars
  PROVE  Kinds'
<1>1. CASE Workflow!Refuse \/ Workflow!DryRun
  <2>1. /\ UNCHANGED <<there, named, stamp, made, body, stamped>>
        /\ Workflow!Ends("refused", FALSE, FALSE) \/ Workflow!Ends("dry_run", FALSE, FALSE)
    BY <1>1 DEF Workflow!Refuse, Workflow!DryRun, Workflow!hmc, Workflow!state
  <2>2. made' \in BOOLEAN
    BY <2>1 DEF Kinds
  <2> QED
    BY <2>1, <2>2, EndKinds DEF Kinds
<1>2. CASE Workflow!Go
  BY <1>2 DEF Workflow!Go, Workflow!hmc, Workflow!state, Workflow!ends, Kinds
<1>3. ASSUME NEW answered \in BOOLEAN, Workflow!RestCreated(answered) PROVE Kinds'
  BY <1>3 DEF Workflow!RestCreated, Workflow!Appears, Workflow!ends, Kinds
<1>4. CASE Workflow!RestRefused
  BY <1>4 DEF Workflow!RestRefused, Workflow!hmc, Workflow!state, Workflow!ends, Kinds
<1>5. CASE Workflow!CreateFails
  <2>1. /\ UNCHANGED <<made, body, stamped>> /\ (Workflow!Appears \/ UNCHANGED <<there, named, stamp>>)
        /\ (\E r, p : Workflow!Fails(r, p)) \/ Workflow!Raises
    <3>1. (\E r, p : Workflow!Fails(r, p)) \/ Workflow!Raises
      BY <1>5, Zenon DEF Workflow!CreateFails
    <3> QED
      BY <1>5, <3>1 DEF Workflow!CreateFails, Workflow!hmc
  <2>2. made' \in BOOLEAN
    BY <2>1 DEF Kinds
  <2> QED
    BY <2>1, <2>2, EndKinds DEF Kinds, Workflow!Appears
<1>6. CASE Workflow!_create_via_cli
  BY <1>6 DEF Workflow!_create_via_cli, Workflow!Appears, Workflow!ends, Kinds
<1>7. CASE Workflow!_apply_created_profile
  BY <1>7 DEF Workflow!_apply_created_profile, Workflow!hmc, Workflow!ends, Kinds
<1>8. CASE Workflow!ReadBack
  BY <1>8 DEF Workflow!ReadBack, Workflow!hmc, Workflow!ends, Kinds
<1>9. CASE Workflow!Stamp
  BY <1>9 DEF Workflow!Stamp, Workflow!ends, Kinds
<1>10. ASSUME UNCHANGED <<there, named, stamp, made, body, stamped>>,
              \/ (\E r, p : Workflow!Fails(r, p)) \/ Workflow!Raises \/ Workflow!Ends("returned", TRUE, made)
              \/ flowPc' \in {flowPc, "legs"} /\ UNCHANGED Workflow!ends
       PROVE  Kinds'
  <2>1. made' \in BOOLEAN
    BY <1>10 DEF Kinds
  <2>2. CASE (\E r, p : Workflow!Fails(r, p)) \/ Workflow!Raises \/ Workflow!Ends("returned", TRUE, made)
    BY <1>10, <2>1, <2>2, EndKinds DEF Kinds
  <2>3. CASE flowPc' \in {flowPc, "legs"} /\ UNCHANGED Workflow!ends
    BY <1>10, <2>3 DEF Kinds, Workflow!ends
  <2> QED
    BY <1>10, <2>2, <2>3
<1>11. CASE Workflow!Judge
  <2>1. \/ (\E r, p : Workflow!Fails(r, p)) \/ Workflow!Raises
        \/ flowPc' \in {flowPc, "legs"} /\ UNCHANGED Workflow!ends
    BY <1>11, Zenon DEF Workflow!Judge
  <2> QED
    BY <1>10, <1>11, <2>1 DEF Workflow!Judge, Workflow!hmc
<1>12. ASSUME NEW ok, Workflow!Records(ok)
       PROVE  \/ (\E r, p : Workflow!Fails(r, p))
              \/ flowPc' \in {flowPc, "legs"} /\ UNCHANGED Workflow!ends
  BY <1>12, Zenon DEF Workflow!Records
<1>13. CASE Workflow!Legs
  <2>1. \/ (\E r, p : Workflow!Fails(r, p)) \/ Workflow!Raises \/ Workflow!Ends("returned", TRUE, made)
        \/ \E ok : Workflow!Records(ok)
    BY <1>13, Zenon
       DEF Workflow!Legs, Workflow!_run_network_leg, Workflow!_map_storage, Workflow!_create_disk, Workflow!_run_power_leg,
           Workflow!ByUuid, Workflow!_run_policy_leg, Workflow!ByName, Workflow!apply_validated_lpar_pcie_assignments,
           Workflow!_run_affinity_leg, Workflow!Rename, Workflow!Resources, Workflow!Finish
  <2>2. UNCHANGED <<there, named, stamp, made, body, stamped>>
    BY <1>13
       DEF Workflow!Legs, Workflow!_run_network_leg, Workflow!_map_storage, Workflow!_create_disk, Workflow!_run_power_leg,
           Workflow!ByUuid, Workflow!_run_policy_leg, Workflow!apply_validated_lpar_pcie_assignments,
           Workflow!_run_affinity_leg, Workflow!Rename, Workflow!Resources, Workflow!Finish, Workflow!Kept, Workflow!hmc
  <2> QED
    BY <2>1, <2>2, <1>10, <1>12
<1>14. CASE Workflow!OtherChanges
  <2>1. UNCHANGED <<made, body, stamped, flowPc, result, completed, created>>
    BY <1>14 DEF Workflow!OtherChanges, Workflow!state, Workflow!ends
  <2>2. \/ there' = FALSE /\ named' \in {named, "none"} /\ stamp' = stamp
        \/ there' = there /\ named' \in {"none", "another"} /\ stamp' = stamp
        \/ there' = there /\ named' = named /\ stamp' = "foreign"
    BY <1>14, Zenon DEF Workflow!OtherChanges
  <2>3. there' \in BOOLEAN
    BY <2>2, Zenon DEF Kinds
  <2>4. named' \in {"it", "another", "none"} /\ stamp' \in {"none", "own", "foreign"}
    BY <2>2, Zenon DEF Kinds
  <2>5. made' \in BOOLEAN /\ body' \in BOOLEAN /\ completed' \in BOOLEAN /\ created' \in BOOLEAN
    BY <2>1, Zenon DEF Kinds
  <2> QED
    BY <2>1, <2>3, <2>4, <2>5, Zenon DEF Kinds
<1>15. CASE UNCHANGED Workflow!vars
  BY <1>15 DEF Workflow!vars, Workflow!hmc, Workflow!state, Workflow!ends, Kinds
<1> QED
  BY <1>1, <1>2, <1>3, <1>4, <1>5, <1>6, <1>7, <1>8, <1>9, <1>11, <1>13, <1>14, <1>15
     DEF Workflow!Next, Workflow!Creating

\* What was done is in the plan, or is the apply step.
Doing == done \subseteq Workflow!ToSet(plan) \cup {Workflow!Step("apply_profile")}

LEMMA DoingStep ==
  ASSUME Reporting, Doing, [Workflow!Next]_Workflow!vars
  PROVE  Doing'
<1>1. CASE UNCHANGED <<done, plan>>
  BY <1>1 DEF Doing, Workflow!ToSet
<1>2. CASE Workflow!Refuse \/ Workflow!DryRun \/ Workflow!Go \/ Workflow!OtherChanges \/ UNCHANGED Workflow!vars
  BY <1>1, <1>2 DEF Workflow!Refuse, Workflow!DryRun, Workflow!Go, Workflow!OtherChanges, Workflow!vars, Workflow!state
<1>3. CASE Workflow!Creating
  <2>1. CASE Workflow!_apply_created_profile
    <3>1. plan' = plan /\ done' \subseteq done \cup {Workflow!Step("apply_profile")}
      BY <2>1 DEF Workflow!_apply_created_profile
    <3> QED
      BY <3>1 DEF Doing, Workflow!ToSet
  <2>2. CASE Workflow!Judge
    <3>1. done' = done /\ done \subseteq {Applying}
      BY <2>2 DEF Workflow!Judge, Reporting, Unjudged
    <3> QED
      BY <3>1 DEF Doing, Applying
  <2>3. CASE UNCHANGED <<done, plan>>
    BY <1>1, <2>3
  <2> QED
    BY <1>3, <2>1, <2>2, <2>3
       DEF Workflow!Creating, Workflow!RestCreated, Workflow!RestRefused, Workflow!CreateFails, Workflow!_create_via_cli,
           Workflow!ReadBack, Workflow!Stamp, Workflow!state
<1>4. ASSUME NEW name, NEW took, Workflow!AtStep(name), Workflow!Takes(took), plan' = plan PROVE Doing'
  <2>1. Workflow!Next_ \in Workflow!ToSet(plan)
    BY <1>4, Comes
  <2>2. done' \subseteq done \cup {Workflow!Next_}
    BY <1>4 DEF Workflow!Takes
  <2> QED
    BY <1>4, <2>1, <2>2 DEF Doing, Workflow!ToSet
<1>5. CASE Workflow!Legs
  <2>1. plan' = plan
    BY <1>5
       DEF Workflow!Legs, Workflow!_run_network_leg, Workflow!_map_storage, Workflow!_create_disk, Workflow!_run_power_leg,
           Workflow!ByUuid, Workflow!_run_policy_leg, Workflow!apply_validated_lpar_pcie_assignments,
           Workflow!_run_affinity_leg, Workflow!Rename, Workflow!Resources, Workflow!Finish, Workflow!Kept
  <2>2. UNCHANGED done \/ \E name, took : Workflow!AtStep(name) /\ Workflow!Takes(took)
    BY <1>5, Zenon
       DEF Workflow!Legs, Workflow!_run_network_leg, Workflow!_map_storage, Workflow!_create_disk, Workflow!_run_power_leg,
           Workflow!ByUuid, Workflow!_run_policy_leg, Workflow!ByName, Workflow!apply_validated_lpar_pcie_assignments,
           Workflow!_run_affinity_leg, Workflow!Rename, Workflow!Resources, Workflow!Finish
  <2> QED
    BY <1>1, <1>4, <2>1, <2>2
<1> QED
  BY <1>2, <1>3, <1>5 DEF Workflow!Next

LEMMA RivalsStep ==
  ASSUME Workflow!WorkflowAssumption, rivals \in 0..MaxOthers, [Workflow!Next]_Workflow!vars
  PROVE  rivals' \in 0..MaxOthers
<1>1. CASE Workflow!OtherChanges
  <2>1. MaxOthers \in Nat /\ rivals < MaxOthers /\ rivals' = rivals + 1
    BY <1>1 DEF Workflow!OtherChanges, Workflow!WorkflowAssumption
  <2> QED
    BY <2>1
<1>2. CASE ~Workflow!OtherChanges
  <2>1. rivals' = rivals
    BY <1>2
       DEF Workflow!Next, Workflow!vars, Workflow!Refuse, Workflow!DryRun, Workflow!Go, Workflow!Creating, Workflow!RestCreated,
           Workflow!RestRefused, Workflow!CreateFails, Workflow!_create_via_cli, Workflow!_apply_created_profile,
           Workflow!ReadBack, Workflow!Stamp, Workflow!Judge,
           Workflow!Legs, Workflow!_run_network_leg, Workflow!_map_storage, Workflow!_create_disk, Workflow!_run_power_leg,
           Workflow!ByUuid, Workflow!_run_policy_leg, Workflow!apply_validated_lpar_pcie_assignments,
           Workflow!_run_affinity_leg, Workflow!Rename, Workflow!Resources, Workflow!Finish, Workflow!Kept
  <2> QED
    BY <2>1
<1> QED
  BY <1>1, <1>2

LEMMA WorkflowStep ==
  ASSUME Workflow!WorkflowAssumption, WorkflowInv, [Workflow!Next]_Workflow!vars
  PROVE  WorkflowInv'
<1>1. Kinds /\ Doing /\ rivals \in 0..MaxOthers /\ req \in Workflow!Request /\ Workflow!Askable(req)
  BY DEF WorkflowInv, Workflow!WorkflowTypeOK, Kinds, Doing
<1>2. Reporting'
  BY ReportingStep DEF WorkflowInv
<1>3. Kinds' /\ Doing' /\ rivals' \in 0..MaxOthers
  BY <1>1, KindsStep, DoingStep, RivalsStep DEF WorkflowInv
<1>4. req' = req
  BY DEF Workflow!Next, Workflow!vars, Workflow!state, Workflow!Refuse, Workflow!DryRun, Workflow!Go, Workflow!Creating,
         Workflow!RestCreated, Workflow!RestRefused, Workflow!CreateFails, Workflow!_create_via_cli,
         Workflow!_apply_created_profile, Workflow!ReadBack, Workflow!Stamp, Workflow!Judge,
         Workflow!Legs, Workflow!_run_network_leg, Workflow!_map_storage, Workflow!_create_disk, Workflow!_run_power_leg,
         Workflow!ByUuid, Workflow!_run_policy_leg, Workflow!apply_validated_lpar_pcie_assignments,
         Workflow!_run_affinity_leg, Workflow!Rename, Workflow!Resources, Workflow!Finish, Workflow!Kept, Workflow!OtherChanges
<1>5. \A i \in 1..Len(flowSteps') : flowSteps'[i].status \in Workflow!Statuses
  <2>1. \A s \in Seq(Recs) : \A i \in 1..Len(s) : s[i].status \in Workflow!Statuses
    <3> SUFFICES ASSUME NEW s \in Seq(Recs), NEW i \in 1..Len(s) PROVE s[i].status \in Workflow!Statuses
      OBVIOUS
    <3>1. s[i] \in Recs
      OBVIOUS
    <3> QED
      BY <3>1 DEF Recs
  <2> QED
    BY <1>2, <2>1 DEF Reporting
<1>6. Workflow!WorkflowTypeOK'
  BY <1>1, <1>3, <1>4, <1>5 DEF Workflow!WorkflowTypeOK, Kinds, Doing, Workflow!Askable
<1> QED
  BY <1>2, <1>6 DEF WorkflowInv

-----------------------------------------------------------------------------
(* The workflows side by side.                                               *)

WritesInv == (which = "storage" => StorageInv) /\ (which = "mutation" => MutationInv)

LEMMA WritesAssumed == Storage!StorageAssumption /\ Mutation!MutationAssumption
BY WorkflowsAssumption

LEMMA StorageRuns ==
  ASSUME [WorkflowsNext]_<<which, vars, storageVars, pcieVars, workflowVars, mutationVars>>, which = "storage"
  PROVE  [Storage!Next]_Storage!vars /\ which' = which
BY DEF WorkflowsNext, storageVars, Storage!vars, Storage!hmc, Storage!edits, Storage!history

LEMMA MutationRuns ==
  ASSUME [WorkflowsNext]_<<which, vars, storageVars, pcieVars, workflowVars, mutationVars>>, which = "mutation"
  PROVE  [Mutation!Next]_Mutation!vars /\ which' = which
BY DEF WorkflowsNext, mutationVars, Mutation!vars, Mutation!hmc, Mutation!past

LEMMA WritesHold == WorkflowsSpec => []WritesInv
<1>1. WorkflowsInit => WritesInv
  BY WritesAssumed, StorageStarts, MutationStarts DEF WorkflowsInit, WritesInv
<1>2. WritesInv /\ [WorkflowsNext]_<<which, vars, storageVars, pcieVars, workflowVars, mutationVars>> => WritesInv'
  <2> SUFFICES ASSUME WritesInv, [WorkflowsNext]_<<which, vars, storageVars, pcieVars, workflowVars, mutationVars>>
               PROVE  WritesInv'
    OBVIOUS
  <2>1. CASE which = "storage"
    BY <2>1, WritesAssumed, StorageRuns, StorageStep DEF WritesInv
  <2>2. CASE which = "mutation"
    BY <2>2, WritesAssumed, MutationRuns, MutationStep DEF WritesInv
  <2>3. CASE which \notin {"storage", "mutation"}
    <3>1. which' = which
      BY DEF WorkflowsNext
    <3> QED
      BY <2>3, <3>1 DEF WritesInv
  <2> QED
    BY <2>1, <2>2, <2>3
<1> QED
  BY <1>1, <1>2, PTL DEF WorkflowsSpec

\* A storage call reports what came of its own write, and a call that changes a partition
\* did what it says it did, touched nothing it refused, and warned of every adapter its start
\* dropped; whatever the calls, the callers and what anybody else does in between
\* (operations/storage/*, operations/lpar/core.py, configuration.py, migration.py).
THEOREM CallsHonestAlways == WorkflowsSpec => []CallsHonest
<1>1. WritesInv => CallsHonest
  <2>1. MutationInv => Mutation!MutationTold
    BY DEF MutationInv, Right, Mutation!MutationTold
  <2> QED
    BY <2>1, StorageHonest DEF WritesInv, CallsHonest
<1> QED
  BY <1>1, WritesHold, PTL

\* A storage write changes what was asked for and nothing else, and no call writes a
\* partition that it was not let to change, did not resolve or had not validated, or undoes
\* there what it did not mean to change (client_lpars.py, operations/lpar/ownership.py).
THEOREM WritesConfinedAlways == WorkflowsSpec => WritesConfined
<1>1. WritesInv /\ WritesInv' /\ [WorkflowsNext]_<<which, vars, storageVars, pcieVars, workflowVars, mutationVars>>
        => [/\ which = "storage" => Storage!Confined
            /\ which = "mutation" => Mutation!Rightful']_<<group, maps, wrong>>
  <2> SUFFICES ASSUME WritesInv, WritesInv',
                      [WorkflowsNext]_<<which, vars, storageVars, pcieVars, workflowVars, mutationVars>>
               PROVE  /\ which = "storage" => Storage!Confined
                      /\ which = "mutation" => Mutation!Rightful'
    OBVIOUS
  <2>1. which = "storage" => Storage!Confined
    BY WritesAssumed, StorageRuns, StorageConfined DEF WritesInv
  <2>2. which = "mutation" => Mutation!Rightful'
    BY MutationRuns DEF WritesInv, MutationInv, Mutation!Rightful
  <2> QED
    BY <2>1, <2>2
<1> QED
  BY <1>1, WritesHold, PTL DEF WorkflowsSpec, WritesConfined

LEMMA WorkflowHolds == WorkflowsSpec => [](which = "workflow" => WorkflowInv)
<1> DEFINE P == which = "workflow" => WorkflowInv
<1>0. Workflow!WorkflowAssumption
  BY WorkflowsAssumption
<1>1. WorkflowsInit => P
  BY <1>0, WorkflowStarts DEF WorkflowsInit
<1>2. P /\ [WorkflowsNext]_<<which, vars, storageVars, pcieVars, workflowVars, mutationVars>> => P'
  <2> SUFFICES ASSUME P, [WorkflowsNext]_<<which, vars, storageVars, pcieVars, workflowVars, mutationVars>>,
                      which' = "workflow"
               PROVE  WorkflowInv'
    OBVIOUS
  <2>1. which = "workflow" /\ [Workflow!Next]_Workflow!vars
    BY DEF WorkflowsNext, workflowVars, Workflow!vars, Workflow!hmc, Workflow!state, Workflow!ends
  <2> QED
    BY <1>0, <2>1, WorkflowStep
<1> QED
  BY <1>1, <1>2, PTL DEF WorkflowsSpec

\* A report accounts for every step of the request once and in order, says ok of what was
\* done and skipped of what was not, and calls complete what lacks nothing, wherever the
\* workflow stopped and whatever anybody else did to the partition (operations/lpar/provision.py,
\* workflows.py, dlpar.py, assignments.py).
THEOREM ReportTruthfulAlways == WorkflowsSpec => []ReportTruthful
<1>1. (which = "workflow" => WorkflowInv) => ReportTruthful
  BY DEF WorkflowInv, Reporting, ReportTruthful
<1> QED
  BY <1>1, WorkflowHolds, PTL

LEMMA DecommissionHolds == WorkflowsSpec => []IInv
<1>1. WorkflowsInit => IInv
  BY InitInv DEF WorkflowsInit
<1>2. IInv /\ [WorkflowsNext]_<<which, vars, storageVars, pcieVars, workflowVars, mutationVars>> => IInv'
  <2> SUFFICES ASSUME IInv, [WorkflowsNext]_<<which, vars, storageVars, pcieVars, workflowVars, mutationVars>>
               PROVE  IInv'
    OBVIOUS
  <2>1. [Next]_vars
    BY DEF WorkflowsNext
  <2> QED
    BY <2>1, Inductive
<1> QED
  BY <1>1, <1>2, PTL DEF WorkflowsSpec

\* Every variable of the component that runs keeps its type: the partitions, adapters and
\* storage of the HMC, the calls' positions in their handlers, their drafts and their reports.
THEOREM TypesOKAlways == WorkflowsSpec => []TypesOK
<1>1. MutationInv => Mutation!MutationTypeOK
  <2> SUFFICES ASSUME MutationInv PROVE Mutation!MutationTypeOK
    OBVIOUS
  <2>1. \A u \in Uuids : lpar[u] \in Partitions
    BY DEF MutationInv, MutationTyped
  <2>2. \A u \in Uuids : lpar[u].owner \in {"none", "me", "other", "broken"} /\ lpar[u].slots \subseteq User
    BY <2>1 DEF Partitions
  <2>3. \A c \in User : answer[c] \in Answers /\ (answer[c].how # "-") = (commandPc[c] = "end")
    BY DEF MutationInv, MutationTyped, Right, Placed
  <2>4. \A c \in User : answer[c].how \in Hows
    BY <2>3 DEF Answers
  <2>5. \A c \in User : tasks[c].end \in {"-", "ok", "failed"}
    BY DEF MutationInv, MutationTyped
  <2> QED
    BY <2>2, <2>3, <2>4, <2>5 DEF Mutation!MutationTypeOK, Hows
<1>2. StorageInv => Storage!StorageTypeOK
  BY DEF StorageInv
<1>3. PcieInv => Pcie!PcieTypeOK
  BY DEF PcieInv
<1>4. IInv /\ WritesInv /\ (which = "pcie" => PcieInv) /\ (which = "workflow" => WorkflowInv) => TypesOK
  BY <1>1, <1>2, <1>3 DEF IInv, WritesInv, WorkflowInv, TypesOK
<1> QED
  BY <1>4, DecommissionHolds, WritesHold, PcieAlways, WorkflowHolds, PTL

=============================================================================
