---------------------------- MODULE ReleaseEvidence ----------------------------
(* What a promotion makes of the live evidence of one operation               *)
(* (scripts/promote_live_observations.py), and what the reader makes of that   *)
(* (scripts/check_capability_inventory.py): each observation that was made     *)
(* again replaces the stored one of its name, the newest one decides, and a    *)
(* release may claim the operation only for evidence of the arm and scenario   *)
(* it declares.                                                                *)
EXTENDS Naturals, FiniteSets

CONSTANTS
  MaxTime,   \* bound: the times observations are of; those of time 0 are older than 90 days
  MaxRows    \* bound: the observations of one window

EvidenceAssumption == MaxTime \in Nat \ {0} /\ MaxRows \in Nat

VARIABLES
  claimed,   \* the release claims the operation
  produced,  \* the observations of the window's arms
  stored,    \* the rows of the catalog at the candidate, one per name
  catalog,   \* the rows that the promotion writes
  pc         \* "read", "written" or "refused"

vars == <<claimed, produced, stored, catalog, pc>>

Ids == 1..2
Results == {"full", "weak", "failed"}   \* passed with all assertions, with fewer, or failed
Passed == {"full", "weak"}
Rows == [id : Ids, time : 0..MaxTime, result : Results, scenario : {"claimed", "other", "stored"},
         closure : {"candidate", "earlier"}]

\* A later time decides, and of the same time the greater name.
Before(a, b) == a.time < b.time \/ (a.time = b.time /\ a.id < b.id)
Newest(rows) == {r \in rows : ~\E s \in rows : Before(r, s)}

\* _rows: an arm's observations are of the candidate's closure, not too old, and each has a
\* name of its own in its arm.
Values == [id : Ids, time : 1..MaxTime, result : Results, scenario : {"claimed", "other"},
           closure : {"candidate"}]
Sidecars ==
  {s \in {{f[i] : i \in 1..n} : <<n, f>> \in
           UNION {{n} \X [1..n -> [arm : {"claimed", "other"}, value : Values]] : n \in 0..MaxRows}} :
     \A o, p \in s : o.arm = p.arm /\ o.value.id = p.value.id => o = p}

Old(i) == {r \in Rows : r.id = i /\ r.scenario = "stored" /\ (r.time = 0 => r.closure = "earlier")}
Catalogs == {a \cup b : a \in {{}} \cup {{r} : r \in Old(1)}, b \in {{}} \cup {{r} : r \in Old(2)}}

-----------------------------------------------------------------------------
(* The promotion.                                                             *)

\* The newest of the options; two that differ and have the same name and time are refused.
Eligible(options, claim) ==
  {o.value : o \in {x \in options : claim => x.arm = "claimed" /\ x.value.scenario = "claimed"}}
Selects(options, claim) == Cardinality(Newest(Eligible(options, claim))) = 1
Select(options, claim) == CHOOSE r \in Newest(Eligible(options, claim)) : TRUE

Again(p) == {o.value.id : o \in p}
Of(p, i) == {o \in p : o.value.id = i}
Latest(p) == {Select(Of(p, i), FALSE) : i \in Again(p)}
Merged(p) == {r \in stored : r.id \notin Again(p)} \cup Latest(p)

\* A newer row that is not current passed evidence hides what is claimed.
Superseded(p) == \E r \in Newest(Merged(p)) : r.result \notin Passed \/ r.closure # "candidate"

\* A passing observation may not replace one that holds more.
Weaker(p) == \E r \in stored, l \in Latest(p) : r.id = l.id /\ r.result = "full" /\ l.result = "weak"

Refuses(p) ==
  \/ \E i \in Again(p) : ~Selects(Of(p, i), FALSE)
  \/ Weaker(p)
  \/ claimed /\ (~Selects(p, TRUE) \/ Select(p, TRUE).result \notin Passed \/ Superseded(p))

Merge ==
  /\ pc = "read" /\ UNCHANGED <<claimed, stored>>
  /\ \E p \in Sidecars :
       /\ produced' = p
       /\ IF Refuses(p) THEN pc' = "refused" /\ UNCHANGED catalog
          ELSE pc' = "written" /\ catalog' = Merged(p)

-----------------------------------------------------------------------------
(* derive_states, the reader of the catalog.                                  *)

Stale(r) == r.closure # "candidate" \/ r.time = 0
Verification ==
  IF catalog = {} THEN "unevidenced"
  ELSE IF \E r \in Newest(catalog) : Stale(r) THEN "stale"
  ELSE IF \E r \in Newest(catalog) : r.result \in Passed THEN "current" ELSE "failed"

Init ==
  /\ claimed \in BOOLEAN /\ produced = {} /\ stored \in Catalogs
  /\ catalog = stored /\ pc = "read"

Next == Merge

Spec == Init /\ [][Next]_vars

-----------------------------------------------------------------------------
(* Properties.                                                                *)

EvidenceTypeOK ==
  /\ claimed \in BOOLEAN /\ stored \subseteq Rows /\ catalog \subseteq Rows
  /\ produced \subseteq [arm : {"claimed", "other"}, value : Rows]
  /\ pc \in {"read", "written", "refused"}

\* What a release claims reads as current when its promotion is written, and rests on a
\* passing observation that the declared arm made of the declared scenario.
EvidenceCurrent ==
  (pc = "written" /\ claimed) =>
    /\ Verification = "current"
    /\ \E o \in produced : o.arm = "claimed" /\ o.value.scenario = "claimed" /\ o.value.result \in Passed

\* Every name is kept, once; a stored row is lost only when it was observed again, and what
\* it had passed then holds again or has failed.
EvidenceKept ==
  pc = "written" =>
    /\ \A r, s \in catalog : r.id = s.id => r = s
    /\ \A r \in stored \ catalog :
         \E l \in catalog \ stored : l.id = r.id /\ (r.result = "full" => l.result # "weak")
    /\ \A o \in produced : \E r \in catalog : r.id = o.value.id /\ ~Before(r, o.value)
=============================================================================
