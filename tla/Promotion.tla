------------------------------- MODULE Promotion -------------------------------
(* The promotion of a release window's observations                           *)
(* (scripts/promote_live_observations.py): the checkout is checked, the       *)
(* results are read against its commit, a new branch is made, the artifacts   *)
(* are written and generated, and what changed, if it is no more than those,  *)
(* is committed.  Nothing is undone: what a promotion that fails leaves, the  *)
(* next one has to refuse.                                                    *)
EXTENDS Naturals, Sequences

CONSTANTS
  MaxTries,     \* bound: promotions that are started in the checkout
  MaxFaults,    \* bound: commands that fail, and stops
  MaxTouches    \* bound: what others do in the checkout

PromotionAssumption == {MaxTries, MaxFaults, MaxTouches} \subseteq Nat

VARIABLES
  (* the checkout; others are 0, and the promotions that were started 1, 2, ... *)
  tree,      \* the changes of the working tree: who made them, and to which files
  index,     \* those that are staged
  commits,   \* what was committed onto the tested commit: by whom, where, and what
  branch,    \* the branch that is checked out: "candidate", or a promotion's
  branches,  \* the promotion branches there are
  (* the promotion *)
  try,       \* which one it is
  pc,        \* the step, "ended" when it is over
  name,      \* the branch it was asked to make
  head,      \* the commits there were when it started
  changed,   \* the files that it is to commit
  exit,      \* "none", "committed" or "refused"
  (* history *)
  late,      \* others did what no check looks for any more
  switched,  \* others have switched back to the branch the promotion started on
  faults, touches

checkout == <<tree, index, commits, branch, branches>>
vars == <<checkout, try, pc, name, head, changed, exit, late, switched, faults, touches>>

Names == {"promotion/a", "promotion/b"}
Kinds == {"artifact", "foreign", "untracked"}
Files(changes) == {c[2] : c \in changes}
Clean == tree = {} /\ index = {}

Fault(c) == (c => faults < MaxFaults) /\ faults' = faults + (IF c THEN 1 ELSE 0)
Stop == pc' = "ended" /\ exit' = "refused"
Goes(ok, next) == IF ok THEN pc' = next /\ UNCHANGED exit ELSE Stop
Still == UNCHANGED <<try, name, late, switched, touches>>
Check(step, fine, next) ==
  /\ pc = step /\ Still /\ UNCHANGED checkout
  /\ \E r \in BOOLEAN : (r => fine) /\ Fault(fine /\ ~r) /\ Goes(r, next)

-----------------------------------------------------------------------------
(* promote.                                                                   *)

\* The tree and the index are clean, and the branch is new.
Candidate ==
  Check("candidate", Clean /\ name \notin branches, "results") /\ head' = Len(commits)
  /\ UNCHANGED changed

\* The results name the commit that is checked out, which is the one they were taken on.
Results == Check("results", head = 0, "clean") /\ UNCHANGED <<head, changed>>

StillClean == Check("clean", Clean, "switch") /\ UNCHANGED <<head, changed>>

\* A command is carried out, and the promotion goes on, or it stops before it or after it.
Command(step, next) ==
  /\ pc = step /\ Still /\ UNCHANGED <<head, changed>>
  /\ \E ok \in BOOLEAN : Fault(~ok) /\ Goes(ok, next)

Switch ==
  /\ Command("switch", "write") /\ UNCHANGED <<tree, index, commits>>
  /\ \/ branch' = name /\ branches' = branches \cup {name}
     \/ pc' = "ended" /\ UNCHANGED <<branch, branches>>

\* Each of the two documents is replaced as a whole.
Write ==
  /\ Command("write", "regenerate") /\ UNCHANGED <<index, commits, branch, branches>>
  /\ \/ tree' = tree \cup {<<try, "artifact">>}
     \/ UNCHANGED tree

\* The generators may change more than the artifacts.
Regenerate ==
  /\ Command("regenerate", "diff") /\ UNCHANGED <<index, commits, branch, branches>>
  /\ \E more \in SUBSET Kinds : tree' = tree \cup ({try} \X more)

\* _commit: nothing untracked, no more than the artifacts, and no commit in between.
Diff ==
  /\ changed' = Files(tree \cup index) /\ UNCHANGED head
  /\ Check("diff", Files(tree \cup index) = {"artifact"} /\ Len(commits) = head, "add")

Add ==
  /\ Command("add", "staged") /\ UNCHANGED <<commits, branch, branches>>
  /\ \/ /\ index' = index \cup {c \in tree : c[2] \in changed}
        /\ tree' = {c \in tree : c[2] \notin changed}
     \/ pc' = "ended" /\ UNCHANGED <<index, tree>>

Staged == Check("staged", Files(index) = changed, "commit") /\ UNCHANGED <<head, changed>>

Commit ==
  /\ Command("commit", "post") /\ UNCHANGED <<tree, branch, branches>>
  /\ \/ index # {} /\ commits' = Append(commits, [by |-> try, on |-> branch, what |-> index]) /\ index' = {}
     \/ pc' = "ended" /\ UNCHANGED <<commits, index>>

Post ==
  /\ pc = "post" /\ Still /\ UNCHANGED <<checkout, head, changed>>
  /\ \E r \in BOOLEAN :
       LET fine == Files(commits[Len(commits)].what) \subseteq {"artifact"} /\ Clean
       IN (r => fine) /\ Fault(fine /\ ~r) /\ pc' = "ended" /\ exit' = IF r THEN "committed" ELSE "refused"

-----------------------------------------------------------------------------
(* The operator's next try, and what others do.                               *)

Retry ==
  /\ pc = "ended" /\ try < MaxTries /\ try' = try + 1 /\ pc' = "candidate" /\ exit' = "none"
  /\ name' \in Names /\ head' = 0 /\ changed' = {} /\ late' = FALSE
  /\ UNCHANGED <<checkout, switched, faults, touches>>

\* Others change or stage a file, commit, or switch back, which nothing looks for; a change
\* to an artifact is not told from the promotion's own, and after the last look at HEAD and
\* the index nothing is.
Touch ==
  /\ pc # "ended" /\ touches < MaxTouches /\ touches' = touches + 1
  /\ \/ \E f \in Kinds :
          /\ \/ tree' = tree \cup {<<0, f>>} /\ UNCHANGED <<index, commits>>
             \/ index' = index \cup {<<0, f>>} /\ UNCHANGED <<tree, commits>>
             \/ commits' = Append(commits, [by |-> 0, on |-> branch, what |-> {<<0, f>>}])
                /\ UNCHANGED <<tree, index>>
          /\ UNCHANGED <<branch, switched>>
     \/ branch # "candidate" /\ branch' = "candidate" /\ switched' = TRUE
        /\ UNCHANGED <<tree, index, commits>>
  /\ late' = (late \/ pc \in {"add", "staged", "commit", "post"}
                   \/ (pc \in {"switch", "write", "regenerate", "diff"} /\ <<0, "artifact">> \in tree' \cup index'))
  /\ UNCHANGED <<branches, try, pc, name, head, changed, exit, faults>>

Init ==
  /\ tree = {} /\ index = {} /\ commits = <<>> /\ branch = "candidate" /\ branches = {}
  /\ try = 1 /\ pc = "candidate" /\ name \in Names /\ head = 0 /\ changed = {} /\ exit = "none"
  /\ late = FALSE /\ switched = FALSE /\ faults = 0 /\ touches = 0

Next ==
  \/ Candidate \/ Results \/ StillClean \/ Switch \/ Write \/ Regenerate
  \/ Diff \/ Add \/ Staged \/ Commit \/ Post \/ Retry \/ Touch

Spec == Init /\ [][Next]_vars

-----------------------------------------------------------------------------
(* Properties.                                                                *)

PromotionTypeOK ==
  /\ tree \cup index \subseteq (0..MaxTries) \X Kinds /\ try \in 1..(MaxTries + 1)
  /\ branch \in Names \cup {"candidate"} /\ branches \subseteq Names /\ name \in Names
  /\ changed \subseteq Kinds /\ exit \in {"none", "committed", "refused"} /\ {late, switched} \subseteq BOOLEAN

\* A promotion that reports its commit has made it, on its branch, and, unless somebody
\* interfered after the last check, of nothing but artifacts and on the tested commit.
PromotionTrue ==
  (pc = "ended" /\ exit = "committed") =>
    \E i \in DOMAIN commits :
      /\ commits[i].by = try /\ (switched \/ (commits[i].on = name /\ branch = name))
      /\ late \/ (i = 1 /\ Files(commits[i].what) = {"artifact"})

\* What a promotion wrote and did not commit is on its branch, where it says to look for it,
\* unless somebody switched.
PromotionLeftTold ==
  \A c \in tree \cup index :
    c[1] # 0 => /\ branch # "candidate" \/ switched
                /\ c[1] < try \/ exit # "committed" \/ late

\* No promotion commits on the branch it was started on, unless somebody switched back, or
\* what another one or, while the checks still look, somebody else has changed; and only one
\* commits onto the tested commit.
PromotionOwn ==
  /\ \A i \in DOMAIN commits :
       commits[i].by # 0 =>
         /\ commits[i].on # "candidate" \/ switched
         /\ commits[i].by = try /\ ~late => \A c \in commits[i].what : c[1] = try
         /\ \A j \in DOMAIN commits : commits[j].by # 0 => i = j
=============================================================================
