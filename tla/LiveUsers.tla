------------------------------ MODULE LiveUsers ------------------------------
(* The users arm of the live tests (subtask 11, scripts/live_test/users.py)   *)
(* and its recovery check.  After four reads the arm creates one scratch user *)
(* under a name no one else uses, finds it in a listing whatever the create   *)
(* returned, reads it, modifies it twice, and deletes it by the UUID the      *)
(* listing gave, even when it is interrupted.                                 *)
EXTENDS Naturals

CONSTANTS
  MaxFaults,    \* bound: calls that fail, or take effect without a good answer, and stops
  MaxTouches    \* bound: changes other users make

UsersLiveAssumption == {MaxFaults, MaxTouches} \subseteq Nat

VARIABLES
  (* the console *)
  profile,   \* the scratch user's profile: "none", or the last change made to it
  scratch,   \* a scratch user of another run is listed
  others,    \* the users that were there before are as they were
  flying,    \* what was sent and is not carried out yet
  (* the run *)
  pc,        \* the step
  cut,       \* the run was interrupted, and only deletes
  named,     \* artifacts.test_user_name
  known,     \* the listing that showed the user; run.uuid is that of the first one
  answers,   \* the calls that passed: create, reads and modifies in turn, delete
  shown,     \* what each read showed
  verdict,   \* the observations of create, get, modify and delete, and the cleanup
  checked,   \* the exit of the recovery check: "none", "zero", "left" or "unread"
  (* history *)
  late,      \* the user was made after the run had looked for it
  did,       \* what was carried out for the run
  faults, touches

console == <<profile, scratch, others>>
run     == <<cut, named, known, answers, shown>>
vars == <<console, flying, pc, run, verdict, checked, late, did, faults, touches>>

There == profile # "none"
Fault(c) == (c => faults < MaxFaults) /\ faults' = faults + (IF c THEN 1 ELSE 0)
Answers == [did : BOOLEAN, pass : BOOLEAN]
Observed(ok) == IF ok THEN "passed" ELSE "failed"

\* kept: a call and what it returned.  One that fails may be carried out, now or later.
Call(x, can, what) ==
  /\ (x.pass => x.did) /\ (x.did => can) /\ Fault(can /\ ~x.pass)
  /\ answers' = (IF x.pass THEN answers \cup {what} ELSE answers)
  /\ did' = (IF x.did THEN did \cup {what} ELSE did)
  /\ flying' \in {flying, IF x.did THEN flying ELSE flying \cup {what}}

Calling == UNCHANGED <<scratch, others, cut, named, known, shown, verdict, checked, late, touches>>
Reading == UNCHANGED <<console, flying, cut, named, checked, late, did, touches>>

-----------------------------------------------------------------------------

\* The four reads; without the console, a whole listing of the users and the viewer role,
\* and with a scratch user of an earlier run, nothing is created.
Reads ==
  /\ pc = "reads" /\ Reading /\ UNCHANGED <<known, answers, shown, verdict>>
  /\ \E r \in BOOLEAN : Fault(~r) /\ pc' = IF r /\ ~scratch THEN "create" ELSE "end"

\* The name is stored before the create.
Create ==
  /\ pc = "create" /\ pc' = "list" /\ named' = TRUE
  /\ UNCHANGED <<scratch, others, cut, known, shown, verdict, checked, late, touches>>
  /\ \E x \in Answers : Call(x, ~There, "create") /\ profile' = IF x.did THEN "created" ELSE profile

\* uuid_in: listed whatever the create returned.
Find(step, found, otherwise) ==
  /\ pc = step /\ Reading /\ UNCHANGED <<answers, shown, verdict>>
  /\ \E r \in BOOLEAN :
       /\ (r => There) /\ Fault(There /\ ~r) /\ known' = (IF r THEN step ELSE "no")
       /\ pc' = IF r THEN found ELSE otherwise

\* A read that fails shows nothing.
Read(step, next) ==
  /\ pc = step /\ Reading /\ UNCHANGED <<known, answers, verdict>> /\ pc' = next
  /\ \E r \in BOOLEAN : Fault(There /\ ~r) /\ (r => There)
                        /\ shown' = [shown EXCEPT ![step] = IF r THEN profile ELSE "none"]

Modify(step, to, next) ==
  /\ pc = step /\ Calling /\ pc' = next
  /\ \E x \in Answers : Call(x, There, to) /\ profile' = IF x.did THEN to ELSE profile

\* _delete_scratch_user: by the UUID the listing gave, or gives now.
Delete ==
  /\ pc = "delete" /\ Calling /\ pc' = "final"
  /\ \E x \in Answers : Call(x, There, "delete") /\ profile' = IF x.did THEN "none" ELSE profile

\* What is recorded of an operation that was never called is that it was not reached.
Record(cleaned) ==
  [create |-> Observed("create" \in answers /\ known = "list" /\ shown["read0"] = "created"),
   get    |-> IF known = "list" THEN Observed(shown["read0"] # "none") ELSE "none",
   modify |-> IF known = "list" THEN Observed({"modified", "cleared"} \subseteq answers
                                     /\ shown["read1"] = "modified" /\ shown["read2"] = "cleared")
              ELSE "none",
   delete |-> IF known # "no" THEN Observed("delete" \in answers /\ cleaned) ELSE "none",
   cleanup |-> Observed(cleaned)]

\* Mutant of Final (UsersClean): a listing that could not be read shows no scratch user.
FinalUnread ==
  /\ pc = "final" /\ Reading /\ UNCHANGED <<known, answers, shown>> /\ pc' = "end"
  /\ \E r \in BOOLEAN :
       /\ Fault(~r) /\ verdict' = IF cut THEN verdict ELSE Record(~r \/ (~There /\ ~scratch /\ others))

\* _record_lifecycle, on the final listing; an interrupted run records nothing.
Final ==
  /\ pc = "final" /\ Reading /\ UNCHANGED <<known, answers, shown>> /\ pc' = "end"
  /\ \E r \in BOOLEAN :
       /\ Fault(~r)
       /\ verdict' = IF cut THEN verdict ELSE Record(r /\ ~There /\ ~scratch /\ others)

-----------------------------------------------------------------------------
(* Interrupts, the recovery check, and the HMC and its other users.           *)

\* The finally clause deletes the user all the same.
Interrupt ==
  /\ pc \in {"create", "list", "read0", "modify1", "read1", "modify2", "read2"} /\ Fault(TRUE)
  /\ cut' = TRUE /\ pc' = (IF known = "list" THEN "delete" ELSE "relist") /\ named' = TRUE
  /\ flying' = flying \cup (CASE pc = "create" -> {"create"} [] pc = "modify1" -> {"modified"}
                              [] pc = "modify2" -> {"cleared"} [] OTHER -> {})
  /\ UNCHANGED <<console, known, answers, shown, verdict, checked, late, did, touches>>

Kill ==
  /\ pc \notin {"reads", "end", "checked"} /\ Fault(TRUE) /\ cut' = TRUE /\ pc' = "end"
  /\ UNCHANGED <<console, flying, named, known, answers, shown, verdict, checked, late, did, touches>>

\* users_witnessed and _scratch_users_left: any user with the reserved prefix.
Recover ==
  /\ pc = "end" /\ named /\ pc' = "checked"
  /\ \/ Fault(TRUE) /\ checked' = "unread"
     \/ UNCHANGED faults /\ checked' = IF There \/ scratch THEN "left" ELSE "zero"
  /\ UNCHANGED <<console, flying, run, verdict, late, did, touches>>

Land(x) ==
  /\ pc # "checked" /\ flying' = flying \ {x}
  /\ profile' = CASE x = "create" /\ "create" \notin did -> "created"
                  [] x \in {"modified", "cleared"} /\ There -> x
                  [] x = "delete" -> "none"
                  [] OTHER -> profile
  /\ late' = (late \/ (x = "create" /\ pc \notin {"create", "list", "relist"}))
  /\ did' = did \cup {x}
  /\ UNCHANGED <<scratch, others, pc, run, verdict, checked, faults, touches>>

\* Others change or remove their users, make a scratch user of their own, or remove or
\* change this one.
Touch ==
  /\ pc \notin {"end", "checked"} /\ touches < MaxTouches /\ touches' = touches + 1
  /\ \/ others' = FALSE /\ UNCHANGED <<profile, scratch>>
     \/ scratch' = ~scratch /\ UNCHANGED <<profile, others>>
     \/ There /\ profile' \in {"none", "theirs"} /\ UNCHANGED <<scratch, others>>
  /\ UNCHANGED <<flying, pc, run, verdict, checked, late, did, faults>>

NoVerdict == [op \in {"create", "get", "modify", "delete", "cleanup"} |-> "none"]
Init ==
  /\ profile = "none" /\ scratch \in BOOLEAN /\ others = TRUE /\ flying = {}
  /\ pc = "reads" /\ cut = FALSE /\ named = FALSE /\ known = "no" /\ answers = {}
  /\ shown = [step \in {"read0", "read1", "read2"} |-> "none"] /\ verdict = NoVerdict
  /\ checked = "none" /\ late = FALSE /\ did = {} /\ faults = 0 /\ touches = 0

Next ==
  \/ Reads \/ Create \/ Find("list", "read0", "relist")
  \/ Read("read0", "modify1") \/ Modify("modify1", "modified", "read1")
  \/ Read("read1", "modify2") \/ Modify("modify2", "cleared", "read2")
  \/ Read("read2", "delete") \/ Find("relist", "delete", "final") \/ Delete \/ Final
  \/ Interrupt \/ Kill \/ Recover \/ Touch \/ \E x \in flying : Land(x)

Spec == Init /\ [][Next]_vars

-----------------------------------------------------------------------------
(* Properties.                                                                *)

UsersLiveTypeOK ==
  /\ profile \in {"none", "created", "modified", "cleared", "theirs"}
  /\ {scratch, others, cut, named, late} \subseteq BOOLEAN
  /\ known \in {"no", "list", "relist"}
  /\ answers \cup did \cup flying \subseteq {"create", "modified", "cleared", "delete"}
  /\ checked \in {"none", "zero", "left", "unread"}

\* A user the run leaves is told of by a cleanup that failed or, when the run was stopped, by
\* a document that names it, so that the recovery check looks for it.
UsersLeftTold ==
  pc = "end" /\ There => named /\ (cut \/ verdict["cleanup"] = "failed" \/ late)

\* A cleanup called passed has left no scratch user and changed none of the others; a
\* modification called passed, and what it read back, are the run's own; and a recovery
\* check that exits 0 leaves no scratch user.
UsersClean ==
  /\ verdict["cleanup"] = "passed" => (~There \/ late) /\ others /\ ~scratch
  /\ verdict["modify"] = "passed" => {"modified", "cleared"} \subseteq did
  /\ verdict["create"] = "passed" => "create" \in did
  /\ checked = "zero" => ~There /\ ~scratch

\* Only a user whose name a listing showed to be the run's is deleted.
UsersOwnRemoved == "delete" \in did => known # "no"
=============================================================================
