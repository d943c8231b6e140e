---------------------------- MODULE LparMutation ----------------------------
(* The calls that change one partition (operations/lpar): create, rename,      *)
(* resize, describe, set a CLI attribute, add an adapter, power, migrate and   *)
(* delete.  A call resolves its selector, reads the partition's name, and with *)
(* that name its ownership stamp; then it writes, by UUID over REST or by name *)
(* over the CLI.  Other calls and other users change names, stamps and states  *)
(* between any two steps.  Everything is on one managed system, whose names    *)
(* the HMC keeps unique.                                                       *)
EXTENDS Naturals

CONSTANTS
  Callers,
  Uuids,
  Names,
  Target, Bystander,  \* the names of the partitions there are in the beginning
  Requests,    \* what may be asked for: [op, sel, name, override, form]
  Guard,       \* authorize_power_operations
  MaxTurns     \* bound: calls, and changes other users make

\* No name is a UUID, and a call that gives a partition a name says which.
MutationAssumption ==
  /\ Guard \in BOOLEAN /\ MaxTurns \in Nat
  /\ {Target, Bystander} \subseteq Names /\ Target # Bystander
  /\ Names \cap Uuids = {} /\ "-" \notin Names \cup Uuids \cup Callers
  /\ Requests \subseteq
       [op : {"create", "rename", "size", "modify", "describe", "sync", "adapter", "delete", "on", "off", "migrate"},
        sel : Names \cup Uuids \cup {"-"}, name : Names \cup {"-"}, override : BOOLEAN,
        form : {"-", "plain", "stamp", "profile", "forced", "unwaited", "validated", "required", "all"}]
  /\ \A r \in Requests :
       /\ r.op \in {"create", "rename", "modify"} => r.name \in Names
       /\ r.form = "profile" => r.op = "on"
       /\ r.form = "validated" => r.op = "migrate"

VARIABLES
  lpar,        \* the partitions of the system: name "-" where there is none
  job,         \* the job a call submitted, and how it ended
  call,        \* what was asked for
  pc,
  uid,         \* the partition the selector resolved to, or the one a create made
  label,       \* its name as read: what the CLI writes to
  draft,       \* the partition as the call last read it
  answer,      \* how the call ended, and the steps and warnings it returned
  (* history *)
  since,       \* partitions that others named, stamped or changed since the call began
  did,         \* what the call brought about
  valid,       \* partitions whose migration the call validated
  wrong,       \* changes that were not the call's to make
  turns

hmc   == <<lpar, job>>
past  == <<since, did, valid, wrong>>
vars  == <<hmc, call, pc, uid, label, draft, answer, past, turns>>

Absent  == [name |-> "-", owner |-> "none", on |-> FALSE, sync |-> FALSE, size |-> "-",
            slots |-> {}, kept |-> {}]
NoJob   == [op |-> "-", uuid |-> "-", end |-> "-"]
Idle    == [op |-> "-", sel |-> "-", name |-> "-", override |-> FALSE, form |-> "-"]

There(u) == lpar[u].name # "-"
Called(n) == {u \in Uuids : There(u) /\ lpar[u].name = n}
Foreign(p) == p.owner \in {"other", "broken"}
ByName == {"describe", "sync"}
Power  == {"on", "off"}
At(c, step) == pc[c] = step
Goes(c, step) == pc' = [pc EXCEPT ![c] = step]
Steps(c) == answer[c].steps

\* A call ends: "refused" says that nothing was written, "error" says nothing.
Ends(c, how) == answer' = [answer EXCEPT ![c].how = how] /\ Goes(c, "end")
Done(c, steps) == answer' = [answer EXCEPT ![c] = [how |-> "done", steps |-> @.steps \cup steps]] /\ Goes(c, "end")
Read(c) == UNCHANGED <<hmc, call, past, turns>>
Write(c) == UNCHANGED <<call, label, draft, turns>>
NoEffect == UNCHANGED <<lpar, past>>

\* What is wrong with c's making u what r says; what others changed since the call began
\* excuses all of it but losing their change.
Harm(c, u, r) ==
  {k \in {"foreign", "aim", "lost", "unowned", "unvalidated"} :
     /\ k = "lost" \/ u \notin since[c]
     /\ CASE k = "foreign" -> Foreign(lpar[u]) /\ ~call[c].override /\ (call[c].op \in Power => Guard)
          [] k = "aim"     -> u # uid[c]
          [] k = "lost"    -> /\ call[c].op \in {"rename", "size", "modify"}
                              /\ r \notin {[lpar[u] EXCEPT !.name = call[c].name], [lpar[u] EXCEPT !.size = c]}
          [] k = "unowned" -> call[c].op = "describe" /\ lpar[u].owner # "none" /\ r.owner = "none" /\ ~call[c].override
          [] k = "unvalidated" -> call[c].op = "migrate" /\ call[c].form = "validated" /\ u \notin valid[c]}

\* c makes u what r says, and that is x.
Effect(c, u, r, x) ==
  /\ lpar' = [lpar EXCEPT ![u] = r] /\ UNCHANGED valid
  /\ did' = [did EXCEPT ![c] = @ \cup {x}] /\ wrong' = wrong \cup Harm(c, u, r)
  /\ since' = [d \in Callers |-> IF d = c \/ r = lpar[u] THEN since[d] ELSE since[d] \cup {u}]

-----------------------------------------------------------------------------
(* Who may change what (resource_identity.py, operations/lpar/ownership.py).  *)

\* What follows the authorization.
After(c) ==
  CASE call[c].op \in {"rename", "size", "modify"} -> "get"
    [] call[c].op \in ByName -> "write"
    [] call[c].op = "adapter" -> "where"
    [] call[c].op = "delete" \/ (call[c].op = "on" /\ call[c].form # "forced") -> "state"
    [] OTHER -> "submit"

Begin(c) ==
  /\ call[c] = Idle /\ turns < MaxTurns /\ turns' = turns + 1
  /\ \E r \in Requests :
       /\ call' = [call EXCEPT ![c] = r]
       /\ Goes(c, IF r.op = "create" THEN "exists" ELSE IF r.form = "validated" THEN "find" ELSE "resolve")
  /\ since' = [since EXCEPT ![c] = {}]
  /\ UNCHANGED <<hmc, uid, label, draft, answer, did, valid, wrong>>

\* resolve_lpar_uuid: a name of the system's feed, or a UUID that is in it.
Resolve(c, step, next) ==
  /\ At(c, step) /\ Read(c) /\ UNCHANGED <<label, draft>>
  /\ LET found == Called(call[c].sel) \cup {u \in Uuids : u = call[c].sel /\ There(u)} IN
     IF found = {} THEN Ends(c, "refused") /\ UNCHANGED uid
     ELSE uid' = [uid EXCEPT ![c] = CHOOSE u \in found : TRUE] /\ Goes(c, next) /\ UNCHANGED answer

\* lpar_name_from_uuid.
ReadName(c) ==
  /\ At(c, "name") /\ Read(c) /\ UNCHANGED <<uid, draft>>
  /\ IF ~There(uid[c]) THEN Ends(c, "refused") /\ UNCHANGED label
     ELSE /\ label' = [label EXCEPT ![c] = lpar[uid[c]].name] /\ UNCHANGED answer
          /\ Goes(c, IF call[c].override THEN After(c) ELSE "owner")

\* authorize_lpar_mutation: the stamp of what has the name now; a stamp that does not
\* parse, or a read that fails, refuses.
Authorize(c) ==
  /\ At(c, "owner") /\ Read(c) /\ UNCHANGED <<uid, label>>
  /\ \/ (\A u \in Called(label[c]) : Foreign(lpar[u])) /\ Ends(c, "refused") /\ UNCHANGED draft
     \/ \E u \in Called(label[c]) : /\ ~Foreign(lpar[u]) /\ draft' = [draft EXCEPT ![c] = lpar[u]]
                                    /\ Goes(c, After(c)) /\ UNCHANGED answer

-----------------------------------------------------------------------------
(* The whole partition, read and written back (client_lpars.py); adapters and *)
(* state, which are no part of the document, stay what they are.              *)

Partial(c, how) == IF "rename" \in Steps(c) THEN "partial" ELSE how

Get(c) ==
  /\ At(c, "get") /\ Read(c) /\ UNCHANGED <<uid, label>>
  /\ \/ Ends(c, Partial(c, "refused")) /\ UNCHANGED draft
     \/ /\ There(uid[c]) /\ draft' = [draft EXCEPT ![c] = lpar[uid[c]]]
        /\ Goes(c, "post") /\ UNCHANGED answer

Renames(c) == call[c].op = "rename" \/ (call[c].op = "modify" /\ "rename" \notin Steps(c))
Document(p) == <<p.name, p.owner, p.sync, p.size>>
Changed(c) ==
  LET p == [lpar[uid[c]] EXCEPT !.name = draft[c].name, !.owner = draft[c].owner,
                                !.sync = draft[c].sync, !.size = draft[c].size] IN
  IF Renames(c) THEN [p EXCEPT !.name = call[c].name] ELSE [p EXCEPT !.size = c]

\* If-Match: the partition is still as it was read.
Matches(c) == There(uid[c]) /\ Document(lpar[uid[c]]) = Document(draft[c])

\* update_logical_partition; no two partitions of a system have one name.
Post(c) ==
  LET x == IF Renames(c) THEN "rename" ELSE "size" IN
  /\ At(c, "post") /\ Write(c) /\ UNCHANGED <<uid, job>>
  /\ \/ /\ Matches(c) /\ (Renames(c) => Called(call[c].name) = {})
        /\ Effect(c, uid[c], Changed(c), x)
        /\ \/ Ends(c, Partial(c, "error"))
           \/ IF call[c].op = "modify" /\ x = "rename"
              THEN answer' = [answer EXCEPT ![c].steps = {x}] /\ Goes(c, "get")
              ELSE Done(c, {x})
     \/ ~Matches(c) /\ NoEffect /\ Ends(c, Partial(c, "refused"))
     \/ NoEffect /\ Ends(c, Partial(c, "error"))

-----------------------------------------------------------------------------
(* Writes by name (configuration.py, ownership.py, ssh/profiles.py).          *)

\* set_lpar_ownership_description: plain text goes after the stamp that was read; an
\* override reads none.
Stamp(c) ==
  CASE call[c].form = "stamp" -> "me"
    [] call[c].form # "stamp" /\ call[c].override -> "none"
    [] OTHER -> draft[c].owner

WriteNamed(c) ==
  /\ At(c, "write") /\ Write(c) /\ UNCHANGED <<uid, job>>
  /\ \/ \E u \in Called(label[c]) :
          /\ Effect(c, u, IF call[c].op = "sync" THEN [lpar[u] EXCEPT !.sync = ~@]
                          ELSE [lpar[u] EXCEPT !.owner = Stamp(c)], call[c].op)
          /\ Done(c, {}) \/ Ends(c, "error")
     \/ NoEffect /\ Ends(c, "error")

-----------------------------------------------------------------------------
(* Adapters (operations/virtualization/adapters.py) and deletion (core.py).   *)

\* read_change_location, before the write.
Where(c) ==
  /\ At(c, "where") /\ Read(c) /\ UNCHANGED <<uid, label>>
  /\ \/ Ends(c, "refused") /\ UNCHANGED draft
     \/ /\ There(uid[c]) /\ draft' = [draft EXCEPT ![c] = lpar[uid[c]]]
        /\ Goes(c, "add") /\ UNCHANGED answer

AddAdapter(c) ==
  /\ At(c, "add") /\ Write(c) /\ UNCHANGED <<uid, job>>
  /\ \/ LET u == uid[c] synced == lpar[u].sync IN
        /\ There(u)
        /\ Effect(c, u, [lpar[u] EXCEPT !.slots = @ \cup {c}, !.kept = IF synced THEN @ \cup {c} ELSE @],
                  IF synced THEN "kept" ELSE "adapter")
        /\ Done(c, IF draft[c].sync THEN {"kept"} ELSE {}) \/ Ends(c, "error")
     \/ NoEffect /\ Ends(c, "error")

\* delete_lpar and power_lpar read the state first.
State(c) ==
  /\ At(c, "state") /\ Read(c) /\ UNCHANGED <<uid, label, draft>>
  /\ \/ Ends(c, "refused")
     \/ There(uid[c]) /\ lpar[uid[c]].on /\ call[c].op = "on" /\ Ends(c, "already")
     \/ /\ There(uid[c]) /\ ~lpar[uid[c]].on /\ UNCHANGED answer
        /\ Goes(c, IF call[c].op = "delete" THEN "erase" ELSE IF call[c].form = "profile" THEN "lacks" ELSE "submit")

\* The HMC deletes no activated partition.
Erase(c) ==
  /\ At(c, "erase") /\ Write(c) /\ UNCHANGED <<uid, job>>
  /\ \/ /\ There(uid[c]) /\ ~lpar[uid[c]].on /\ Effect(c, uid[c], Absent, "delete")
        /\ Done(c, {}) \/ Ends(c, "error")
     \/ NoEffect /\ Ends(c, "error")

-----------------------------------------------------------------------------
(* Power (core.py) and migration (migration.py).                              *)

\* profile_adapter_warnings: the adapters the profile lacks, or that the check did not
\* run, which may be any.
Lacks(c) ==
  /\ At(c, "lacks") /\ Read(c) /\ UNCHANGED <<uid, label, draft>> /\ Goes(c, "submit")
  /\ \E w \in {lpar[uid[c]].slots \ lpar[uid[c]].kept, Callers} : answer' = [answer EXCEPT ![c].steps = w]

\* The validation of a migration is waited for, and what did not succeed ends the call.
\* The selector is then resolved anew.
Validate(c) ==
  /\ At(c, "validate") /\ UNCHANGED <<hmc, call, uid, label, draft, since, did, wrong, turns>>
  /\ \/ /\ There(uid[c]) /\ valid' = [valid EXCEPT ![c] = @ \cup {uid[c]}]
        /\ Goes(c, "resolve") /\ UNCHANGED answer
     \/ UNCHANGED valid /\ Ends(c, "refused")

Submit(c) ==
  /\ At(c, "submit") /\ Write(c) /\ UNCHANGED uid
  /\ \/ /\ There(uid[c]) /\ job' = [job EXCEPT ![c] = [op |-> call[c].op, uuid |-> uid[c], end |-> "-"]]
        /\ Effect(c, uid[c], lpar[uid[c]], IF lpar[uid[c]].on THEN "lit" ELSE "submit")
        /\ \/ Ends(c, "error")
           \/ IF call[c].form = "unwaited" THEN Ends(c, "submitted") ELSE Goes(c, "wait") /\ UNCHANGED answer
     \/ NoEffect /\ UNCHANGED job /\ Ends(c, "error")

\* The HMC runs the job.  A start works from off only, and one that did not work may
\* still be called a success; it may drop the adapters its profile lacks.
Run(c) ==
  LET u == job[c].uuid  starts == job[c].op = "on" IN
  /\ job[c].op # "-" /\ job[c].end = "-"
  /\ \/ job' = [job EXCEPT ![c].end = "failed"] /\ UNCHANGED <<lpar, did>>
     \/ starts /\ There(u) /\ job' = [job EXCEPT ![c].end = "ok"] /\ UNCHANGED <<lpar, did>>
     \/ /\ There(u) /\ (starts => ~lpar[u].on) /\ job' = [job EXCEPT ![c].end = "ok"]
        /\ LET p == IF starts /\ call[c].form = "profile" THEN lpar[u].kept ELSE lpar[u].slots
               lost == lpar[u].slots \ (p \cup Steps(c)) IN
           /\ lpar' = [lpar EXCEPT ![u].on = IF job[c].op \in Power THEN starts ELSE @, ![u].slots = p]
           /\ did' = [d \in Callers |->
                        did[d] \cup (IF d = c THEN {"ran"} ELSE {}) \cup (IF starts /\ uid[d] = u THEN {"lit"} ELSE {})
                               \cup (IF d = c /\ lost # {} /\ u \notin since[c] THEN {"loss"} ELSE {})]
  /\ UNCHANGED <<call, pc, uid, label, draft, answer, since, valid, wrong, turns>>

\* wait_for_submitted_job.
Wait(c) ==
  /\ At(c, "wait") /\ Read(c) /\ UNCHANGED <<uid, label, draft>>
  /\ \/ Ends(c, "timeout")
     \/ job[c].end = "failed" /\ Ends(c, "failed")
     \/ job[c].end = "ok" /\ (IF call[c].op = "on" THEN Goes(c, "active") /\ UNCHANGED answer ELSE Done(c, {}))

\* require_activated: a start that ended well is looked at once more.
RequireActivated(c) ==
  /\ At(c, "active") /\ Read(c) /\ UNCHANGED <<uid, label, draft>>
  /\ Ends(c, "error") \/ (There(uid[c]) /\ lpar[uid[c]].on /\ Done(c, {}))

-----------------------------------------------------------------------------
(* Creation (core.py: create_and_stamp_lpar).  uid is what was really made.   *)

Exists(c) ==
  /\ At(c, "exists") /\ Read(c) /\ UNCHANGED <<uid, draft>> /\ label' = [label EXCEPT ![c] = call[c].name]
  /\ \/ Ends(c, "refused")
     \/ Called(call[c].name) = {} /\ Goes(c, IF call[c].form = "all" THEN "cli" ELSE "put") /\ UNCHANGED answer

\* A name that is taken is not made a second time.
Makes(c, u) ==
  /\ ~There(u) /\ Called(call[c].name) = {} /\ uid' = [uid EXCEPT ![c] = u]
  /\ lpar' = [lpar EXCEPT ![u] = [Absent EXCEPT !.name = call[c].name]] /\ UNCHANGED <<valid, wrong>>
  /\ did' = [did EXCEPT ![c] = @ \cup {"create"}]
  /\ since' = [d \in Callers |-> IF d = c THEN since[d] \ {u} ELSE since[d] \cup {u}]
Unmade == NoEffect /\ UNCHANGED uid

\* Without a stamp the result says so, and fails when one is required.
Unstamped(c) == IF call[c].form = "required" THEN Ends(c, "kept") ELSE Done(c, {"create"})

\* The REST create; one the HMC refused before making anything is tried with mksyscfg.
Put(c) ==
  /\ At(c, "put") /\ Write(c) /\ UNCHANGED job
  /\ \/ (\E u \in Uuids : Makes(c, u)) /\ (Ends(c, "error") \/ Unstamped(c) \/ (Goes(c, "stamp") /\ UNCHANGED answer))
     \/ Unmade /\ (Ends(c, "error") \/ (Goes(c, "cli") /\ UNCHANGED answer))

\* _create_via_cli.
Cli(c) ==
  /\ At(c, "cli") /\ Write(c) /\ UNCHANGED job
  /\ \/ (\E u \in Uuids : Makes(c, u)) /\ (Ends(c, "error") \/ (Goes(c, "apply") /\ UNCHANGED answer))
     \/ Unmade /\ Ends(c, "error")

\* The new profile is applied to what has the name; a failure is a step of the result.
Apply(c) ==
  /\ At(c, "apply") /\ Write(c) /\ UNCHANGED <<uid, job, answer>> /\ Goes(c, "back")
  /\ NoEffect \/ \E u \in Called(label[c]) : Effect(c, u, [lpar[u] EXCEPT !.slots = lpar[u].kept], "apply")

\* The partition is read back by its name.
Back(c) ==
  /\ At(c, "back") /\ Read(c) /\ UNCHANGED <<uid, label, draft>>
  /\ Unstamped(c) \/ (Called(label[c]) # {} /\ Goes(c, "stamp") /\ UNCHANGED answer)

\* stamp_created_lpar_ownership: by name, and what fails may have been done.
StampCreated(c) ==
  /\ At(c, "stamp") /\ Write(c) /\ UNCHANGED <<uid, job>>
  /\ \/ \E u \in Called(label[c]) :
          /\ Effect(c, u, [lpar[u] EXCEPT !.owner = "me"], "stamp")
          /\ Done(c, {"create", "stamp"}) \/ Unstamped(c)
     \/ NoEffect /\ Unstamped(c)

-----------------------------------------------------------------------------
(* Other users.                                                               *)

Other(u) ==
  /\ turns < MaxTurns /\ turns' = turns + 1
  /\ \E p \in {[lpar[u] EXCEPT !.owner = "other"], [lpar[u] EXCEPT !.owner = "none"], [lpar[u] EXCEPT !.on = ~@],
               Absent, [lpar[u] EXCEPT !.sync = ~@]}
              \cup {[lpar[u] EXCEPT !.name = n] : n \in {m \in Names : Called(m) = {}}} :
       /\ p # lpar[u] /\ lpar' = [lpar EXCEPT ![u] = p]
       /\ There(u) \/ (p.name # "-" /\ p.owner = "none")
       /\ p.name = "-" => ~lpar[u].on
       /\ since' = [d \in Callers |-> IF p.on = lpar[u].on THEN since[d] \cup {u} ELSE since[d]]
       /\ did' = [d \in Callers |-> IF p.on /\ ~lpar[u].on /\ uid[d] = u THEN did[d] \cup {"lit"} ELSE did[d]]
  /\ UNCHANGED <<job, call, pc, uid, label, draft, answer, valid, wrong>>

-----------------------------------------------------------------------------
Init ==
  /\ \E a, b \in Uuids, o \in {"me", "none", "other", "broken"}, s, p \in BOOLEAN :
       /\ a = (CHOOSE u \in Uuids : TRUE) /\ b = (CHOOSE u \in Uuids \ {a} : TRUE)
       /\ lpar = [u \in Uuids |-> CASE u = a -> [Absent EXCEPT !.name = Target, !.owner = o, !.sync = s, !.on = p]
                                    [] u = b -> [Absent EXCEPT !.name = Bystander, !.owner = "other"]
                                    [] OTHER -> Absent]
  /\ job = [c \in Callers |-> NoJob] /\ call = [c \in Callers |-> Idle]
  /\ pc = [c \in Callers |-> "-"] /\ uid = [c \in Callers |-> "-"] /\ label = [c \in Callers |-> "-"]
  /\ draft = [c \in Callers |-> Absent] /\ answer = [c \in Callers |-> [how |-> "-", steps |-> {}]]
  /\ since = [c \in Callers |-> {}] /\ did = [c \in Callers |-> {}] /\ valid = [c \in Callers |-> {}]
  /\ wrong = {} /\ turns = 0

\* Without the guard a power operation reads no stamp.
Next ==
  \/ \E c \in Callers :
       \/ Begin(c) \/ Resolve(c, "find", "validate") \/ Validate(c)
       \/ Resolve(c, "resolve", IF call[c].op \in Power /\ ~Guard THEN After(c) ELSE "name")
       \/ ReadName(c) \/ Authorize(c) \/ Get(c) \/ Post(c) \/ WriteNamed(c)
       \/ Where(c) \/ AddAdapter(c) \/ State(c) \/ Erase(c)
       \/ Lacks(c) \/ Submit(c) \/ Run(c) \/ Wait(c) \/ RequireActivated(c)
       \/ Exists(c) \/ Put(c) \/ Cli(c) \/ Apply(c) \/ Back(c) \/ StampCreated(c)
  \/ \E u \in Uuids : Other(u)

Spec == Init /\ [][Next]_vars

-----------------------------------------------------------------------------
(* Properties.                                                                *)

MutationTypeOK ==
  /\ \A u \in Uuids : lpar[u].owner \in {"none", "me", "other", "broken"} /\ lpar[u].slots \subseteq Callers
  /\ \A c \in Callers : /\ job[c].end \in {"-", "ok", "failed"}
                        /\ (answer[c].how # "-") = (pc[c] = "end")
                        /\ answer[c].how \in {"-", "done", "already", "refused", "error", "partial", "kept",
                                              "submitted", "timeout", "failed"}

\* A call changes only a partition that it resolved and was let to change, writes back
\* nothing it did not mean to change, keeps the stamp and migrates what it validated;
\* unless others changed that partition while the call ran.
Rightful == wrong = {}

\* What a call says it did it did, and what it refused it did not touch; a start that
\* is called done activated the partition; and it drops no adapter it did not warn of.
Told(c) ==
  LET op == call[c].op  how == answer[c].how IN
  /\ how = "done" => (CASE op = "on" -> "lit" [] op \in {"off", "migrate"} -> "ran"
                         [] op = "adapter" -> IF "kept" \in did[c] THEN "kept" ELSE "adapter"
                         [] op = "modify" -> "size" [] OTHER -> op) \in did[c]
  /\ op # "on" => Steps(c) \ (IF uid[c] \in since[c] THEN {"kept"} ELSE {}) \subseteq did[c]
  /\ how = "refused" => did[c] \subseteq {"lit"}
  /\ how = "partial" => "rename" \in did[c]
  /\ how = "kept" => "create" \in did[c]
  /\ "loss" \notin did[c]

MutationTold == \A c \in Callers : Told(c)
=============================================================================
