----------------------------- MODULE PowerLpar -----------------------------
(* hmc_power_lpar (operations/lpar/power.py): durable operations that start, *)
(* stop or restart one partition, each with at most one HMC job, while the   *)
(* process may die at any step, answers get lost, the HMC queues, runs and   *)
(* forgets jobs, and other users switch the partition.                       *)
(*                                                                           *)
(* The engine is taken as LogicalEngine shows it: one worker per operation,  *)
(* a journal that a crash leaves `open' between intent and outcome, and a    *)
(* partition guard held until the operation is terminal.                     *)
EXTENDS Naturals

CONSTANTS
  Op,       \* operation ids
  Request,  \* the <<action, mode>> pairs requested
  Turns     \* bound: changes other users make

ASSUME RequestAssumption ==
  Request \subseteq {"start", "stop", "restart"} \X {"graceful", "immediate"}
ASSUME TurnsAssumption == Turns \in Nat

VARIABLES
  request,  \* what each operation asks for
  (* the store *)
  record,   \* the operation's state and outcome in one word
  effect,   \* the status of its `power' effect, "open" for intended and uncertain
  known,    \* the effect's identity has a JobID
  guarded,  \* the operation names the partition it guards
  observed, \* observed_state of its result, "none" before
  (* the worker *)
  pc, entry, replay,
  (* the HMC *)
  power, rmc, \* the partition
  job,        \* the job of each operation
  (* history *)
  submits,  \* requests sent per operation
  fate,     \* how its job ended
  since,    \* the partition's states since the operation began or sent its job
  turns

store   == <<record, effect, known, guarded, observed>>
thread  == <<pc, entry, replay>>
hmc     == <<power, rmc, job>>
history == <<submits, fate, since>>
vars    == <<request, store, thread, hmc, history, turns>>

Power   == {"on", "off", "error"}   \* ACTIVATED_STATES, not activated, error
Live    == {"running", "interrupted", "paused"}
Pending == {"sent", "queued"}

action(o) == request[o][1]
mode(o)   == request[o][2]
Target(o) == IF action(o) = "stop" THEN "off" ELSE "on"

Init ==
  /\ request \in [Op -> Request]
  /\ record = [o \in Op |-> "absent"] /\ effect = [o \in Op |-> "none"]
  /\ known = [o \in Op |-> FALSE] /\ guarded = [o \in Op |-> FALSE]
  /\ observed = [o \in Op |-> "none"]
  /\ pc = [o \in Op |-> "idle"] /\ replay = [o \in Op |-> FALSE]
  /\ entry = [o \in Op |-> [state |-> "off", rmc |-> FALSE]]
  /\ power \in Power /\ rmc \in BOOLEAN /\ job = [o \in Op |-> "none"]
  /\ submits = [o \in Op |-> 0] /\ fate = [o \in Op |-> "none"]
  /\ since = [o \in Op |-> {}] /\ turns = 0

-----------------------------------------------------------------------------
(* The engine around the body.                                               *)

\* The worker leaves its operation o as r, without its thread.
Ends(o, r) ==
  /\ record' = [record EXCEPT ![o] = r] /\ pc' = [pc EXCEPT ![o] = "idle"]
  /\ entry' = [entry EXCEPT ![o] = [state |-> "off", rmc |-> FALSE]]
  /\ replay' = [replay EXCEPT ![o] = FALSE]

Goes(o, next) == pc' = [pc EXCEPT ![o] = next] /\ UNCHANGED <<record, entry>>

\* A new operation, or a resumed one.
Run(o) ==
  /\ record[o] \in {"absent", "interrupted", "paused"}
  /\ record' = [record EXCEPT ![o] = "running"] /\ pc' = [pc EXCEPT ![o] = "reconcile"]
  /\ since' = IF record[o] = "absent" THEN [since EXCEPT ![o] = {power}] ELSE since
  /\ UNCHANGED <<request, effect, known, guarded, observed, entry, replay, hmc, submits, fate, turns>>

Abandon(o) ==
  /\ record[o] \in {"interrupted", "paused"}
  /\ record' = [record EXCEPT ![o] = "abandoned"]
  /\ UNCHANGED <<request, effect, known, guarded, observed, thread, hmc, history, turns>>

\* The process dies: every worker goes with it, every running record is found later.
Crash ==
  /\ \E o \in Op : record[o] = "running"
  /\ record' = [o \in Op |-> IF record[o] = "running" THEN "interrupted" ELSE record[o]]
  /\ pc' = [o \in Op |-> "idle"] /\ replay' = [o \in Op |-> FALSE]
  /\ entry' = [o \in Op |-> [state |-> "off", rmc |-> FALSE]]
  /\ UNCHANGED <<request, effect, known, guarded, observed, hmc, history, turns>>

\* Mutant: a power-on found not activated is taken not to have happened.
ClassifyNever(o) ==
  CASE action(o) = "start" /\ power = "on" -> "applied"
    [] action(o) = "start" /\ power = "off" -> "none"
    [] action(o) = "stop" /\ power = "off" -> "applied"
    [] OTHER -> "open"

\* _classify_power_on, _classify_power_off; a restart has no live check.
Classify(o) ==
  IF action(o) \in {"start", "stop"} /\ power = Target(o) THEN "applied" ELSE "open"

\* reconcile() and the body's first branch: an applied effect is replayed.
Reconcile(o) ==
  /\ pc[o] = "reconcile"
  /\ \/ /\ effect[o] = "open" /\ Ends(o, "paused") /\ UNCHANGED effect
     \/ /\ effect' = [effect EXCEPT ![o] = IF @ = "open" THEN Classify(o) ELSE @]
        /\ effect'[o] # "open"
        /\ replay' = [replay EXCEPT ![o] = effect'[o] = "applied"]
        /\ Goes(o, IF effect'[o] = "applied" THEN "await" ELSE "resolve")
  /\ UNCHANGED <<request, known, guarded, observed, hmc, history, turns>>

-----------------------------------------------------------------------------
(* The body.                                                                 *)

\* _resolve: the partition list, and the ownership check where it is configured.
Resolve(o) ==
  /\ pc[o] = "resolve"
  /\ \/ /\ entry' = [entry EXCEPT ![o] = [state |-> power, rmc |-> rmc]]
        /\ pc' = [pc EXCEPT ![o] = "guard"] /\ UNCHANGED <<record, replay>>
     \/ Ends(o, "failed")
     \/ Ends(o, "paused")
  /\ UNCHANGED <<request, effect, known, guarded, observed, hmc, history, turns>>

\* Mutant: an interrupted or paused operation gives up its guard.
HoldersRunning(o) == {x \in Op \ {o} : guarded[x] /\ record[x] = "running"}

\* store.guard_holder
Holders(o) == {x \in Op \ {o} : guarded[x] /\ record[x] \in Live}

\* ctx.guard: refused while another live operation guards the partition.
Guard(o) ==
  /\ pc[o] = "guard"
  /\ IF Holders(o) # {} THEN Ends(o, "failed") /\ UNCHANGED guarded
     ELSE /\ guarded' = [guarded EXCEPT ![o] = TRUE] /\ Goes(o, "check") /\ UNCHANGED replay
  /\ UNCHANGED <<request, effect, known, observed, hmc, history, turns>>

\* _precheck on the entry listed before the guard was taken.
Already(o) == action(o) # "restart" /\ entry[o].state = Target(o)

Allowed(o) ==
  IF action(o) = "start" THEN entry[o].state = "off"
  ELSE /\ entry[o].state = "on" \/ (entry[o].state = "error" /\ mode(o) = "immediate")
       /\ mode(o) = "graceful" => entry[o].rmc

\* _precheck, and the intent ctx.effect records before the write.
Check(o) ==
  /\ pc[o] = "check"
  /\ observed' = [observed EXCEPT ![o] = entry[o].state]
  /\ IF Already(o) THEN Ends(o, "completed") /\ UNCHANGED effect
     ELSE IF ~Allowed(o) THEN Ends(o, "failed") /\ UNCHANGED effect
     ELSE /\ effect' = [effect EXCEPT ![o] = "open"] /\ Goes(o, "write") /\ UNCHANGED replay
  /\ UNCHANGED <<request, known, guarded, hmc, history, turns>>

\* _submit sends its one job.
Submit(o) ==
  /\ pc[o] = "write"
  /\ job' = [job EXCEPT ![o] = "sent"] /\ submits' = [submits EXCEPT ![o] = @ + 1]
  /\ since' = [since EXCEPT ![o] = {power}]
  /\ Goes(o, "sent")
  /\ UNCHANGED <<request, effect, known, guarded, observed, replay, power, rmc, fate, turns>>

\* _submit returns the JobID, or raises (no answer, no JobID, a refusal, or an
\* outcome the store did not take): then the effect stays open.
Answer(o) ==
  /\ \/ /\ pc[o] = "sent" /\ job[o] \notin {"none", "sent", "lost"}
        /\ effect' = [effect EXCEPT ![o] = "applied"] /\ known' = [known EXCEPT ![o] = TRUE]
        /\ Goes(o, "await") /\ UNCHANGED replay
     \/ /\ pc[o] \in {"write", "sent"} /\ Ends(o, "paused") /\ UNCHANGED <<effect, known>>
  /\ UNCHANGED <<request, guarded, observed, hmc, history, turns>>

\* _finish up to the state check: no job, a forgotten one, one that succeeded or
\* failed; it pauses on a job that is not over in time, on one a replayed restart
\* misses, and when a read fails.
Await(o) ==
  /\ pc[o] = "await"
  /\ \/ Ends(o, "paused")
     \/ known[o] /\ fate[o] = "ok" /\ job[o] # "gone" /\ Goes(o, "settle") /\ UNCHANGED replay
     \/ known[o] /\ fate[o] = "bad" /\ job[o] # "gone" /\ Ends(o, "failed")
     \/ /\ ~known[o] \/ (replay[o] /\ job[o] = "gone")
        /\ action(o) # "restart" /\ Goes(o, "settle") /\ UNCHANGED replay
  /\ UNCHANGED <<request, effect, known, guarded, observed, hmc, history, turns>>

\* Mutant: the job's success stands for the partition's state.
SettleTrusting(o) ==
  /\ pc[o] = "settle" /\ Ends(o, "completed")
  /\ UNCHANGED <<request, effect, known, guarded, observed, hmc, history, turns>>

\* _settle and the verdict on what it read.
Settle(o) ==
  /\ pc[o] = "settle"
  /\ \/ /\ observed' = [observed EXCEPT ![o] = power]
        /\ \/ power = Target(o) /\ Ends(o, "completed")
           \/ action(o) = "start" /\ power = "error" /\ Ends(o, "failed")
           \/ power # Target(o) /\ ~(action(o) = "start" /\ power = "error") /\ Ends(o, "paused")
     \/ Ends(o, "paused") /\ UNCHANGED observed
  /\ UNCHANGED <<request, effect, known, guarded, hmc, history, turns>>

Body(o) == Resolve(o) \/ Guard(o) \/ Check(o) \/ Submit(o) \/ Answer(o) \/ Await(o) \/ Settle(o)

-----------------------------------------------------------------------------
(* The HMC.                                                                  *)

\* The partition is now p.
Becomes(p) == power' = p /\ since' = [o \in Op |-> since[o] \cup {p}]

\* A request reaches the HMC, perhaps after its sender died, or does not.
Arrive(o) ==
  /\ job[o] = "sent"
  /\ job' = [job EXCEPT ![o] = "queued"] \/ job' = [job EXCEPT ![o] = "lost"]
  /\ UNCHANGED <<request, store, thread, power, rmc, history, turns>>

\* A job ends well or badly; either may have switched the partition or not.
JobEnds(o) ==
  /\ job[o] = "queued" /\ job' = [job EXCEPT ![o] = "over"]
  /\ \E f \in {"ok", "bad"} : fate' = [fate EXCEPT ![o] = f]
  /\ \E p \in {power, Target(o), "error"} : Becomes(p)
  /\ UNCHANGED <<request, store, thread, rmc, submits, turns>>

\* The HMC forgets a job that is over: it answers 404.
Forget(o) ==
  /\ job[o] = "over" /\ job' = [job EXCEPT ![o] = "gone"]
  /\ UNCHANGED <<request, store, thread, power, rmc, history, turns>>

OtherUser ==
  /\ turns < Turns /\ turns' = turns + 1
  /\ \E p \in Power : Becomes(p)
  /\ rmc' \in BOOLEAN
  /\ UNCHANGED <<request, store, thread, job, submits, fate>>

Next ==
  \/ \E o \in Op : Run(o) \/ Abandon(o) \/ Reconcile(o) \/ Body(o)
                   \/ Arrive(o) \/ JobEnds(o) \/ Forget(o)
  \/ Crash \/ OtherUser

Spec == Init /\ [][Next]_vars

-----------------------------------------------------------------------------
(* Properties.                                                               *)

\* Every variable has its type.
TypeOK ==
  /\ request \in [Op -> Request]
  /\ record \in [Op -> Live \cup {"absent", "completed", "failed", "abandoned"}]
  /\ effect \in [Op -> {"none", "open", "applied"}]
  /\ known \in [Op -> BOOLEAN] /\ guarded \in [Op -> BOOLEAN]
  /\ observed \in [Op -> Power \cup {"none"}]
  /\ pc \in [Op -> {"idle", "reconcile", "resolve", "guard", "check", "write", "sent", "await", "settle"}]
  /\ entry \in [Op -> [state : Power, rmc : BOOLEAN]] /\ replay \in [Op -> BOOLEAN]
  /\ power \in Power /\ rmc \in BOOLEAN
  /\ job \in [Op -> {"none", "sent", "lost", "queued", "over", "gone"}]
  /\ submits \in [Op -> Nat] /\ fate \in [Op -> {"none", "ok", "bad"}]
  /\ since \in [Op -> SUBSET Power] /\ turns \in 0..Turns

\* Over every crash, lost answer and resume an operation submits one job at most: a
\* queued job and none read the same, so an open effect is never written again.
OneJob == \A o \in Op : submits[o] <= 1

\* A restart completes only on its own job's success: a cycled partition and one
\* that was not read the same.
RestartProven == \A o \in Op : record[o] = "completed" /\ action(o) = "restart" => fate[o] = "ok"

\* A partition that was switched is not reported as a failure: a failed operation
\* sent nothing, or its job failed, or the partition it started is in error.
FailedProven ==
  \A o \in Op : record[o] = "failed" =>
    submits[o] = 0 \/ fate[o] = "bad" \/ (action(o) = "start" /\ observed[o] = "error")

\* A completed operation saw the state it was to bring about after it sent its job
\* (or, already in that state, after it began), not before.
CompletedSeen == \A o \in Op : record[o] = "completed" => Target(o) \in since[o]

\* What the outcome of an operation says was proven by what it saw.
EndsProven == RestartProven /\ FailedProven /\ CompletedSeen

\* Jobs of two operations are not pending on the partition together, and none runs
\* on after its operation ended, but for an operation abandoned or settled by the
\* partition's state alone, whose job nobody can name.
Loose(o) == record[o] = "abandoned" \/ (record[o] \in {"completed", "failed"} /\ ~known[o])

NoOverlap ==
  /\ \A o, x \in Op : o # x /\ job[o] \in Pending /\ job[x] \in Pending => Loose(o) \/ Loose(x)
  /\ \A o \in Op : job[o] \in Pending /\ record[o] \notin Live => Loose(o)
=============================================================================
