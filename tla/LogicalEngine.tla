---------------------------- MODULE LogicalEngine ----------------------------
(***************************************************************************)
(* Durable logical operations: the engine of operations/logical/engine.py  *)
(* over the SQLite store and the execution lock of                         *)
(* operations/logical/store.py.                                            *)
(*                                                                         *)
(* Several processes of one host share a state directory.  A process that  *)
(* holds the execution lock admits calls and runs each admitted operation  *)
(* on a worker thread.  A worker replays the operation's body against a    *)
(* journal: every HMC write is recorded `intended' before it is sent and   *)
(* gets its outcome after, so that a crash between the two leaves an open  *)
(* effect a later resume must classify.                                    *)
(*                                                                         *)
(* One SQLite transaction is one step and may fail, changing nothing.  An  *)
(* operation is named by its operation_id: a request_id reused after its   *)
(* record was pruned is a further member of Op.  The body is any body: it  *)
(* takes the partition guard, adds ledger entries and attempts effects in  *)
(* any order, and may swallow what they raise.                             *)
(***************************************************************************)
EXTENDS Naturals, FiniteSets

CONSTANTS
  Op,              \* operation ids; bounds the operations ever started
  Proc,            \* processes sharing the state directory
  Thread,          \* worker threads; bounds the threads of all processes
  Partition,       \* (system UUID, partition UUID) pairs
  Key,             \* effect keys a body may use (at most MAX_EFFECTS of them)
  Classified,      \* keys whose effect kind has a registered classifier
  LedgerKey,       \* resource-ledger keys
  Capacity,        \* STORE_CAPACITY
  LockReplaceable, \* whether execution.lock may be replaced under its holder
  None             \* no partition, thread, operation, process or key

ASSUME ClassifiedAssumption == Classified \subseteq Key
ASSUME CapacityAssumption == Capacity \in Nat
ASSUME NoneAssumption == None \notin Op \cup Proc \cup Thread \cup Partition \cup Key
ASSUME StageAssumption == {"free", "entered", "locked"} \cap Op = {}

\* docs/mcp-server.md: never remove execution.lock while any (other) process runs.
ASSUME LockAssumption ==
  LockReplaceable \in BOOLEAN /\ (LockReplaceable => \A p, q \in Proc : p = q)

VARIABLES
  (* the store: survives every process *)
  state,    \* operations.state, "absent" before and "pruned" after the record
  outcome,  \* operations.outcome
  part,     \* operations.system_uuid and partition_uuid
  journal,  \* effects.status by key, "none" without a row
  ledger,   \* ledger rows
  (* the lock file, and what each process keeps in memory *)
  flock,    \* the process holding the lock of the file now on disk
  fd,       \* _LOCKS has an entry: the process holds some lock file's lock
  stage,    \* submit() under _ADMISSION: "free", "entered", "locked", or what to start
  spared,   \* the workers submit() saw on entering, which recovery skips
  worker,   \* _WORKERS
  (* worker threads *)
  pc, home, job,  \* where a thread is, its process, its operation
  mem,      \* OperationContext._effects
  guarded,  \* OperationContext._partition
  todo,     \* open effects reconcile() has not classified yet
  warned,   \* reconcile() collected a warning
  key,      \* the effect whose write is under way
  verdict,  \* the outcome to settle that effect with
  fate,     \* the <<state, outcome>> _run() decided to record
  (* the HMC *)
  flight,   \* writes sent and not yet taken or lost by the HMC
  applied   \* writes the HMC carried out

storeVars  == <<state, outcome, part, journal, ledger>>
lockVars   == <<flock, fd, stage, spared, worker>>
threadVars == <<pc, home, job, mem, guarded, todo, warned, key, verdict, fate>>
hmcVars    == <<flight, applied>>
vars       == <<storeVars, lockVars, threadVars, hmcVars>>

-----------------------------------------------------------------------------
Status   == {"none", "intended", "uncertain", "applied", "not_applied"}
Open     == {"intended", "uncertain"}
States   == {"absent", "running", "interrupted", "paused", "terminal", "pruned"}
Outcomes == {"none", "needs_attention", "ready_to_boot", "completed", "failed", "abandoned"}
Pausing  == {"needs_attention", "ready_to_boot"}
Fates    == {<<"paused", "needs_attention">>, <<"paused", "ready_to_boot">>,
             <<"terminal", "completed">>, <<"terminal", "failed">>}
Active   == {"load", "reconcile", "body", "writing", "sent", "settle", "end"}
PC       == Active \cup {"idle", "exit"}

Stored   == {o \in Op : state[o] \notin {"absent", "pruned"}}
Live     == {o \in Op : state[o] \in {"running", "interrupted", "paused"}}
Blank    == [k \in Key |-> "none"]

\* store.accepted_continuations
Accepted(s, out) ==
  CASE s = "interrupted" \/ (s = "paused" /\ out = "needs_attention") -> {"resume", "abandon"}
    [] s = "paused" /\ out = "ready_to_boot" -> {"boot", "abandon"}
    [] OTHER -> {}

\* Mutant: the two UPDATEs of recovery exchange their values.
DoubtByState(j) == [k \in Key |-> IF j[k] = "intended" THEN "interrupted" ELSE j[k]]

\* What a crash leaves `intended' is unknown: recovery marks it `uncertain'.
Doubt(j) == [k \in Key |-> IF j[k] = "intended" THEN "uncertain" ELSE j[k]]

Init ==
  /\ state   = [o \in Op |-> "absent"]
  /\ outcome = [o \in Op |-> "none"]
  /\ part    = [o \in Op |-> None]
  /\ journal = [o \in Op |-> Blank]
  /\ ledger  = {}
  /\ flock   = None
  /\ fd      = [p \in Proc |-> FALSE]
  /\ stage   = [p \in Proc |-> "free"]
  /\ spared  = [p \in Proc |-> {}]
  /\ worker  = [p \in Proc |-> [o \in Op |-> None]]
  /\ pc      = [t \in Thread |-> "idle"]
  /\ home    = [t \in Thread |-> None]
  /\ job     = [t \in Thread |-> None]
  /\ mem     = [t \in Thread |-> Blank]
  /\ guarded = [t \in Thread |-> None]
  /\ todo    = [t \in Thread |-> {}]
  /\ warned  = [t \in Thread |-> FALSE]
  /\ key     = [t \in Thread |-> None]
  /\ verdict = [t \in Thread |-> "none"]
  /\ fate    = [t \in Thread |-> <<"paused", "needs_attention">>]
  /\ flight  = [o \in Op |-> [k \in Key |-> 0]]
  /\ applied = [o \in Op |-> [k \in Key |-> 0]]

-----------------------------------------------------------------------------
(* Admission: submit() under _ADMISSION.                                   *)

Registered(p) == {o \in Op : worker[p][o] # None}

Enter(p) ==
  /\ stage[p] = "free"
  /\ stage' = [stage EXCEPT ![p] = "entered"]
  /\ spared' = [spared EXCEPT ![p] = Registered(p)]
  /\ UNCHANGED <<storeVars, flock, fd, worker, threadVars, hmcVars>>

\* acquire_execution_lock: this process already holds the lock file on disk.
KeepLock(p) ==
  /\ stage[p] = "entered"
  /\ fd[p] /\ flock = p
  /\ stage' = [stage EXCEPT ![p] = "locked"]
  /\ spared' = [spared EXCEPT ![p] = {}]
  /\ UNCHANGED <<storeVars, flock, fd, worker, threadVars, hmcVars>>

\* Mutant: recovery spares nobody, as before a lock file could be replaced.
RecoverAll(p) ==
  /\ state' = [o \in Op |-> IF state[o] = "running" THEN "interrupted" ELSE state[o]]
  /\ journal' = [o \in Op |-> Doubt(journal[o])]

\* _recover_interrupted, skipping the operations whose worker was registered here.
Recover(p) ==
  /\ state' = [o \in Op |-> IF state[o] = "running" /\ o \notin spared[p]
                              THEN "interrupted" ELSE state[o]]
  /\ journal' = [o \in Op |-> IF o \notin spared[p] THEN Doubt(journal[o]) ELSE journal[o]]

\* Mutant: the lock is shared, so a second process takes it beside its holder.
TakeLockShared(p) ==
  /\ stage[p] = "entered"
  /\ flock' = p
  /\ fd' = [fd EXCEPT ![p] = TRUE]
  /\ Recover(p)
  /\ stage' = [stage EXCEPT ![p] = "locked"]
  /\ spared' = [spared EXCEPT ![p] = {}]
  /\ UNCHANGED <<outcome, part, ledger, worker, threadVars, hmcVars>>

\* acquire_execution_lock: a first or a replaced lock file, taken with recovery.
TakeLock(p) ==
  /\ stage[p] = "entered"
  /\ flock = None
  /\ flock' = p
  /\ fd' = [fd EXCEPT ![p] = TRUE]
  /\ Recover(p)
  /\ stage' = [stage EXCEPT ![p] = "locked"]
  /\ spared' = [spared EXCEPT ![p] = {}]
  /\ UNCHANGED <<outcome, part, ledger, worker, threadVars, hmcVars>>

\* acquire_execution_lock refuses (lock held elsewhere, store unusable, recovery
\* failed): the entry of a replaced file has been closed by then.
LockRefused(p) ==
  /\ stage[p] = "entered"
  /\ ~ (fd[p] /\ flock = p)
  /\ fd' = [fd EXCEPT ![p] = FALSE]
  /\ stage' = [stage EXCEPT ![p] = "free"]
  /\ spared' = [spared EXCEPT ![p] = {}]
  /\ UNCHANGED <<storeVars, flock, worker, threadVars, hmcVars>>

\* _admit_new and insert_operation, which first prunes terminal records older
\* than the retention time: any set of them.
AdmitNew(p, o, expired) ==
  /\ stage[p] = "locked"
  /\ state[o] = "absent"
  /\ expired \subseteq {x \in Op : state[x] = "terminal"}
  /\ Cardinality(Live) + Cardinality(ledger) < Capacity
  /\ state' = [x \in Op |-> IF x = o THEN "running"
                            ELSE IF x \in expired THEN "pruned" ELSE state[x]]
  /\ part' = [x \in Op |-> IF x \in expired THEN None ELSE part[x]]
  /\ journal' = [x \in Op |-> IF x \in expired THEN Blank ELSE journal[x]]
  /\ outcome' = [x \in Op |-> IF x \in expired THEN "none" ELSE outcome[x]]
  /\ stage' = [stage EXCEPT ![p] = o]
  /\ UNCHANGED <<ledger, flock, fd, spared, worker, threadVars, hmcVars>>

\* _admit_existing: what the record reads as once an orphan is interrupted.
Orphaned(p, o)   == state[o] = "running" /\ worker[p][o] = None
\* Mutant: the orphan test forgets that only a running record can be one.
SeenStateAny(p, o) == IF worker[p][o] = None THEN "interrupted" ELSE state[o]

SeenState(p, o)  == IF Orphaned(p, o) THEN "interrupted" ELSE state[o]
SeenJournal(p, o) == IF Orphaned(p, o) THEN Doubt(journal[o]) ELSE journal[o]

\* A repeat without continuation, or any call on a terminal record, returns it.
Repeat(p, o) ==
  /\ stage[p] = "locked"
  /\ o \in Stored
  /\ state' = [state EXCEPT ![o] = SeenState(p, o)]
  /\ journal' = [journal EXCEPT ![o] = SeenJournal(p, o)]
  /\ stage' = [stage EXCEPT ![p] = "free"]
  /\ UNCHANGED <<outcome, part, ledger, flock, fd, spared, worker, threadVars, hmcVars>>

Abandon(p, o) ==
  /\ stage[p] = "locked"
  /\ "abandon" \in Accepted(SeenState(p, o), outcome[o])
  /\ state' = [state EXCEPT ![o] = "terminal"]
  /\ outcome' = [outcome EXCEPT ![o] = "abandoned"]
  /\ journal' = [journal EXCEPT ![o] = SeenJournal(p, o)]
  /\ stage' = [stage EXCEPT ![p] = "free"]
  /\ UNCHANGED <<part, ledger, flock, fd, spared, worker, threadVars, hmcVars>>

Continue(p, o, continuation) ==
  /\ stage[p] = "locked"
  /\ continuation \in {"resume", "boot"} \cap Accepted(SeenState(p, o), outcome[o])
  /\ state' = [state EXCEPT ![o] = "running"]
  /\ outcome' = [outcome EXCEPT ![o] = "none"]
  /\ journal' = [journal EXCEPT ![o] = SeenJournal(p, o)]
  /\ stage' = [stage EXCEPT ![p] = o]
  /\ UNCHANGED <<part, ledger, flock, fd, spared, worker, threadVars, hmcVars>>

\* Any refusal in the transaction rolls it back: a binding that differs, a running
\* operation, a continuation not accepted, a full or failing store.
Refuse(p) ==
  /\ stage[p] = "locked"
  /\ stage' = [stage EXCEPT ![p] = "free"]
  /\ UNCHANGED <<storeVars, flock, fd, spared, worker, threadVars, hmcVars>>

\* _start_worker: registered first, so a finishing predecessor is overwritten.
StartWorker(p, t) ==
  /\ stage[p] \in Op
  /\ pc[t] = "idle"
  /\ worker' = [worker EXCEPT ![p][stage[p]] = t]
  /\ pc' = [pc EXCEPT ![t] = "load"]
  /\ home' = [home EXCEPT ![t] = p]
  /\ job' = [job EXCEPT ![t] = stage[p]]
  /\ stage' = [stage EXCEPT ![p] = "free"]
  /\ UNCHANGED <<storeVars, flock, fd, spared, mem, guarded, todo, warned, key, verdict, fate, hmcVars>>

\* _start_worker: thread.start() raises, leaving a running record without worker.
StartFails(p) ==
  /\ stage[p] \in Op
  /\ worker' = [worker EXCEPT ![p][stage[p]] = None]
  /\ stage' = [stage EXCEPT ![p] = "free"]
  /\ UNCHANGED <<storeVars, flock, fd, spared, threadVars, hmcVars>>

-----------------------------------------------------------------------------
(* The worker thread: _run(), OperationContext and _work().                *)

\* OperationContext.load
Load(t) ==
  /\ pc[t] = "load"
  /\ mem' = [mem EXCEPT ![t] = journal[job[t]]]
  /\ guarded' = [guarded EXCEPT ![t] = part[job[t]]]
  /\ todo' = [todo EXCEPT ![t] = {k \in Key : journal[job[t]][k] \in Open}]
  /\ warned' = [warned EXCEPT ![t] = FALSE]
  /\ pc' = [pc EXCEPT ![t] = "reconcile"]
  /\ UNCHANGED <<storeVars, lockVars, home, job, key, verdict, fate, hmcVars>>

\* An exception that leaves _run(): _work logs it, the record stays running.  A
\* store call raises it in load(), in the settle of _classify() and in _end().
Escape(t) ==
  /\ pc[t] \in {"load", "reconcile", "end"}
  /\ pc' = [pc EXCEPT ![t] = "exit"]
  /\ UNCHANGED <<storeVars, lockVars, home, job, mem, guarded, todo, warned, key, verdict, fate, hmcVars>>

\* _classify without a classifier, with a failing one, or answered needs_attention.
ClassifyOpen(t, k) ==
  /\ pc[t] = "reconcile"
  /\ k \in todo[t]
  /\ warned' = [warned EXCEPT ![t] = TRUE]
  /\ todo' = [todo EXCEPT ![t] = @ \ {k}]
  /\ UNCHANGED <<storeVars, lockVars, pc, home, job, mem, guarded, key, verdict, fate, hmcVars>>

\* The write of effect k of operation o cannot have happened and no longer can.
Ruled(o, k) == applied[o][k] = 0 /\ flight[o][k] = 0

\* _classify with a verdict: a live check answers `not_applied' only on proof.
ClassifySettle(t, k, status) ==
  /\ pc[t] = "reconcile"
  /\ k \in todo[t] \cap Classified
  /\ status = "not_applied" => Ruled(job[t], k)
  /\ journal' = [journal EXCEPT ![job[t]][k] = status]
  /\ mem' = [mem EXCEPT ![t][k] = status]
  /\ todo' = [todo EXCEPT ![t] = @ \ {k}]
  /\ UNCHANGED <<state, outcome, part, ledger, lockVars, pc, home, job, guarded, warned, key, verdict, fate, hmcVars>>

\* _run after reconcile(): the body runs only when nothing stays open.
Reconciled(t) ==
  /\ pc[t] = "reconcile"
  /\ todo[t] = {}
  /\ IF warned[t]
       THEN /\ pc' = [pc EXCEPT ![t] = "end"]
            /\ fate' = [fate EXCEPT ![t] = <<"paused", "needs_attention">>]
       ELSE /\ pc' = [pc EXCEPT ![t] = "body"]
            /\ UNCHANGED fate
  /\ UNCHANGED <<storeVars, lockVars, home, job, mem, guarded, todo, warned, key, verdict, hmcVars>>

\* Mutant: the guard is taken without asking for its holder.
GuardUnchecked(t, q) ==
  /\ pc[t] = "body"
  /\ guarded[t] = None
  /\ part' = [part EXCEPT ![job[t]] = q]
  /\ guarded' = [guarded EXCEPT ![t] = q]
  /\ UNCHANGED <<state, outcome, journal, ledger, lockVars, pc, home, job, mem, todo, warned, key, verdict, fate, hmcVars>>

\* OperationContext.guard: no other non-terminal operation holds the partition.
Guard(t, q) ==
  /\ pc[t] = "body"
  /\ guarded[t] = None
  /\ \A o \in Live \ {job[t]} : part[o] # q
  /\ part' = [part EXCEPT ![job[t]] = q]
  /\ guarded' = [guarded EXCEPT ![t] = q]
  /\ UNCHANGED <<state, outcome, journal, ledger, lockVars, pc, home, job, mem, todo, warned, key, verdict, fate, hmcVars>>

LedgerAdd(t, l) ==
  /\ pc[t] = "body"
  /\ ledger' = ledger \cup {<<job[t], l>>}
  /\ UNCHANGED <<state, outcome, part, journal, lockVars, threadVars, hmcVars>>

\* Mutant: only an applied effect is not written again.
BeginEffectOpen(t, k) ==
  /\ pc[t] = "body"
  /\ mem[t][k] # "applied"
  /\ journal' = [journal EXCEPT ![job[t]][k] = "intended"]
  /\ mem' = [mem EXCEPT ![t][k] = "intended"]
  /\ key' = [key EXCEPT ![t] = k]
  /\ pc' = [pc EXCEPT ![t] = "writing"]
  /\ UNCHANGED <<state, outcome, part, ledger, lockVars, home, job, guarded, todo, warned, verdict, fate, hmcVars>>

\* OperationContext.effect up to the write: an applied effect is replayed and an
\* open one refused, so only a new or a ruled-out one is recorded and written.
BeginEffect(t, k) ==
  /\ pc[t] = "body"
  /\ mem[t][k] \in {"none", "not_applied"}
  /\ journal' = [journal EXCEPT ![job[t]][k] = "intended"]
  /\ mem' = [mem EXCEPT ![t][k] = "intended"]
  /\ key' = [key EXCEPT ![t] = k]
  /\ pc' = [pc EXCEPT ![t] = "writing"]
  /\ UNCHANGED <<state, outcome, part, ledger, lockVars, home, job, guarded, todo, warned, verdict, fate, hmcVars>>

\* write(): the body's callable sends its one HMC write.
SendWrite(t) ==
  /\ pc[t] = "writing"
  /\ flight' = [flight EXCEPT ![job[t]][key[t]] = @ + 1]
  /\ pc' = [pc EXCEPT ![t] = "sent"]
  /\ UNCHANGED <<storeVars, lockVars, home, job, mem, guarded, todo, warned, key, verdict, fate, applied>>

\* Mutant: an unanswered request counts as not applied.
WriteEndsTimeout(t, status) ==
  /\ pc[t] \in {"writing", "sent"}
  /\ status = "applied" => applied[job[t]][key[t]] > 0
  /\ verdict' = [verdict EXCEPT ![t] = status]
  /\ pc' = [pc EXCEPT ![t] = "settle"]
  /\ UNCHANGED <<storeVars, lockVars, home, job, mem, guarded, todo, warned, key, fate, hmcVars>>

\* write() returns, raises EffectNotApplied, or raises anything else.
WriteEnds(t, status) ==
  /\ pc[t] \in {"writing", "sent"}
  /\ \/ status = "applied" /\ pc[t] = "sent" /\ applied[job[t]][key[t]] > 0
     \/ status = "not_applied" /\ Ruled(job[t], key[t])
     \/ status = "uncertain"
  /\ verdict' = [verdict EXCEPT ![t] = status]
  /\ pc' = [pc EXCEPT ![t] = "settle"]
  /\ UNCHANGED <<storeVars, lockVars, home, job, mem, guarded, todo, warned, key, fate, hmcVars>>

\* effect() returns or raises into the body.
EffectOver(t) ==
  /\ pc' = [pc EXCEPT ![t] = "body"]
  /\ key' = [key EXCEPT ![t] = None]
  /\ verdict' = [verdict EXCEPT ![t] = "none"]

\* OperationContext._settle
Settle(t) ==
  /\ pc[t] = "settle"
  /\ journal' = [journal EXCEPT ![job[t]][key[t]] = verdict[t]]
  /\ mem' = [mem EXCEPT ![t][key[t]] = verdict[t]]
  /\ EffectOver(t)
  /\ UNCHANGED <<state, outcome, part, ledger, lockVars, home, job, guarded, todo, warned, fate, hmcVars>>

\* Mutant: the outcome is kept in memory before the store has taken it.
SettleFailsUpdated(t) ==
  /\ pc[t] = "settle"
  /\ mem' = [mem EXCEPT ![t][key[t]] = verdict[t]]
  /\ EffectOver(t)
  /\ UNCHANGED <<storeVars, lockVars, home, job, guarded, todo, warned, fate, hmcVars>>

\* The outcome is not recorded: the effect stays intended, in the store and here.
SettleFails(t) ==
  /\ pc[t] = "settle"
  /\ EffectOver(t)
  /\ UNCHANGED <<storeVars, lockVars, home, job, mem, guarded, todo, warned, fate, hmcVars>>

\* Mutant: an effect whose outcome could not be recorded does not count as open.
HasUncertainOnly(t) == \E k \in Key : mem[t][k] = "uncertain"

HasUncertain(t) == \E k \in Key : mem[t][k] \in Open

\* The body returns or raises: with an open effect the operation pauses, and
\* without one any outcome can follow.
BodyEnds(t, f) ==
  /\ pc[t] = "body"
  /\ f \in Fates
  /\ HasUncertain(t) => f = <<"paused", "needs_attention">>
  /\ fate' = [fate EXCEPT ![t] = f]
  /\ pc' = [pc EXCEPT ![t] = "end"]
  /\ UNCHANGED <<storeVars, lockVars, home, job, mem, guarded, todo, warned, key, verdict, hmcVars>>

\* _end
End(t) ==
  /\ pc[t] = "end"
  /\ state' = [state EXCEPT ![job[t]] = fate[t][1]]
  /\ outcome' = [outcome EXCEPT ![job[t]] = fate[t][2]]
  /\ pc' = [pc EXCEPT ![t] = "exit"]
  /\ UNCHANGED <<part, journal, ledger, lockVars, home, job, mem, guarded, todo, warned, key, verdict, fate, hmcVars>>

\* What a finished or killed thread leaves of its memory.
Freed(dead) ==
  /\ pc' = [t \in Thread |-> IF t \in dead THEN "idle" ELSE pc[t]]
  /\ home' = [t \in Thread |-> IF t \in dead THEN None ELSE home[t]]
  /\ job' = [t \in Thread |-> IF t \in dead THEN None ELSE job[t]]
  /\ mem' = [t \in Thread |-> IF t \in dead THEN Blank ELSE mem[t]]
  /\ guarded' = [t \in Thread |-> IF t \in dead THEN None ELSE guarded[t]]
  /\ todo' = [t \in Thread |-> IF t \in dead THEN {} ELSE todo[t]]
  /\ warned' = [t \in Thread |-> IF t \in dead THEN FALSE ELSE warned[t]]
  /\ key' = [t \in Thread |-> IF t \in dead THEN None ELSE key[t]]
  /\ verdict' = [t \in Thread |-> IF t \in dead THEN "none" ELSE verdict[t]]
  /\ fate' = [t \in Thread |-> IF t \in dead THEN <<"paused", "needs_attention">> ELSE fate[t]]

\* Mutant: a worker that ends stays registered.
UnregisterKept(t) ==
  /\ pc[t] = "exit"
  /\ Freed({t})
  /\ UNCHANGED <<storeVars, lockVars, hmcVars>>

\* The finally clause of _work: a resume may have registered a successor by now.
Unregister(t) ==
  /\ pc[t] = "exit"
  /\ worker' = IF worker[home[t]][job[t]] = t
                 THEN [worker EXCEPT ![home[t]][job[t]] = None] ELSE worker
  /\ Freed({t})
  /\ UNCHANGED <<storeVars, flock, fd, stage, spared, hmcVars>>

-----------------------------------------------------------------------------
(* The HMC, process exits and the lock file.                               *)

HmcApply(o, k) ==
  /\ flight[o][k] > 0
  /\ flight' = [flight EXCEPT ![o][k] = @ - 1]
  /\ applied' = [applied EXCEPT ![o][k] = @ + 1]
  /\ UNCHANGED <<storeVars, lockVars, threadVars>>

\* The request is lost, or the HMC refuses it.
HmcDrop(o, k) ==
  /\ flight[o][k] > 0
  /\ flight' = [flight EXCEPT ![o][k] = @ - 1]
  /\ UNCHANGED <<storeVars, lockVars, threadVars, applied>>

\* Process p exits or crashes; worker threads are daemons and die with it, and the
\* kernel releases its lock.  A later process may reuse p.
Exit(p) ==
  /\ flock' = IF flock = p THEN None ELSE flock
  /\ fd' = [fd EXCEPT ![p] = FALSE]
  /\ stage' = [stage EXCEPT ![p] = "free"]
  /\ spared' = [spared EXCEPT ![p] = {}]
  /\ worker' = [worker EXCEPT ![p] = [o \in Op |-> None]]
  /\ Freed({t \in Thread : home[t] = p})
  /\ UNCHANGED <<storeVars, hmcVars>>

\* The lock file is removed under its holder, which keeps a lock on nothing.
ReplaceLock ==
  /\ LockReplaceable
  /\ flock' = None
  /\ UNCHANGED <<storeVars, fd, stage, spared, worker, threadVars, hmcVars>>

Admission(p) ==
  \/ Enter(p) \/ KeepLock(p) \/ TakeLock(p) \/ LockRefused(p) \/ Refuse(p) \/ StartFails(p)
  \/ \E o \in Op :
       \/ \E expired \in SUBSET {x \in Op : state[x] = "terminal"} : AdmitNew(p, o, expired)
       \/ Repeat(p, o) \/ Abandon(p, o)
       \/ \E c \in {"resume", "boot"} : Continue(p, o, c)
  \/ \E t \in Thread : StartWorker(p, t)

Work(t) ==
  \/ Load(t) \/ Escape(t) \/ Reconciled(t) \/ SendWrite(t)
  \/ Settle(t) \/ SettleFails(t) \/ End(t) \/ Unregister(t)
  \/ \E k \in Key : ClassifyOpen(t, k) \/ BeginEffect(t, k)
  \/ \E k \in Key, s \in {"applied", "not_applied"} : ClassifySettle(t, k, s)
  \/ \E q \in Partition : Guard(t, q)
  \/ \E l \in LedgerKey : LedgerAdd(t, l)
  \/ \E s \in {"applied", "not_applied", "uncertain"} : WriteEnds(t, s)
  \/ \E f \in Fates : BodyEnds(t, f)

Environment ==
  \/ \E o \in Op, k \in Key : HmcApply(o, k) \/ HmcDrop(o, k)
  \/ \E p \in Proc : Exit(p)
  \/ ReplaceLock

Next == (\E p \in Proc : Admission(p)) \/ (\E t \in Thread : Work(t)) \/ Environment

Spec == Init /\ [][Next]_vars

-----------------------------------------------------------------------------
(* Properties.                                                             *)

\* Every variable has its type.
TypeOK ==
  /\ state \in [Op -> States] /\ outcome \in [Op -> Outcomes]
  /\ part \in [Op -> Partition \cup {None}]
  /\ journal \in [Op -> [Key -> Status]]
  /\ ledger \subseteq Op \X LedgerKey
  /\ flock \in Proc \cup {None} /\ fd \in [Proc -> BOOLEAN]
  /\ stage \in [Proc -> Op \cup {"free", "entered", "locked"}]
  /\ spared \in [Proc -> SUBSET Op]
  /\ worker \in [Proc -> [Op -> Thread \cup {None}]]
  /\ pc \in [Thread -> PC]
  /\ home \in [Thread -> Proc \cup {None}] /\ job \in [Thread -> Op \cup {None}]
  /\ mem \in [Thread -> [Key -> Status]]
  /\ guarded \in [Thread -> Partition \cup {None}]
  /\ todo \in [Thread -> SUBSET Key] /\ warned \in [Thread -> BOOLEAN]
  /\ key \in [Thread -> Key \cup {None}]
  /\ verdict \in [Thread -> {"none", "applied", "not_applied", "uncertain"}]
  /\ fate \in [Thread -> Fates]
  /\ flight \in [Op -> [Key -> Nat]] /\ applied \in [Op -> [Key -> Nat]]

\* At most one worker, over every process of the host, runs an operation: admission,
\* recovery and the execution lock together keep a second body off its journal.
OneRunner ==
  \A t, u \in Thread :
    t # u /\ pc[t] \in Active /\ pc[u] \in Active => job[t] # job[u]

\* An operation whose worker is alive reads as running, so neither recovery (even of
\* a replaced lock file) nor a repeated call may interrupt, continue or abandon it.
NeverOrphaned ==
  \A t \in Thread : pc[t] \in Active =>
    state[job[t]] = "running" /\ worker[home[t]][job[t]] = t

\* The effects a worker keeps in memory, from which it decides what to write and how
\* the operation ends, are those of the store, failed transactions included.
JournalCurrent ==
  \A t \in Thread : pc[t] \in Active \ {"load"} =>
    mem[t] = journal[job[t]] /\ guarded[t] = part[job[t]]

\* Over every crash, resume, lost answer and failed transaction, the write of one
\* effect reaches the HMC at most once.
AtMostOnce == \A o \in Op, k \in Key : flight[o][k] + applied[o][k] <= 1

\* Whatever was sent to the HMC is in the journal, as applied or as open: no record
\* says that nothing happened when something did or still may.
NothingUnjournaled ==
  \A o \in Stored, k \in Key :
    journal[o][k] \in {"none", "not_applied"} => Ruled(o, k)

\* Only an operation all of whose effects are accounted for ends completed or failed;
\* one with an effect of unknown outcome pauses (or an operator abandons it).
SettledEnd ==
  \A o \in Op : state[o] = "terminal" /\ outcome[o] \in {"completed", "failed"} =>
    \A k \in Key : journal[o][k] \notin Open

\* Two operations that are not terminal never guard the same partition.
GuardExclusive ==
  \A o, x \in Live : o # x /\ part[o] # None => part[o] # part[x]

\* A record that ended stays as it ended until it is pruned.  (Recovery and a late call
\* may still put in doubt an effect that was open when an operator abandoned it.)
TerminalFinal ==
  [][\A o \in Op : state[o] = "terminal" =>
       \/ state'[o] = "pruned"
       \/ /\ state'[o] = "terminal" /\ outcome'[o] = outcome[o]
          /\ part'[o] = part[o]
          /\ journal'[o] \in {journal[o], Doubt(journal[o])}]_vars

\* Callers keep calling, threads are scheduled and a body does not run for ever.
Fairness ==
  /\ \A p \in Proc :
       /\ SF_vars(Enter(p)) /\ SF_vars(TakeLock(p)) /\ SF_vars(KeepLock(p))
       /\ WF_vars(StartFails(p) \/ \E t \in Thread : StartWorker(p, t))
       /\ \A o \in Op : SF_vars(Repeat(p, o))
  /\ \A t \in Thread :
       /\ WF_vars(Work(t))
       /\ SF_vars(\E f \in Fates : BodyEnds(t, f))

FairSpec == Spec /\ Fairness

Orphan(o) ==
  state[o] = "running" /\ ~ \E t \in Thread : pc[t] \in Active /\ job[t] = o

\* A record that reads as running with no worker at work on it (its thread could not
\* start, could not record its end, or died with its process) does not stay so while
\* calls keep arriving: one of them interrupts it or starts a new worker.
OrphanFound == \A o \in Op : Orphan(o) ~> ~ Orphan(o)

=============================================================================
