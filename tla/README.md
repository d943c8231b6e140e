# hmcpctl in TLA+

hmcpctl drives IBM Hardware Management Consoles (HMCs) over REST and SSH, from a
command line and as an MCP server. Most of it is one request and the parsing of
its answer. What is hard is the rest: writes whose answer is lost, processes that
die in the middle of a workflow, threads and coroutines that share a record or a
channel, live tests that must take away what they made, and an HMC that other
people change at the same time. These modules model that part, check it with
TLC, and prove most of its safety properties with TLAPS.

Paths are relative to `src/hmcpctl/`, or to the repository where they begin with
`scripts/`.

## 1. Inventory

Components that keep state or run concurrently:

| Component | State | Operations | What is hard | What makes it correct |
|---|---|---|---|---|
| Logical engine and store (`operations/logical/`) | SQLite store of operations, effects, ledger; the execution lock file; per process the worker table and the held lock; per worker the replayed effects | submit (admit, repeat, resume, abandon), recover, run a body, guard, ledger, effect, reconcile, end, prune | crash between intent, write and outcome; failing transactions; a replaced lock file; a worker that ends while its successor starts | one worker per operation; each write at most once; the journal denies no write; guards exclude; ends are final |
| LPAR power (`operations/lpar/power.py`) | its operation's one effect and the HMC job it names | start, stop, restart: resolve, guard, precheck, submit, await, settle | lost answers, jobs that outlive the wait or are forgotten, other users, resume | one job; no false completion or failure |
| LPAR decommission (`operations/lpar/decommission.py`, `ownership.py`) | the inventory and the step records of one call | inventory, authorize, power off, detach mappings, detach adapters, delete | other agents own, activate, rewire and map between any two requests; unanswered writes | only what was inventoried goes; stops when taken or activated; truthful report |
| LPAR provisioning and assignments (`operations/lpar/provision.py`, `workflows.py`, `dlpar.py`, `assignments.py`) | the plan and the step records of one call | provision, create, attach a disk, modify, apply assignments | a step fails after others succeeded, or after it took effect; the partition is renamed, restamped or deleted meanwhile | every step is reported once, in order and truthfully |
| LPAR creation, configuration and boot (`operations/lpar/core.py`, `configuration.py`, `profile_sync.py`) | the selector, UUID, name and stamp that one call has read | create, rename, resize, describe, sync, add an adapter, power, delete | writes by UUID and writes by name, after names and stamps have changed | a call changes only what it resolved and was let to change, and says what it did |
| Live partition migration (`operations/lpar/migration.py`) | as above, and the job | validate, resolve anew, authorize, migrate, wait | the partition validated may not be the one migrated | migrates what it validated, unless others changed it |
| Storage resource writes (`client/client_storage.py`, `operations/storage/`) | the document read and its ETag; an upload's web File | disks, repository, media, mappings, ISO upload | whole-document read-modify-write, concurrent changes, unanswered writes | If-Match on every write; nothing but the named item changes; storage in use stays |
| PCIe, SR-IOV and vNIC changes (`operations/virtualization/`) | the view before a command and after it | assign and unassign slots and ports, add and remove vNICs | the readback shows other users' changes too; a command that timed out may still run | of two changes that collide one is told |
| Console session (`ssh/console.py`) | session state, channel owner, release proof, reconnect and close tasks; the HMC's one terminal slot | open, read, suspend, resume, reconnect, close | coroutines interleave at each await; the HMC never frees a dropped hold; takeover | a proven release is one; nobody else's session is ended; no output lost silently |
| Audit sink (`audit/sink.py`) | bounded queue, pending and dropped counts, closed flag, writer thread | submit, drain, close, the writer's loop | full queue, stalled or broken stderr, thread that cannot start, close racing submit | order, at most once, each loss reported |
| HMC REST session (`client/core.py`) | token, transport, legacy-port fallback, name caches and their locks | logon, logoff, request, discovery of names | a logon whose answer is lost, cleanup order under exceptions, a task cancelled in a discovery | every session is logged off or told of; no name is refused that exists |
| Job waits and handles (`jobs/`, `operations/jobs.py`) | the stored (job_id, job_href) of a caller | get, wait | links that go stale, a momentary 404, deadlines | gone is only said twice-read; no dead link is handed back |
| Authorization of tool calls (`authorization/`, `tool_registry.py`) | the compiled policy; `config.toml`, read by every decision | compile, register, authorize one call, the gateway, the report | grants that must not be mixed; the file changes between two reads | one grant covers tool, connection and targets; the record comes first; the report is of one file |
| LPAR plan (`operations/lpar/plan.py`) | what was read of each system | resolve, look at each system, select | systems change and reads fail while it looks | what is selected fits, and nothing that fits is tighter |
| Live test runner and arms (`scripts/live_test_runner.py`, `scripts/live_test/`) | artifacts, rows, the results document; what each arm made and read | one subtask after another; each arm makes, tests, removes and compares | a call that failed may take effect later; interrupts, kills, other users | what is called clean is clean; what is left is told; only its own is removed |
| Recovery checks (`scripts/live_test_recovery.py`) | the results document | one check for each arm | the document is partial or old | exit 0 only when nothing of the run is left |
| Release window, promotion and evidence (`scripts/run_release_window.py`, `promote_live_observations.py`, `check_capability_inventory.py`) | the children, the rows, the checkout and its branch, the stored evidence | preflight, arms, recovery, baseline, promote, gate | interrupts in three stages; a checkout that changes | a window that passes is one; evidence is current and none is lost |
| Capture and export of an HMC's vocabulary (`scripts/live_capture_*.py`, `scripts/live_test/capture.py`) | the corpus, the recorder | sweep of read-only tools, raw reads, export | names in free text, a partition that moved, a recorder that stopped | writes nothing to the HMC; publishes no name, secret or address |
| Snapshots (`snapshots/`) | the document | capture, validate, assess | reads taken at different times | strict parsing |

Components without behaviour of that kind: the MCP server and its tools
(`server.py`, `server_tools/`: register and forward), the command line (`cli.py`,
`cli_commands/`: arguments and presentation), documents and XML parsing,
configuration, reports (`operations/inventory/`, `operations/metrics/`), thin
one-request operations (VIOS, updates, users, templates).

How they interact. A tool or command builds an `HMCClient` for one invocation
and calls an operation with it. Power operations go through the logical engine:
`submit` admits the call and a worker thread runs the body in its own event
loop. The other workflows are plain coroutines without a journal: what
they did is in their result only. Each decision of the authorization layer
submits an audit record to the sink, from whatever thread it is made on.
Decommission, power, migration and the other changes of a partition consult the
ownership stamp that its description carries on the HMC, which is how agents
keep off each other's partitions. The live tests call the same operations
through the served tools, and the release window runs the live tests.

## 2. Plan

Done:

1. `LogicalEngine` (+ `MCLogicalEngine`, `LogicalEngineProofs`)
2. `AuditSink`, which implements the abstract `AuditTrail`
3. `ConsoleSession`; `HmcSession`, `JobWait`, `Authorization`, `LparPlan`
   (+ `MCClient`, `MCLive`, `ClientProofs`)
4. `Decommission` (+ `DecommissionProofs`), `StorageWrite`, `PcieChange`,
   `LparWorkflow`, `LparMutation` (+ `MCWorkflows`, `WorkflowsProofs`)
5. `PowerLpar` (+ `PowerLparProofs`), on the guarantees shown of 1
6. The live tests: `LiveVmedia`, `LivePcie`, `LiveSriov` (+ `MCHarness`);
   `LivePower`, `LiveNetwork`, `LiveLparConfig`, `LiveBareCec`, `LiveStorage`,
   `LiveDetachProbe`, `LiveUsers`, `LiveProfiles`, `LiveViosBackup`, `LivePcm`,
   `LiveVolumeGroup`, `LiveRound2`, `LiveInventory`, `LiveCapture`, `LiveRunner`,
   `ReleaseWindow`, `Promotion`, `ReleaseEvidence` (+ `MCArms`)

To do: proofs of the arms of the live tests (`CleanTrue`, `LeftTold`,
`OnlyOwnRemoved`), beginning with those that share a shape (`LiveUsers`,
`LiveStorage`, `LiveDetachProbe`); the type invariants of `MCHarness` and
`MCArms`; an abstract `OperationContract` that
`LogicalEngine` implements.

Composition. `MCLive`, `MCClient`, `MCWorkflows`, `MCHarness` and `MCArms` put
components side by side that share no state: a variable `which` says which of
them a behaviour runs, the others' variables are "off" or, of the base module,
stay as they are. They are a way of asking the same question of several
components in one run, not a claim about their interaction. Where components do
interact, the module of the caller models the callee by what that promises:
`PowerLpar` takes the engine so, `LivePower` the workflows it calls, the
release window its children by their exit status.

## 3. Modules and code

The steps of the environment (a process is killed, a job ends on the HMC, a
command that timed out lands, other users act, an operator interrupts) are
actions like the others; they translate no line of the repository, so
PROJECT.json maps them only where a mutant changes one.

**LogicalEngine.** Processes of one host share `storeVars` (the SQLite tables)
and `flock` (who holds the lock of the file now on disk). A process that holds
some lock file's lock (`fd`) moves through `stage`: `Enter` and `KeepLock`,
`Recover`, `TakeLock` or `LockRefused` are `acquire_execution_lock`;
`AdmitNew`, `Repeat`, `Abandon`, `Continue`, `Refuse` are the outcomes of
`_admit_existing` and `insert_operation`; `StartWorker`/`StartFails` is
`_start_worker`. A worker thread's `pc` follows `_work` and `_run`: load,
classify open effects (`reconcile`), run the body, end, unregister. The body is
any body: it guards, adds ledger entries, and attempts effects in any order;
an effect is `BeginEffect` (the intent), `SendWrite`, `WriteEnds`, `Settle` or
`SettleFails`. `flight`/`applied` are the HMC. Abstractions: a transaction is
atomic and one that fails changes nothing (SQLite); a classifier, and an
`EffectNotApplied` a body raises, say `not_applied` only of a write that did not
happen, which is their contract; a body has one effect under way at a time; the
successful outcomes `configured`, `boot_started` and `completed` are one. `LockAssumption`
is docs/mcp-server.md: never remove the lock file while another process runs.

**AuditSink / AuditTrail.** Producers submit under the lock, so a submission is
one step. The writer's loop is one action per release of the lock or blocking
call (`pc`: get, report, mark, restore, write, settle, done). Drain and close
are a step that starts a bounded wait and steps that end it (the condition held,
or time was up). `stderr` may be read, stuck or broken, and changes. A single
writer `pc` is enough: the sink starts one thread in its life. Notification is
folded into `DrainEnds`, which may fire once its condition holds.

**ConsoleSession.** One action per await-to-await stretch of each coroutine:
`acq` is `_acquire` (open, resume, reconnect), `rel` is `_release_hold` with its
probe, `teardown` is `close`; `read`, `reader` and `got` are the read in flight.
`slot` is the HMC's terminal: free, ours, orphan (held for a dead connection),
the probe's, or another client's. The four Boolean constants name behaviours of
the world that the session cannot tell: a slot granted to a `mkvterm` whose
banner never arrives, bytes that share a chunk with the banner, a timeout that
cancels a reader after its chunk was taken, an `rmvterm` that exits 0 and leaves
the terminal open. Assumed: the one-second scan before a release reads all that
is buffered. Process exit is not modelled.

**HmcSession.** `phase` is the `async with` of one client: logon with its one
fallback to the legacy port, the body, logoff, close. Every request may be
answered, rejected, unanswered after it was carried out, or cancelled. Beside it
tasks of the body ask for names: a discovery anchor is one lock and one cache;
`Enter` is the double-checked read under the lock, `Answered`, `Refused` and
cancellation end it.

**JobWait.** `wait_for_job` with its stored link, the global path, the confirming
read after a 404 and the deadline, in ticks. The HMC may know the job under one
path and not under the other, answer once with 404, or forget the job.

**Authorization.** Loading compiles an authored document, or the generated legacy
one; a call goes through registration by ceiling, the gateway, the decision with
its record, and the handler, which reads `config.toml` again. `Edit` changes that
file between any two reads. A grant is authored as sets of tools, effects,
connections and a table of targets; the properties are of the document as
written, the actions of the compiled policy.

**LparPlan.** The reads of a plan in their order, for each system in turn: one
action per read, which may be denied, fail, or time out and stop the asking;
other users change a system from any point on.

**Decommission.** Every request of the workflow is one step; the answer of a
write may be lost whether or not it was carried out. Other agents restamp,
rename, activate, delete, rewire and remap the partition between any two
requests, `Turns` times. Each authorization reads the description of whatever
bears the name captured at the inventory (`bearer`, `Description`), as
`authorize_decommission_lpar_ownership_snapshot` does: the partition itself,
nothing, or another partition that took the name, of which the model keeps the
stamp. Everything else goes by UUID, that is, to the partition of the inventory
whatever it is called. Detach is the read and the conditional post of
`_rmw_vios_mapping` (`GetMappings`, `PostMappings`); `fresh` is the ETag still
matching. The history variables say what our writes did (`sent`, `removed`,
`collateral`) and in which phase another agent took or activated the partition
(`seized`, `woken`), and whether it bore its name when the phase was authorized
(`bore`). Assumed of the HMC: it enforces If-Match and refuses to
delete an activated partition. The code sorts mappings and adapters; the
model takes them in any order.

**StorageWrite.** Several callers, one call each at a time: the checks of the
operation, the GET of the whole group or mapping collection, the edit (`draft`,
`rewired`), the conditional post, which may be refused, carried out, or carried
out and not answered (`stale` says whose ETag no longer matches). `upload_iso`
goes from its look through download, recheck, web File, stream and import to
poll and release. Others change group and mappings between any two requests.

**PcieChange.** The six changes as preflight, command, readback and verdict.
`Takes` is the command at the HMC; a caller in `late` gave it up while it still
runs, and `landed` notes that it took effect after its call had ended. `wrote` says whose
command is what a profile now lists of a slot. The verdicts (`VerifyDedicated`,
`ReadAssignment`, `ReconcileAdd`, ...) compare the two views as the code does.

**LparWorkflow.** A request fixes the `plan` of step names; `steps` is the report
that grows with it. Making the partition is one action per answer of
`create_and_stamp_lpar` and of its CLI fallback; a leg by UUID needs the
partition, a leg by name needs the name and the stamp. A command may fail after
it took effect (`done`).

**LparMutation.** Callers on one system change partitions while other users
rename, restamp, switch, delete and make them. `Resolve`, `ReadName` and
`Authorize` are the three reads of a mutation, after which `Post` writes by
UUID under If-Match and `WriteNamed` by name. `wrong` collects every write that
reached what its call was not let to change, except where others changed that
partition during the call (`since`); `did` is what each call really did.

**PowerLpar.** The engine is taken as `LogicalEngine` shows it: one worker, an
effect that a crash leaves open, a guard held until the operation is terminal.
The body's steps are `Resolve`, `Guard`, `Check`, `Submit`, `Answer`, `Await`,
`Settle`; `Reconcile` is the engine's classification with power's classifiers
and the body's replay branch. A request reaches the HMC late or never
(`Arrive`), its job ends well or badly with or without having switched the
partition (`JobEnds`), and is forgotten (`Forget`). Partition states are the
three the code tells apart.

**The arms of the live tests.** Each module follows its arm's calls in order, one
action per call with the branch taken on its answer. Common to all: a call is
answered PASS or FAIL whatever it did (`Answers`, `faults`), what it asked for
may be carried out later (`flying`, `Land`), others change the same things
(`Touch`), and the run may be interrupted, when it writes what it has, or
killed, when it writes nothing. `LiveVmedia` is subtasks 16 to 22 with two runs in
sequence that hand on the artifacts; `LivePcie` the dedicated slot with its
probe (24); `LiveSriov` the logical port (23); `LivePower` create, power, delete
and provision, decommission (41); `LiveNetwork` the five round trips (9);
`LiveLparConfig` the scratch partition (39); `LiveBareCec` create, activate and
guarded cleanup (25); `LiveStorage` the virtual disk (40); `LiveDetachProbe` the
volume detached under Open Firmware; `LiveUsers` the scratch user (11);
`LiveProfiles` subtasks 0, 4, 10 and 15; `LiveViosBackup` backup and restore (37);
`LivePcm` the collection preferences and their coupling (38); `LiveVolumeGroup`
the scratch group (42); `LiveRound2` baseline, scratch partition and fixture (0,
8, 14); `LiveInventory` the arms that only read and compare what they read
(1, 3, 4, 5, 12, 29).

**LiveRunner, ReleaseWindow, Promotion, ReleaseEvidence, LiveCapture.** The runner is two
invocations, in turn or at once, with the document each writes and the next one
reads; its subtasks stand for one that makes a thing. The window runs baseline,
arms with preflight and recovery check, baseline, evidence, promotion and gate as
children, with an interrupt in three stages. The promotion checks the checkout,
reads, branches, writes, generates and commits. `ReleaseEvidence` is what the
promotion writes about one operation and what the reader of the inventory makes
of it. The capture sweeps or exports: an item of a record is a value and how it
appears there (a name, text, an enumeration, a secret, an address).

## 4. Runs

| Run | Instance | Shows |
|---|---|---|
| client | the engine with 1 operation, 2 processes, 2 threads, 2 keys, one with a classifier; a session with 2 tasks, 1 name, 3 requests; a wait of 0 or 3 ticks, 2 blips; a console with 2 chunks and 5 turns of the other client; a server; a plan over 2 systems; a sink of 3 lines, a queue of 1, 2 callers | `OneRunner`, `AtMostOnce`, `NothingUnjournaled`, `SessionsAccounted`, `CacheSound`, `JobKnown`, `ReleaseSafe`, `BytesKept`, `CallsAuthorized`, `ReportTrue`, `GapFirst` (with the refinement of `AuditTrail`) |
| engine_lock | 2 operations, 1 process, 2 threads, 1 key with a classifier, the lock file replaceable | `NeverOrphaned`, `JournalCurrent`, `SettledEnd`, `TerminalFinal` |
| live | the engine with 2 operations, 1 process, 1 thread, a partition, a ledger key; a console with no data and 2 turns, every behaviour of the world; a sink | `GuardExclusive`; `OrphanFound`, `CloseEnds`, `Settles` under fairness |
| workflows | decommission with 2 adapters, 2 mappings, 2 changes by others; storage with 2 clients, 1 name, size and device, 2 partitions of which 1 may be changed; PCIe with 2 callers, 2 partitions, 1 slot or port, 2 slot numbers; requests with up to 2 assignments; 2 callers that change 3 partitions of 3 names | `StopsInTime`, `OnlyInventoried`, `BareWhenDeleted`, `Truthful`, `CallsHonest`, `WritesConfined`, `CollisionsTold`, `ReportTruthful` |
| harness | 2 power operations, 4 requests, 1 change by others; two virtual-media runs; a dedicated-slot and an SR-IOV run | `OneJob`, `EndsProven`, `NoOverlap`; `CleanTrue`, `LeftTold`, `OnlyOwnRemoved` |
| arms | one run of each of the other arms, the runner, the capture, the window, the promotion and its evidence | `CleanTrue`, `LeftTold`, `OnlyOwnRemoved` |
| sink_raises | the sink, 1 caller, a thread that may not start | finding: `NeverRaises` is violated |
| console_stale_proof, console_late_timeout | one behaviour of the world each | findings: `ReleasedProven`, `KnownLossSpared` are violated |
| decommission_unreported | 1 adapter, 1 mapping, 1 change | finding: `PartialReported` is violated |
| provision_unreported | 2 assignments, 2 changes | finding: `ProvisionReported` is violated |
| sriov_mutates_others | no fault, nobody else | finding: `OthersKeep` is violated |

`TypesOK` is the type invariant of each composite. A property with the name of
one question conjoins that of every component it is asked of: `ReleaseSafe` is
the console's `KnownLossSpared` and `ReleasedProven`, `BytesKept` includes
`OneTask`, `JobKnown` is `WaitHonest` and `LinkAlive`, `CallsHonest` and
`WritesConfined` are of storage writes and of single calls, `ReportTrue` is of
the report of permissions, of the plan and of drain, `GapFirst` of the console's
gap marker and the sink's; `EndsProven` of what ends as completed and as
failed, `StopsInTime` of a partition taken and one activated. The first half of
`StopsInTime` is asked of a partition that bore its name when the phase was
authorized; section 6 says what happens to another.

Why these bounds. The engine's hazards need two of something: two processes that
want the lock, two threads of which one is ending, two effects of which one is
open, two operations that want one guard. A third adds interleavings of the same
pairs, and for the safety properties the proofs cover every size. The sink's
queue of one and three lines make a full queue, a sentinel behind a line, and a
loss after a marker all happen. Five turns of the other console client let it
take, lose and take the slot again around a suspend and a reconnect; two
chunks put one in flight and one handed over or unread. Decommission's two
changes allow a stamp and its withdrawal, a stamp and a rename (which may give
the name to another partition at once), or a mapping and an activation; two
mappings make the collection carry one that is not being removed. Two power
operations make a guard conflict and two pending jobs possible. Two storage
clients and two PCIe callers collide; two calls in all let each follow the
other's. Three partitions with three names let one name move from a partition to
another while a call holds both it and the UUID. An arm runs once (`LiveVmedia`
twice, as only it owns something across runs), with one or two faults, touches
and interrupts each: enough for a failed call, its late effect, and a cleanup
that fails because of it.

Symmetry is used in safety runs only, over sets whose members the module never
tells apart. Deadlock is not checked where the system stops: workflows, arms and
power operations after their end.

Fairness. Engine: threads are scheduled, a body does not run for ever (its
waits have deadlines), and callers keep calling; the property is about what
calls find, so without calls it says nothing. Sink: a started thread runs and a
bounded wait ends; `Settles` further assumes that stderr does not stay stuck,
which is the code's stated limit. Console: the event loop runs each coroutine
that can continue, and every wait of the acquisition, the release and the
probe has a timeout; nothing is assumed of the HMC, the other client or the reader.

## 5. Proofs

Five modules hold proofs. All of them are of a specification that a run checks,
so each theorem states for every value of the constants what the run shows on
its instance; the assumptions are the named ones of the components' modules,
which every run evaluates.

`LogicalEngineProofs` proves every safety property of the engine, from
`ClassifiedAssumption`, `CapacityAssumption`, `NoneAssumption`,
`StageAssumption` and `LockAssumption`. The inductive invariant is

    IInv == TypeOK /\ LockInv /\ JournalInv /\ GuardInv

None of the properties is inductive by itself. `OneRunner` needs to know that
only the holder of the one current lock has active workers or is about to start
one, that each active worker is the registered one of a running record, and that
a process between entering `submit` and taking the lock remembers all its workers as
spared (`LockInv`). `AtMostOnce` needs that what a worker remembers is what the
store holds (so `OneRunner` first), that an effect under way is open in the
journal, that nothing was sent before its intent, and that whatever the journal
denies was ruled not to have happened (`JournalInv`). `GuardExclusive` needs
the agreement of `guarded` and `part` (`GuardInv`). For each part there is a
lemma per group of actions (admission, a worker's steps, the environment), each
with one step per action, and one theorem per property.

`PowerLparProofs` proves `OneJob`, `EndsProven` and `NoOverlap`, for
every set of operations and requests and any number of changes by others, from
`RequestAssumption` and `TurnsAssumption`. Its invariant is

    IInv == TypeOK /\ (\A o \in Op : OpInv(o)) /\ OneHolder

where `OpInv` says per operation where its worker may be for each status of the
effect (`WorkInv`), that nothing was sent before the intent and a JobID names a
job the HMC has or had (`JobInv`), that the listing the precheck uses is among the
states seen since the operation began (`SeenInv`), and on what evidence a worker
settles or an operation ends (`EndInv`); `OneHolder` is the engine's
guard. `OneJob` follows from `JobInv` because the write is reached only with
the effect absent before; `NoOverlap` needs `OneHolder`, and `EndInv` to exclude
that a job somebody can still name is pending after its operation ended.

`DecommissionProofs` proves `StopsInTime`, `OnlyInventoried`, `BareWhenDeleted`
and `Truthful`, for any adapters and mappings and any number of changes by
others, from `NamesAssumption` (adapter UUIDs, mapping identities and step names
are told apart) and `TurnsAssumption`. Its invariant is

    IInv == TypeOK /\ SentInv /\ TodoInv /\ BareInv /\ SeizedInv /\ WokenInv /\ Truthful

`SentInv` bounds what can have been sent at each request, so that the step that
fails determines what the skipped ones cannot have sent. `TodoInv` says that a
loop works off the first inventory and that a matching ETag means the mappings
read are those there are, without which posting the whole collection could
change another one. `BareInv` follows what the partition still has from the
inventory through both loops. `SeizedInv` and `WokenInv` tie the stamp and the state to
the phase in which they were last changed: a look that finds the partition, under
its name, without another agent's stamp clears the phase it opens, and so does
one that finds it off.

`ClientProofs` proves the properties of the other components of the client run,
each from an invariant of its component alone (`which = "session" => ...`),
under `ClientAssumption`:

- `SessionsAccounted` from `Accounts`, the same account for every phase: before
  the body no session is known, in it the token is that of the attempt, after it
  what is left has been told.
- `CacheSound` from `CacheInv`: the lock of an anchor is with the one task that
  reads it, its cache stays empty until then, and what it holds is what the HMC
  defines.
- `JobKnown` from `WaitInv`: a wait has one link to lose and knows which
  (`OneDeadLink`), and how long a job that was seen has been missing is measured
  from the first read that missed it (`AskedAgain`).
- `ReleaseSafe` and `BytesKept` from `ConsoleInv`: the bytes received are output,
  then perhaps the report, then perhaps the end (`Ordered`), every chunk printed
  is accounted for (`Counted`), a proof stands only while the slot has nothing
  of the session (`Proven`), and a report that came is on its way to whoever
  decides before `rmvterm` (`Heeded`). This is the instance whose four Boolean
  constants are FALSE: two of them are the findings below, where the property
  fails, and the other two are limits the code states.
- `GapFirst`, an action property, from `ConsoleInv` for the marker of a gap and
  from `SinkInv` for the sink: every step of `AuditSink` maps to a step of
  `AuditTrail` or to none, shown action by action, and no line lands above a
  marker it was accepted behind. `SinkInv` places the sentinel, counts what is
  pending and follows every drop from the counter to its marker
  (`DropsFollowed`). `DrainSoundAlways` is what drain and close answer for.
- `CallsAuthorized` from `ServerInv`, for any tools, policies, files, tokens and
  edits that meet `SecurityAssumption` and `NamesAssumption` (no profile has the
  name of what stands for none). Once served, the policy is the compiled
  document (`PolicyServed`); a call that is decided was exposed, and its records
  so far are those of its stage (`CallStands`); and a compiled grant selects,
  allows and bounds what the authored one does (`Matches`, `ConnectionMeant`,
  `PermittedBound`), so that the one matching grant of the decision is one of the
  document. An attempt of this proof showed that an earlier statement of
  `DecisionRecorded` was false: a call without a token is decided for the default
  connection also while the file of profiles cannot be read, where no connection
  can be built. `Meant` says so now, and a richer policy of the run would show
  the difference.
- `ReportTrue` from `ServerInv` for the report of the guards (`FilesSeen`), from
  `SinkInv` for drain, and for the plan from `PlanInv`, for any number of
  systems, VIOSes, faults and changes. What was read of a system is what it is,
  or it was touched since (`ShotsTrue`); the checks so far have shown what they
  are for (`Passed`), the VIOSes read gave the pairs there are (`Collected`) and
  one of them the only one (`Chosen`); a system nothing speaks against fits
  (`Judged`), and where nothing failed and nothing changed the reverse
  (`Undisturbed`).
- `TypesOK` from all of these, `IInv` of `LogicalEngineProofs` and what the
  other fields need: a client goes back to the legacy port once (`LogonTypes`),
  no more was handed to readers, or is still to be, than was printed (`Output`),
  and the sentinel alone is over the queue's capacity (`Stderr`).

`WorkflowsProofs` proves every property of the workflows run that is not
decommission's, under `WorkflowsAssumption`, and its type invariant:

- `CollisionsTold` from `PcieInv`, for any callers, partitions, things and number
  of calls: while nobody else edits a profile it lists a slot as the last
  command left it (`WroteIsThere`), no two callers hold one slot (`HeldOnce`);
  while no vNIC is removed an add that was answered shows, and shows beside any
  other that is still to be read (`AddsShow`). The property is stated for what
  nobody else touched, and the variable `wrote` says whose command a profile now
  shows: without it the statement is not even true beyond two calls.
- `CallsHonest` and `WritesConfined` from `StorageInv` for storage: what a caller
  may post is an edit of what the HMC still has, unless its ETag is stale
  (`Fresh`); a mapping is changed for a partition its caller may change
  (`Allowed`); storage past its check was unmapped once (`Unmapped`); of an
  upload's name nothing is there that was there before its second look
  (`NewSince`). And from `MutationInv` for the calls that change one partition:
  names are unique on a system (`OneName`), and per call, where it is and what it
  was asked for, what it has read, that it aims at what it resolved and was let
  to change, or that others changed that since, and that what it validated is
  what it migrates (`Right`).
- `ReportTruthful` from `WorkflowInv`: the plan of every request names each step
  once (`PlansWell`); until the creation is judged the report has at most the
  profile's step (`Unjudged`); in the legs it is a prefix of the plan in which
  all is fine and agrees with what was done (`InLegs`). The lemmas on sequences
  (`DistinctConcat`, `Filled`, `Appended`, ...) say what filling up and
  inserting does to such a prefix.
- `TypesOK` from all of these and `IInv` of `DecommissionProofs`.

Model-checked only: `OrphanFound`, `Settles` and `CloseEnds` (liveness, which
with ENABLED is out of the prover's reach); `TypesOK` of the harness
and arms runs; and what the live test arms, the runner, the window, the
promotion and the capture promise (`CleanTrue`, `LeftTold`, `OnlyOwnRemoved`):
these are conjunctions over some twenty components, each of which needs an
invariant of its own. Their instances are fixed by the arm (its names and its
subtasks are those of the code), so what a proof would add is any number of
faults, touches and late effects.

## 6. Findings

1. `sink_raises`: a writer thread that cannot start makes `submit` raise, though
   its documentation says never, and leaves a sink that accepts and writes
   nothing (audit/sink.py:167).
2. `console_stale_proof`: `close()` after a failed `resume()` reports the release
   proven by the earlier `suspend()` while the HMC holds the slot for the dead
   stream (ssh/console.py:1268).
3. `console_late_timeout`: a reader cancelled after its inner read completed
   throws away the chunk, which may be the loss report that must keep a release
   from issuing `rmvterm` (ssh/console.py:964).
4. `decommission_unreported`: a refusal of the authorization before the mapping
   detach leaves the call as an exception, and the power-off already done is not
   reported (operations/lpar/decommission.py:1131).
5. `provision_unreported`: a leg that looks the new partition up by name raises a
   `ValueError` or a `PermissionError` when it was renamed or restamped, which
   no handler turns into an error step: the report of a partition that was made
   is lost (operations/lpar/provision.py:215).
6. `sriov_mutates_others`: the cleanup of the SR-IOV arm removes a port that was
   configured on the test partition before the run, when the baseline failed or
   was skipped (scripts/live_test/pcie.py:824).

Observations without a run of their own.

Operations:

- Decommission authorizes each phase by the name captured at the inventory
  (decommission.py:1113, 1131, 1156; ownership.py:579) and writes by UUID. A
  partition that another agent takes and renames is still powered off, detached
  and deleted when a partition whose stamp permits has taken its old name, and a
  partition that was only renamed is refused. ADR 0027 calls the recheck
  advisory; `StopsInTime` excepts the former (`bore`).
- engine.py:330 logs that a record whose end could not be stored reads as
  running until the process exits; the next call for it (engine.py:261) already
  marks it interrupted. Ledger entries of the store are never removed
  (store.py:471).
- The sink does not report a line lost while the process exits after its bounded
  drain (audit/sink.py:141), and a failed marker is retried behind the line it
  was to precede, which is why `MarkerAhead` excepts it.
- The console's probe trusts `rmvterm`'s exit status (ssh/console.py:29), and a loss
  report that shares a chunk with the banner is not looked for
  (ssh/console.py:1241): the passing run assumes neither happens.
- A power effect that is classified applied from the partition's state, while
  its own job (whose answer was lost) may still be queued, ends the operation
  and frees the guard; `NoOverlap` excepts it as `Loose`. The precheck uses the
  listing taken before the guard, so a start may be submitted for a partition
  that the previous holder has just started; the HMC refuses it.
- PCIe: a call that is told "ok" although its own command timed out may see that
  command land later, and collide with whoever came between; likewise after
  "nothing changed" was reported. A vNIC removed meanwhile gives its number to
  the next add, so two adds can both be told ok for one vNIC. `CollisionsTold`
  excepts both.
- A logon retried on the legacy port leaves the session of the unanswered first
  one (client/core.py); `SessionsAccounted` excepts it as `unread`.
- Authorization reads `config.toml` twice, for the decision and in the handler
  (accepted by ADR 0038). `migrate_lpar` validates one partition and resolves the
  name again before it migrates. `set_lpar_ownership_description` overwrites a
  handover completed between its read and its write. Checks of absence read the
  system's state after the search (client/client_resolution.py). A snapshot is
  composed of reads at different times (snapshots/operations.py:399). A plan's
  capacity and state are those of its first read, and may be stale when it
  selects.

Live tests:

- The recovery check exits 0 although a probe partition or an unstamped fixture
  that the run itself reported as MANUAL RECOVERY survives
  (scripts/live_test_recovery.py:862, 982), while its docstring says that exit 0
  means nothing is stranded.
- Virtual media: a saved boot order is given up when the restore fails.
- Dedicated slots: `_record_dedicated_additions` says that no probe partition
  remains while an unconfirmed one still counts as passed; without a readable
  baseline the cleanup's guards do not compare the profile, so a slot another
  user added is deleted with the fixture. A configured slot is selected without
  looking at the profiles (subtask 29). SR-IOV: the reassignment is never
  dispatched, and the cleanup also removes a port that another user gave the
  partition after a clean baseline.
- lpar-power: a kept decommission latch also leaves partition A without a row;
  `_gone` says "read twice before believing it", but believes the first listing
  without the name (as in lpar_config.py). lpar-config: a selected slot makes a
  failed create report MANUAL RECOVERY though no partition exists. bare-cec: an
  interrupt during the create leaves no row.
- Network: `remove_new_adapters` also deletes an adapter another user added since
  the baseline (network.py:902), and the recovery check does not look at the
  VIOS's server adapters and mappings. Disks: recovery looks for the run's disks and
  mappings, not for the adapter a failed map leaves.
- Profiles: subtask 15 writes subtask 0's description and profile mode back
  whatever is there now, and never restores MSP or sync; subtask 10's check that
  a memory pool is refused would remove one made between its list and its call;
  subtask 8 works by name throughout (lpar.py:29); a rerun of the group captures
  its baseline over that of an interrupted run (inventory.py:20).
- vios-backup: an interrupted run leaves the backup without the row that it
  promises whenever it keeps one (vios_backup.py:55), so recovery offers to
  remove it although the VIOS may be off baseline; and the restore overwrites
  what others changed since the backup. pcm: a system with aggregation on and
  energy monitoring off cannot be restored once energy monitoring was toggled.
- Release: HEAD and the state of the tree are read only when results are written,
  and HEAD may move between the window's check and the promotion's own read;
  which branch is checked out is not looked at (ADR 0220); of changed artifacts
  only the names are checked, and after the commit only HEAD; two windows in
  one checkout are not excluded, and a killed one leaves its arm running; a
  re-produced id replaces a stored, newer, failed row.
- Runner: two runs into one destination are not excluded; a run whose emission
  writes nothing leaves an earlier run's observations beside its results; a
  failed final write emits none. The fleet-health observation passes when the
  boundary system has left the fleet while the state read before was "operating".
- Capture: a name glued into a longer word stays unless a `--private` pattern
  matches it; a partition found on another system ends the sweep with an error
  before any raw read; the corpus file is truncated before it is written.

## 7. Not modelled

See the components of PROJECT.json, each with its reason: snapshots, reports,
the thin operations, REST resource clients and SSH commands (one request and its
parsing), documents, configuration, audit records, the MCP server's forwarding
and the command line. Besides: formatting, parsing, logging and the wording of
errors everywhere; SQLite itself; the file permissions of the state directory;
the ownership fleet discovery; the evidence rows of a decommission that stays
incomplete; the capacity arithmetic of plans and of SR-IOV; boot strings, the
affinity preflight and remote restart; the creation of a volume group and
mappings of whole physical volumes; the free-space diagnostics, the gateway
subtask and the plain read-only rows of the live tests; the schema checks of the
capability inventory.
