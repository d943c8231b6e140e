------------------------------ MODULE MCClient ------------------------------
(* What one process of hmcpctl keeps beside its operations, side by side with *)
(* the engine: the session of an HMCClient, the wait for a job, a console     *)
(* session, the access policy of its server, the plan of a partition, and the *)
(* sink of its audit records.  They share no state; each behaviour runs one   *)
(* of them, and the variables of the others are "off".                        *)
EXTENDS MCLogicalEngine

CONSTANTS
  Tasks, Names, MaxCalls,             \* HmcSession: coroutines, names of properties, requests
  Timeouts, Intervals, Blips, Lags,   \* JobWait: what callers ask for, and what the HMC may do
  TakeOver, Reconnect, Chunks, Turns, \* ConsoleSession: its options, output, another client
  Edits,                              \* Authorization: edits of config.toml
  NSystems, NVios, MaxFaults, MaxTouches,   \* LparPlan: the systems, and what goes wrong
  Lines, Slots                        \* AuditSink: lines submitted, _QUEUE_CAPACITY

VARIABLES
  which,   \* the component that runs
  (* HmcSession *)
  sessions, defines, phase, attempt, fallback, token, raised, tells, unread, cache, lock, at,
  ask, reads, calls,
  (* JobWait *)
  hmcJob, resolves, global, advertised, jobPc, href, deadLink, timeout, interval, observed,
  rereading, status, found, returned, wake, clock, seen, absent, silence, last, stale, blips,
  lags,
  (* ConsoleSession *)
  takeOver, condition, owner, closing, teardown, released, proof, rclosed, rec, abort, acq,
  reply, rel, eof, read, reader, got, slot, link, buf, transit, told, sent, given, gap, turns,
  (* Authorization *)
  ambient, enabled, document, grants, exposed, unbound, config, edits, callPc, call, trail,
  decided, reached, snap, rows, versions,
  (* LparPlan *)
  sys, request, planPc, planAt, shot, stalled, left, pairs, complete, speaks, selected, digest,
  touched, after, faults, touches,
  (* AuditSink *)
  queue, pending, dropped, shut, writer, writerPc, item, owed, landed, asks, asked, lines,
  marked, before, failed, stream, stderr

sessionVars ==
  <<sessions, defines, phase, attempt, fallback, token, raised, tells, unread, cache, lock, at,
    ask, reads, calls>>
jobVars ==
  <<hmcJob, resolves, global, advertised, jobPc, href, deadLink, timeout, interval, observed,
    rereading, status, found, returned, wake, clock, seen, absent, silence, last, stale, blips,
    lags>>
consoleVars ==
  <<takeOver, condition, owner, closing, teardown, released, proof, rclosed, rec, abort, acq,
    reply, rel, eof, read, reader, got, slot, link, buf, transit, told, sent, given, gap, turns>>
policyVars ==
  <<ambient, enabled, document, grants, exposed, unbound, config, edits, callPc, call, trail,
    decided, reached, snap, rows, versions>>
planVars ==
  <<sys, request, planPc, planAt, shot, stalled, left, pairs, complete, speaks, selected,
    digest, touched, after, faults, touches>>
sinkVars ==
  <<queue, pending, dropped, shut, writer, writerPc, item, owed, landed, asks, asked, lines,
    marked, before, failed, stream, stderr>>

(* A server of six tools: a read and a write whose targets a table can bind, one it cannot     *)
(* bind, the arbitrary command, the report and the gateway.                                    *)
Binds(kind) == [kind |-> kind, path |-> kind]
Declared(e, kinds, x, c) ==
  [effect |-> e, selectors |-> {Binds(k) : k \in kinds}, exhaustive |-> x, connection |-> c]
Declarations ==
  [t \in {"list", "power", "plan", "hmc_run_command", "hmc_effective_permissions", "hmc_invoke_tool"} |->
     CASE t = "list"  -> Declared("read", {"system"}, TRUE, TRUE)
       [] t = "power" -> Declared("mutate", {"system", "lpar"}, TRUE, TRUE)
       [] t = "plan"  -> Declared("mutate", {"system"}, FALSE, TRUE)
       [] t = "hmc_run_command" -> Declared("arbitrary-command", {}, FALSE, TRUE)
       [] t = "hmc_effective_permissions" -> Declared("read", {}, FALSE, FALSE)
       [] t = "hmc_invoke_tool" -> Declared("destructive", {}, FALSE, FALSE)]

Wide(effects, tools, connections) ==
  [effects |-> effects, tools |-> tools, connections |-> connections, all |-> TRUE, table |-> <<>>]
Bound(grant, kinds) == [grant EXCEPT !.all = FALSE, !.table = [k \in kinds |-> {"s1"}]]
Policy(authored, beside) == [selected |-> authored, others |-> beside]

\* Two policies whose grants overlap, one that grants twice, one beside a malformed other.
Policies ==
  {Policy(<<Bound(Wide({"read", "mutate"}, {}, {"lab"}), {"system", "lpar"}),
            Wide({}, {"power", "hmc_invoke_tool"}, {"prod"})>>, {}),
   Policy(<<Bound(Wide({"read", "mutate"}, {}, {"<default>", "prod"}), {"system"}),
            Wide({"mutate"}, {"hmc_run_command", "hmc_invoke_tool"}, {"lab"})>>, {}),
   Policy(<<Wide({"read"}, {}, {"<default>"}), Wide({"read"}, {}, {"<default>"})>>, {}),
   Policy(<<Wide({"read"}, {}, {"lab"})>>, {<<Wide({"arbitrary-command"}, {}, {"lab"})>>})}

\* Two sets of profiles between which a name changes its meaning, and the two files without.
Config(how, names, nick, default) ==
  [state |-> how, profiles |-> names, nicknames |-> nick, default |-> default,
   guard |-> [p \in names |-> IF p = "lab" THEN "on" ELSE "unset"]]
Configs ==
  {Config("read", {"lab", "prod"}, [n \in {"nick", "lab"} |-> "prod"], "lab"),
   Config("read", {"prod"}, [n \in {"nick"} |-> "lab"], ""),
   Config("absent", {}, <<>>, ""), Config("unreadable", {}, <<>>, "")}

Session == INSTANCE HmcSession WITH pc <- at, told <- tells
Job == INSTANCE JobWait WITH job <- hmcJob, pc <- jobPc, link <- href, gap <- silence
Console == INSTANCE ConsoleSession WITH
  SilentGrant <- FALSE, Coalesced <- FALSE, LateTimeout <- FALSE, RmvtermLies <- FALSE,
  state <- condition

Server == INSTANCE Authorization WITH
  ToolSecurity <- Declarations, Documents <- Policies, Files <- Configs,
  Tokens <- {"", "lab", "nick"}, Values <- {"s1", "absent", "unreadable"},
  host <- ambient, registered <- exposed, warned <- unbound, file <- config, pc <- callPc,
  seen <- versions
Plan == INSTANCE LparPlan WITH pc <- planPc, at <- planAt
Sink == INSTANCE AuditSink WITH
  Capacity <- Slots, Caller <- Thread, StartMayFail <- TRUE, closed <- shut, pc <- writerPc,
  call <- asks, sent <- lines, told <- marked

ASSUME ClientAssumption ==
  /\ Session!SessionAssumption /\ Job!JobAssumption /\ Console!ConsoleAssumption
  /\ Server!SecurityAssumption /\ Server!NamesAssumption /\ Sink!SinkAssumption /\ Plan!PlanAssumption

ClientInit ==
  /\ Init
  /\ which \in {"engine", "session", "job", "console", "server", "plan", "sink"}
  /\ IF which = "session" THEN Session!Init
     ELSE /\ sessions = "off" /\ defines = "off" /\ phase = "off" /\ attempt = "off"
          /\ fallback = "off" /\ token = "off" /\ raised = "off" /\ tells = "off"
          /\ unread = "off" /\ cache = "off" /\ lock = "off" /\ at = "off" /\ ask = "off"
          /\ reads = "off" /\ calls = "off"
  /\ IF which = "job" THEN Job!Init
     ELSE /\ hmcJob = "off" /\ resolves = "off" /\ global = "off" /\ advertised = "off"
          /\ jobPc = "off" /\ href = "off" /\ deadLink = "off" /\ timeout = "off"
          /\ interval = "off" /\ observed = "off" /\ rereading = "off" /\ status = "off"
          /\ found = "off" /\ returned = "off" /\ wake = "off" /\ clock = "off" /\ seen = "off"
          /\ absent = "off" /\ silence = "off" /\ last = "off" /\ stale = "off" /\ blips = "off"
          /\ lags = "off"
  /\ IF which = "console" THEN Console!Init
     ELSE /\ takeOver = "off" /\ condition = "off" /\ owner = "off" /\ closing = "off"
          /\ teardown = "off" /\ released = "off" /\ proof = "off" /\ rclosed = "off"
          /\ rec = "off" /\ abort = "off" /\ acq = "off" /\ reply = "off" /\ rel = "off"
          /\ eof = "off" /\ read = "off" /\ reader = "off" /\ got = "off" /\ slot = "off"
          /\ link = "off" /\ buf = "off" /\ transit = "off" /\ told = "off" /\ sent = "off"
          /\ given = "off" /\ gap = "off" /\ turns = "off"
  /\ IF which = "server" THEN Server!Init
     ELSE /\ ambient = "off" /\ enabled = "off" /\ document = "off" /\ grants = "off"
          /\ exposed = "off" /\ unbound = "off" /\ config = "off" /\ edits = "off"
          /\ callPc = "off" /\ call = "off" /\ trail = "off" /\ decided = "off"
          /\ reached = "off" /\ snap = "off" /\ rows = "off" /\ versions = "off"
  /\ IF which = "plan" THEN Plan!Init
     ELSE /\ sys = "off" /\ request = "off" /\ planPc = "off" /\ planAt = "off"
          /\ shot = "off" /\ stalled = "off" /\ left = "off" /\ pairs = "off"
          /\ complete = "off" /\ speaks = "off" /\ selected = "off" /\ digest = "off"
          /\ touched = "off" /\ after = "off" /\ faults = "off" /\ touches = "off"
  /\ IF which = "sink" THEN Sink!Init
     ELSE /\ queue = "off" /\ pending = "off" /\ dropped = "off" /\ shut = "off"
          /\ writer = "off" /\ writerPc = "off" /\ item = "off" /\ owed = "off"
          /\ landed = "off" /\ asks = "off" /\ asked = "off" /\ lines = "off"
          /\ marked = "off" /\ before = "off" /\ failed = "off" /\ stream = "off"
          /\ stderr = "off"

ClientNext ==
  \/ which = "engine" /\ Next
     /\ UNCHANGED <<which, sessionVars, jobVars, consoleVars, policyVars, planVars, sinkVars>>
  \/ which = "session" /\ Session!Next
     /\ UNCHANGED <<which, vars, jobVars, consoleVars, policyVars, planVars, sinkVars>>
  \/ which = "job" /\ Job!Next
     /\ UNCHANGED <<which, vars, sessionVars, consoleVars, policyVars, planVars, sinkVars>>
  \/ which = "console" /\ Console!Next
     /\ UNCHANGED <<which, vars, sessionVars, jobVars, policyVars, planVars, sinkVars>>
  \/ which = "server" /\ Server!Next
     /\ UNCHANGED <<which, vars, sessionVars, jobVars, consoleVars, planVars, sinkVars>>
  \/ which = "plan" /\ Plan!Next
     /\ UNCHANGED <<which, vars, sessionVars, jobVars, consoleVars, policyVars, sinkVars>>
  \/ which = "sink" /\ Sink!Next
     /\ UNCHANGED <<which, vars, sessionVars, jobVars, consoleVars, policyVars, planVars>>
  \/ which # "engine"
     /\ UNCHANGED <<which, vars, sessionVars, jobVars, consoleVars, policyVars, planVars, sinkVars>>

clientVars ==
  <<which, vars, sessionVars, jobVars, consoleVars, policyVars, planVars, sinkVars>>

ClientSpec == ClientInit /\ [][ClientNext]_clientVars

(* The properties of the components, where they are stated.                   *)

\* Every variable of the component that runs has its type.
TypesOK ==
  /\ TypeOK /\ (which = "session" => Session!SessionTypeOK)
  /\ (which = "job" => Job!JobTypeOK) /\ (which = "console" => Console!TypeOK)
  /\ (which = "server" => Server!AuthorizationTypeOK)
  /\ (which = "plan" => Plan!PlanTypeOK) /\ (which = "sink" => Sink!TypeOK)

\* The client and its log tell of every session the HMC opened for it (HmcSession).
SessionsAccounted == which = "session" => Session!SessionsAccounted

\* A name is refused only after a feed that did not define it (HmcSession).
CacheSound == which = "session" => Session!CacheSound

\* A wait reports what the HMC said, within its time, and the link it hands on is none
\* that it saw die (JobWait).
JobKnown == which = "job" => Job!WaitHonest /\ Job!LinkAlive

\* A loss that was reported is never answered with rmvterm, and a release is reported only
\* with the slot free of the session (ConsoleSession).
ReleaseSafe == which = "console" => Console!KnownLossSpared /\ Console!ReleasedProven

\* No chunk printed while the session is held is lost, over pauses of its one task
\* (ConsoleSession).
BytesKept == which = "console" => Console!BytesKept /\ Console!OneTask

\* One grant covers a call that runs, its record says so, and the generated policy denies
\* nothing an edit could repair (Authorization).
CallsAuthorized == which = "server" => Server!CallsAuthorized

\* A report of the power guards is true of one config.toml (Authorization), a plan of a
\* partition of the systems it read, of which it selects the tightest fit (LparPlan), and a
\* drain that answers True of the lines behind it; close evicts nothing (AuditSink).
ReportTrue ==
  /\ (which = "server" => Server!ReportTrue) /\ (which = "plan" => Plan!PlanTrue)
  /\ (which = "sink" => Sink!DrainSound)

\* A loss is told before what follows it: nobody gets a byte across a gap before its
\* marker (ConsoleSession), the sink keeps the promise of AuditTrail and writes no line
\* above a marker it owes (AuditSink).
GapFirst ==
  [][/\ (which = "console" /\ given' > given => ~gap)
     /\ (which = "sink" => Sink!TrailStep /\ Sink!MarkerAhead')]_<<given, sinkVars>>
=============================================================================
