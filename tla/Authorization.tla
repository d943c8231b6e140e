---------------------------- MODULE Authorization ----------------------------
(* What the access policy of an MCP server lets a call do: how an authored     *)
(* policy is compiled, what it registers, how one call is authorized, which    *)
(* connection its handler then opens, and what the server reports of all that. *)
(* The policy is fixed once served; the file of connection profiles is not,    *)
(* and is read again by every decision, every handler and every report.        *)
EXTENDS Naturals, Sequences, FiniteSets

CONSTANTS
  ToolSecurity,   \* tool -> [effect, selectors, exhaustive, connection]
  Documents,      \* authored documents: the selected policy, and the others beside it
  Files,          \* states of config.toml
  Tokens,         \* what a caller may pass as profile; "" is none
  Values,         \* what a caller may pass for a selector
  Edits           \* bound: edits of config.toml

Tools == DOMAIN ToolSecurity
Gateway == {"hmc_search_tools", "hmc_invoke_tool"}
Command == "hmc_run_command"
Report  == "hmc_effective_permissions"

\* A selector is [kind, path]; a tool whose selectors name all it acts on is exhaustive.
\* The gateway acts on nothing of its own, and no grant reaches the command by its effect.
SecurityAssumption ==
  /\ Edits \in Nat /\ {"hmc_invoke_tool", Command, Report} \subseteq Tools /\ "" \in Tokens
  /\ \A t \in Tools : ToolSecurity[t].exhaustive => ToolSecurity[t].selectors # {}
  /\ ToolSecurity["hmc_invoke_tool"].selectors = {} /\ ~ToolSecurity["hmc_invoke_tool"].connection
  /\ ToolSecurity[Command].effect = "arbitrary-command"

VARIABLES
  host,        \* HMC_HOST is set
  enabled,     \* --enable-arbitrary-command
  document,    \* the authored policy file
  grants,      \* the compiled policy
  registered,  \* the tools the server exposes
  warned,      \* tools startup says a table can never bind
  file,        \* config.toml as it is now
  edits,
  pc, call,
  trail,       \* authorization records of this call
  decided,     \* config.toml as the decision read it
  reached,     \* the connection the handler opened
  snap, rows,  \* the report: its snapshot, and a row per connection
  seen         \* every config.toml there was since the decision

policyVars == <<host, enabled, document, grants, registered, warned>>
callVars   == <<call, trail, decided, reached>>
reportVars == <<snap, rows, seen>>
vars == <<policyVars, file, edits, pc, callVars, reportVars>>

Ambient    == "none"         \* the environment/default connection, authored as "<default>"
UNRESOLVED == "unresolved"   \* a token that names no configured connection
Failed     == "error"        \* the configuration cannot be read or selects nothing

\* What stands for no profile is the name of none (only a quoted key could be "<default>"), and
\* a file that is not read has none.
NamesAssumption ==
  LET stands == {Ambient, UNRESOLVED, Failed}
  IN /\ \A f \in Files : /\ f.profiles \cap (stands \cup {"<default>"}) = {}
                         /\ f.state \in {"absent", "unreadable"} => f.profiles = {}
     /\ \A d \in Documents : \A i \in DOMAIN d.selected :
          /\ DOMAIN d.selected[i] = {"effects", "tools", "connections", "all", "table"}
          /\ d.selected[i].connections \cap stands = {}

-----------------------------------------------------------------------------
(* An authored grant is [effects, tools, connections, all, table]: its targets *)
(* are "all-targets" (all) or a table of kinds to selector values.             *)

GrantEffects == {"read", "mutate", "destructive"}

\* What the document's own shape must satisfy, for every policy of the file.
WellShaped(g) ==
  /\ g.effects \subseteq GrantEffects /\ g.effects \cup g.tools # {}
  /\ g.connections # {}
  /\ g.all \/ (DOMAIN g.table # {} /\ \A k \in DOMAIN g.table : g.table[k] # {})

Shaped(d) == \A policy \in {d.selected} \cup d.others : \A i \in DOMAIN policy : WellShaped(policy[i])

ResolveTools(g) == {t \in Tools : ToolSecurity[t].effect \in g.effects} \cup g.tools

\* Its targets table can bind every tool named, and one at least of those it reaches.
ValidTargets(g) ==
  \/ g.all
  \/ /\ DOMAIN g.table \subseteq
          UNION {{s.kind : s \in ToolSecurity[t].selectors} : t \in ResolveTools(g)}
     /\ \A t \in g.tools :
          /\ ToolSecurity[t].exhaustive
          /\ \A s \in ToolSecurity[t].selectors : s.kind \in DOMAIN g.table
     /\ \E t \in ResolveTools(g) : ToolSecurity[t].exhaustive

CompileGrant(g) ==
  [g EXCEPT !.tools = ResolveTools(g),
            !.connections = {IF c = "<default>" THEN Ambient ELSE c : c \in @}]

Compiles(d) ==
  /\ Shaped(d)
  /\ \A i \in DOMAIN d.selected : d.selected[i].tools \subseteq Tools /\ ValidTargets(d.selected[i])
  /\ \A i, j \in DOMAIN d.selected :
       CompileGrant(d.selected[i]) = CompileGrant(d.selected[j]) => i = j

\* The policy that grants what a server without one did: every tool but the command.
legacy_tools == Tools \ {Command}
legacy_connections(f) == {"<default>"} \cup f.profiles

legacy_document(f) ==
  [selected |-> <<[effects |-> {}, tools |-> legacy_tools, all |-> TRUE, table |-> <<>>,
                   connections |-> legacy_connections(f)]>>,
   others |-> {}]

grants_for(t) == {i \in DOMAIN grants : t \in grants[i].tools}

-----------------------------------------------------------------------------
(* Connections.  config.toml is absent, unreadable, or has profiles (each with *)
(* its setting of the power guard), nicknames and perhaps a default.           *)

Select(f, token) ==
  CASE token \in f.profiles -> token
    [] token \notin f.profiles /\ token \in DOMAIN f.nicknames
         /\ f.nicknames[token] \in f.profiles -> f.nicknames[token]
    [] OTHER -> UNRESOLVED

\* The connection a decision takes the token for.
selected_connection(token) ==
  CASE host \/ token = ""       -> Ambient
    [] ~host /\ token # "" /\ file.state = "unreadable" -> Failed
    [] OTHER -> Select(file, token)

Profile(f, token) ==
  LET p == Select(f, IF token = "" THEN f.default ELSE token)
  IN IF p = UNRESOLVED THEN Failed ELSE p

\* The profile a handler's configuration is built from; Ambient is the environment alone.
build_config(f, token) ==
  CASE host -> Ambient
    [] ~host /\ f.state = "absent" -> IF token = "" THEN Ambient ELSE Failed
    [] ~host /\ f.state = "unreadable" -> Failed
    [] OTHER -> IF token = "" /\ f.default = "" THEN Ambient ELSE Profile(f, token)

\* That connection in the terms of the policy: an omitted token is the default one.
Term(f, token) ==
  LET p == build_config(f, token) IN IF p # Failed /\ token = "" THEN Ambient ELSE p

-----------------------------------------------------------------------------
(* Targets.  A selector's value is a string, "absent" or "unreadable".         *)

targets_permitted(g, t, values) ==
  /\ \A s \in ToolSecurity[t].selectors : values[s.path] # "unreadable"
  /\ \/ g.all
     \/ /\ ToolSecurity[t].exhaustive
        /\ \A s \in ToolSecurity[t].selectors :
             /\ values[s.path] # "absent"
             /\ s.kind \in DOMAIN g.table /\ values[s.path] \in g.table[s.kind]

denial_reason(t, values) ==
  LET given == {values[s.path] : s \in ToolSecurity[t].selectors}
  IN CASE "unreadable" \in given -> "target-selector-unreadable"
       [] "unreadable" \notin given /\ ~ToolSecurity[t].exhaustive -> "target-unboundable"
       [] OTHER -> IF "absent" \in given THEN "target-selector-absent" ELSE "target-not-granted"

unboundable_effect_tools(gs) ==
  {t \in Tools : ~ToolSecurity[t].exhaustive
                 /\ \E i \in DOMAIN gs : ~gs[i].all /\ t \in gs[i].tools}

-----------------------------------------------------------------------------
(* The server.                                                                 *)

Paths(t)   == {s.path : s \in ToolSecurity[t].selectors}
NoCall     == [tool |-> Report, token |-> "", values |-> <<>>, invoked |-> FALSE]
Goes(here, there) == pc = here /\ pc' = there
Records(t, decision, reason) == trail' = Append(trail, [tool |-> t, decision |-> decision, reason |-> reason])

\* Arbitrary commands need the flag beside the grant.
Registers(gs) ==
  registered' = {t \in Tools : (\E i \in DOMAIN gs : t \in gs[i].tools) /\ (t = Command => enabled)}

Warns(gs) == warned' = unboundable_effect_tools(gs)

Load ==
  /\ pc = "load" /\ pc' = IF Compiles(document) THEN "serving" ELSE "refused"
  /\ IF Compiles(document)
     THEN LET gs == [i \in DOMAIN document.selected |-> CompileGrant(document.selected[i])]
          IN grants' = gs /\ Warns(gs) /\ Registers(gs)
     ELSE UNCHANGED <<grants, warned, registered>>
  /\ UNCHANGED <<host, enabled, document, file, edits, callVars, reportVars>>

\* A client calls a tool, itself or through hmc_invoke_tool.
Call ==
  /\ pc = "serving"
  /\ \E t \in Tools, token \in Tokens, invoked \in BOOLEAN :
       /\ IF invoked THEN "hmc_invoke_tool" \in registered ELSE t \in registered
       /\ ~ToolSecurity[t].connection => token = ""
       /\ \E values \in [Paths(t) -> Values] :
            call' = [tool |-> t, token |-> token, values |-> values, invoked |-> invoked]
       /\ pc' = IF invoked THEN "invoke" ELSE "authorize"
  /\ trail' = <<>> /\ reached' = "nothing" /\ decided' = file
  /\ UNCHANGED <<policyVars, file, edits, reportVars>>

\* hmc_invoke_tool is authorized like any tool, then finds the one it names.
Invoke ==
  LET allowed == \E i \in grants_for("hmc_invoke_tool") :
                   targets_permitted(grants[i], "hmc_invoke_tool", <<>>)
  IN /\ pc = "invoke"
     /\ Records("hmc_invoke_tool", IF allowed THEN "allow" ELSE "deny",
                IF allowed THEN "permitted" ELSE denial_reason("hmc_invoke_tool", <<>>))
     /\ pc' = IF allowed THEN "named" ELSE "denied"
     /\ UNCHANGED <<policyVars, file, edits, call, decided, reached, reportVars>>

Named ==
  LET t == call.tool
  IN /\ pc = "named"
     /\ pc' = IF t \in Gateway \/ t \notin registered \/ ToolSecurity[t].effect = "arbitrary-command"
              THEN "withheld" ELSE "authorize"
     /\ UNCHANGED <<policyVars, file, edits, callVars, reportVars>>

Matching(t, connection) ==
  {i \in grants_for(t) : ToolSecurity[t].connection => connection \in grants[i].connections}

\* Mutant: a grant for the connection and another for the targets will do.
AuthorizeAcross ==
  LET t == call.tool  s == ToolSecurity[t]
      connection == IF s.connection THEN selected_connection(call.token) ELSE Ambient
      matching   == Matching(t, connection)
      permitting == {i \in grants_for(t) : targets_permitted(grants[i], t, call.values)}
  IN /\ pc = "authorize" /\ decided' = file /\ seen' = {file}
     /\ CASE connection = Failed ->
               Records(t, "deny", "configuration-unreadable") /\ pc' = "denied"
          [] connection # Failed /\ matching # {} /\ permitting # {} ->
               Records(t, "allow", "permitted") /\ pc' = "handler"
          [] OTHER ->
               /\ Records(t, "deny", IF s.connection /\ matching = {} THEN "connection-not-granted"
                                     ELSE denial_reason(t, call.values))
               /\ pc' = "denied"
     /\ UNCHANGED <<policyVars, file, edits, call, reached, snap, rows>>

\* One grant must cover the connection and the targets; the record precedes the handler.
Authorize ==
  LET t == call.tool  s == ToolSecurity[t]
      connection == IF s.connection THEN selected_connection(call.token) ELSE Ambient
      matching   == Matching(t, connection)
      permitting == {i \in matching : targets_permitted(grants[i], t, call.values)}
  IN /\ pc = "authorize" /\ decided' = file /\ seen' = {file}
     /\ CASE connection = Failed ->
               Records(t, "deny", "configuration-unreadable") /\ pc' = "denied"
          [] connection # Failed /\ permitting # {} ->
               Records(t, "allow", "permitted") /\ pc' = "handler"
          [] OTHER ->
               /\ Records(t, "deny", IF s.connection /\ matching = {} THEN "connection-not-granted"
                                     ELSE denial_reason(t, call.values))
               /\ pc' = "denied"
     /\ UNCHANGED <<policyVars, file, edits, call, reached, snap, rows>>

\* The handler builds its configuration from the file as it is now.
Handler ==
  /\ Goes("handler", IF call.tool = Report THEN "report" ELSE "done")
  /\ reached' = IF ToolSecurity[call.tool].connection THEN Term(file, call.token) ELSE "nothing"
  /\ UNCHANGED <<policyVars, file, edits, call, trail, decided, reportVars>>

(* The report of the power guards: one read of the file, then a row for each   *)
(* connection a grant names.                                                   *)

Connections ==
  LET named == UNION {grants[i].connections : i \in DOMAIN grants}
  IN IF host THEN named \cap {Ambient} ELSE named

\* An unset profile key and the environment alone both read as the field's default.
Guard(f, c) ==
  LET p == build_config(f, IF c = Ambient THEN "" ELSE c)
  IN CASE p = Failed -> "unresolved" [] p = Ambient -> "default" [] OTHER -> f.guard[p]

Snapshot ==
  /\ Goes("report", "rows") /\ snap' = file
  /\ UNCHANGED <<policyVars, file, edits, callVars, rows, seen>>

\* Mutant: each row reads the file again.
RowRead ==
  /\ pc = "rows"
  /\ \E c \in Connections \ DOMAIN rows :
       rows' = [d \in DOMAIN rows \cup {c} |-> IF d = c THEN Guard(file, c) ELSE rows[d]]
  /\ UNCHANGED <<policyVars, file, edits, pc, callVars, snap, seen>>

Row ==
  /\ pc = "rows"
  /\ \E c \in Connections \ DOMAIN rows :
       rows' = [d \in DOMAIN rows \cup {c} |-> IF d = c THEN Guard(snap, c) ELSE rows[d]]
  /\ UNCHANGED <<policyVars, file, edits, pc, callVars, snap, seen>>

Reported ==
  /\ Goes("rows", "reported") /\ Connections = DOMAIN rows
  /\ UNCHANGED <<policyVars, file, edits, callVars, reportVars>>

\* The next call finds nothing of this one.
Ends ==
  /\ pc \in {"denied", "withheld", "done", "reported"} /\ pc' = "serving"
  /\ call' = NoCall /\ trail' = <<>> /\ decided' = file /\ reached' = "nothing"
  /\ snap' = Failed /\ rows' = <<>> /\ seen' = {}
  /\ UNCHANGED <<policyVars, file, edits>>

\* An operator or hmcpctl config init changes config.toml.
Edit ==
  /\ edits < Edits /\ edits' = edits + 1
  /\ \E f \in Files \ {file} : file' = f /\ seen' = IF seen = {} THEN {} ELSE seen \cup {f}
  /\ UNCHANGED <<policyVars, pc, callVars, snap, rows>>

Init ==
  /\ host \in BOOLEAN /\ enabled \in BOOLEAN /\ file \in Files
  /\ document \in Documents \cup {legacy_document(file)}
  /\ grants = <<>> /\ registered = {} /\ warned = {} /\ edits = 0
  /\ pc = "load" /\ call = NoCall /\ trail = <<>> /\ decided = file /\ reached = "nothing"
  /\ snap = Failed /\ rows = <<>> /\ seen = {}

Next ==
  \/ Load \/ Call \/ Invoke \/ Named \/ Authorize \/ Handler \/ Snapshot \/ Row \/ Reported
  \/ Ends \/ Edit

Spec == Init /\ [][Next]_vars

-----------------------------------------------------------------------------
(* Properties, of the policy as it was written.                                *)

AuthorizationTypeOK ==
  /\ pc \in {"load", "refused", "serving", "invoke", "named", "authorize", "handler", "report",
             "rows", "reported", "denied", "withheld", "done"}
  /\ host \in BOOLEAN /\ enabled \in BOOLEAN /\ registered \subseteq Tools /\ warned \subseteq Tools
  /\ file \in Files /\ decided \in Files /\ edits \in 0..Edits /\ seen \subseteq Files
  /\ call.tool \in Tools /\ call.token \in Tokens /\ call.invoked \in BOOLEAN
  /\ \A i \in DOMAIN trail : trail[i].tool \in Tools /\ trail[i].decision \in {"allow", "deny"}
  /\ DOMAIN rows \subseteq Connections

\* One grant, as authored, names the tool, the connection and every target of a call.
Selects(g, t)    == t \in g.tools \/ ToolSecurity[t].effect \in g.effects
Allows(g, c)     == IF c = Ambient THEN "<default>" \in g.connections ELSE c \in g.connections
Bounds(g, t, vs) ==
  g.all \/ (ToolSecurity[t].exhaustive
            /\ \A s \in ToolSecurity[t].selectors :
                 s.kind \in DOMAIN g.table /\ vs[s.path] \in g.table[s.kind])

\* An omitted token means the default connection even where none can be built.
Meant == IF call.token = "" THEN Ambient ELSE Term(decided, call.token)

Ran == pc \in {"handler", "report", "rows", "reported", "done"}

(* A handler runs only if a single authored grant covers its tool, the         *)
(* connection that build_config makes of its token and every target it acts    *)
(* on; it opens that connection, or what an edit in between makes of it; and   *)
(* arbitrary commands run only where named, enabled and called directly        *)
(* (compile_access_policy, dispatch_authorizer, selected_connection,           *)
(* hmc_invoke_tool).                                                           *)
OneGrantCovers ==
  Ran => \E i \in DOMAIN document.selected :
           LET g == document.selected[i]  t == call.tool  c == Term(decided, call.token)
           IN /\ Selects(g, t) /\ Bounds(g, t, call.values)
              /\ ToolSecurity[t].connection => Allows(g, c) \/ c = Failed
              /\ reached \in {"nothing"} \cup {Term(f, call.token) : f \in seen}
              /\ t = Command => t \in g.tools /\ enabled /\ ~call.invoked

(* The record of a call says what came of it, before anything came of it: one  *)
(* allow before a handler, one deny with the dimension that failed, and behind *)
(* the gateway's own record when it was invoked (dispatch_scope, gateway).     *)
DecisionRecorded ==
  LET last == trail[Len(trail)]
      t    == call.tool
      open == {i \in DOMAIN document.selected :
                 /\ Selects(document.selected[i], t)
                 /\ ToolSecurity[t].connection => Allows(document.selected[i], Meant)}
  IN /\ Ran => /\ Len(trail) = IF call.invoked THEN 2 ELSE 1
               /\ last.tool = t /\ last.decision = "allow"
     /\ pc = "denied" /\ last.tool = t =>
          /\ last.decision = "deny"
          /\ last.reason = "connection-not-granted" => open = {}
          /\ last.reason \in {"target-not-granted", "target-unboundable"} =>
               open # {} /\ \A i \in open : ~Bounds(document.selected[i], t, call.values)
          /\ last.reason = "target-unboundable" => t \in warned

\* The generated policy loads, and denies only what no policy edit could repair
\* (legacy_document, compile_access_policy).
LegacyWide ==
  document = legacy_document(decided) =>
    /\ pc # "refused"
    /\ pc = "denied" =>
         \/ trail[Len(trail)].reason \in {"configuration-unreadable", "target-selector-unreadable"}
         \/ Select(decided, call.token) = UNRESOLVED

CallsAuthorized == OneGrantCovers /\ DecisionRecorded /\ LegacyWide

(* A report has a row for every connection a permitted call may select and for *)
(* no other, and all its rows are true of one config.toml that there was since *)
(* the call was decided (resolve_power_guards).                                *)
ReportTrue ==
  pc = "reported" => /\ DOMAIN rows = Connections
                     /\ \E f \in seen : \A c \in DOMAIN rows : rows[c] = Guard(f, c)
=============================================================================
