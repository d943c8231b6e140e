----------------------------- MODULE ReleaseWindow -----------------------------
(* The release window (scripts/run_release_window.py): a baseline of the      *)
(* systems, every claimed arm with its preflight and its recovery check, the  *)
(* baseline again and its comparison, the evidence, the promotion and the     *)
(* gate, each a child process of its own.  An interrupt stops the child in    *)
(* three stages and the window, but never the recovery check of an arm that   *)
(* was started.  What the children find is modelled by what their exit status *)
(* stands for.                                                                *)
EXTENDS Naturals

CONSTANTS
  NArms,        \* the arms the claims select
  MaxFaults,    \* bound: children that fail for no reason of the window's, and that linger
  MaxTouches    \* bound: changes others make to the systems or to the checkout

WindowAssumption == NArms \in Nat \ {0} /\ {MaxFaults, MaxTouches} \subseteq Nat

VARIABLES
  (* outside *)
  residue,   \* what arms left: "seen" by a recovery check, or "hidden" from it
  drift,     \* others changed a system
  head,      \* the checkout's HEAD: the "candidate", or "other"
  (* the children *)
  child,     \* "none", "alive" or "exited"
  held,      \* something the child started holds its output open
  code,      \* what the child exits with
  snaps,     \* the baselines taken: what the systems had, before and after
  docs,      \* an arm's results: "none", "partial", or the commit they name
  promoted,  \* the promotion branch has its commit
  (* the window *)
  phase,     \* the phase and its arm
  pc,        \* "start", "running", "ran", or "end"
  stage,     \* the signals the child was sent
  cancelled, \* an interrupt was caught
  safe,      \* no child may be running
  raised,    \* WindowError is on its way out
  orphaned,  \* the output was still open when the child was gone
  passed,    \* the phases that passed
  exit,      \* the window's exit status, 9 until it has one
  (* history *)
  ran,       \* the HEAD that each arm ran on
  returned,  \* HEAD has moved, and come back
  reaped,    \* the arms whose recovery check started when their child was gone
  faults, touches

outside == <<residue, drift, head>>
process == <<child, held, code>>
effects == <<snaps, docs, promoted>>
signals == <<stage, cancelled, safe, raised, orphaned>>
history == <<ran, returned, reaped>>
vars == <<outside, process, effects, phase, pc, signals, passed, exit, history, faults, touches>>

Arms == 1..NArms
Fault(c) == (c => faults < MaxFaults) /\ faults' = faults + (IF c THEN 1 ELSE 0)
Ph(kind, n) == [kind |-> kind, arm |-> n]
Recovering == phase.kind = "recovery"

\* The order of the phases.
After(p) ==
  CASE p.kind = "discovery" -> Ph("before", 0)
    [] p.kind = "before" -> Ph("preflight", 1)
    [] p.kind = "preflight" -> Ph("arm", p.arm)
    [] p.kind = "arm" -> Ph("recovery", p.arm)
    [] p.kind = "recovery" -> IF p.arm < NArms THEN Ph("preflight", p.arm + 1) ELSE Ph("after", 0)
    [] p.kind = "after" -> Ph("compare", 0)
    [] p.kind = "compare" -> Ph("evidence", 1)
    [] p.kind = "evidence" -> IF p.arm < NArms THEN Ph("evidence", p.arm + 1) ELSE Ph("promotion", 0)
    [] p.kind = "promotion" -> Ph("gate", 0)
    [] OTHER -> Ph("done", 0)

-----------------------------------------------------------------------------
(* Execution.run.                                                             *)

\* The candidate is checked once more before the promotion.
Refused == phase.kind = "promotion" /\ head # "candidate"
Skipped == cancelled /\ ~Recovering

Ends(x) == pc' = "end" /\ exit' = x

\* A failing capture and a moved candidate raise; any other phase that fails returns.
Start ==
  /\ pc = "start" /\ phase.kind # "done"
  /\ UNCHANGED <<outside, effects, passed, returned, touches, phase>>
  /\ IF Refused \/ Skipped
     THEN /\ UNCHANGED <<process, signals, ran, reaped, faults>>
          /\ IF phase.kind = "arm" /\ ~Refused THEN pc' = "ran" /\ UNCHANGED exit
             ELSE Ends(IF Refused \/ phase.kind \in {"discovery", "before", "after"} THEN 2 ELSE 1)
     ELSE /\ pc' = "running" /\ stage' = 0 /\ orphaned' = FALSE /\ UNCHANGED <<cancelled, raised, exit>>
          /\ reaped' = (IF Recovering /\ child # "alive" THEN reaped \cup {phase.arm} ELSE reaped)
          /\ \/ child' = "alive" /\ held' = FALSE /\ code' = 1 /\ safe' = FALSE /\ UNCHANGED faults
                /\ ran' = IF phase.kind = "arm" THEN [ran EXCEPT ![phase.arm] = head] ELSE ran
             \/ Fault(TRUE) /\ child' = "exited" /\ held' = FALSE /\ code' = 125
                /\ UNCHANGED <<safe, ran>>

\* The interrupt is passed on once, then SIGTERM and SIGKILL; each has its grace.
Signal ==
  /\ pc = "running" /\ stage < 3 /\ UNCHANGED <<outside, effects, phase, pc, passed, exit, history, touches>>
  /\ IF stage = 0 THEN cancelled /\ ~Recovering ELSE child = "alive"
  /\ stage' = stage + 1 /\ UNCHANGED <<cancelled, safe, raised, orphaned, held>>
  /\ IF stage = 2 /\ child = "alive"
     THEN \/ child' = "exited" /\ code' = 1 /\ UNCHANGED faults
          \/ Fault(TRUE) /\ UNCHANGED <<child, code>>
     ELSE UNCHANGED <<child, code, faults>>

\* A child that outlives SIGKILL is killed once more; if it stays, the window is not safe.
Unreaped ==
  /\ pc = "running" /\ stage = 3 /\ child = "alive" /\ pc' = "ran" /\ raised' = TRUE
  /\ \/ child' = "exited" /\ safe' = TRUE /\ UNCHANGED faults
     \/ Fault(TRUE) /\ UNCHANGED <<child, safe>>
  /\ UNCHANGED <<outside, effects, held, code, phase, stage, cancelled, orphaned, passed, exit, history, touches>>

\* The output outlives the child: what holds it is killed.
Orphaned ==
  /\ pc = "running" /\ child = "exited" /\ held /\ held' = FALSE /\ orphaned' = TRUE
  /\ UNCHANGED <<outside, child, code, effects, phase, pc, stage, cancelled, safe, raised, passed,
                 exit, history, faults, touches>>

Finish ==
  /\ pc = "running" /\ child = "exited" /\ ~held /\ pc' = "ran" /\ safe' = TRUE
  /\ \E truncated \in BOOLEAN :
       /\ Fault(truncated)
       /\ passed' = IF code = 0 /\ ~truncated /\ ~orphaned /\ (Recovering \/ ~cancelled)
                    THEN passed \cup {phase} ELSE passed
  /\ UNCHANGED <<outside, process, effects, phase, stage, cancelled, raised, orphaned, exit, history, touches>>

-----------------------------------------------------------------------------
(* run_window.                                                                *)

\* An arm is followed by its recovery check unless its child may still be running; any other
\* phase that failed, and an arm that did, end the window.
Proceed ==
  /\ pc = "ran" /\ UNCHANGED <<outside, process, effects, signals, passed, history, faults, touches>>
  /\ IF phase.kind = "arm" /\ safe THEN phase' = After(phase) /\ pc' = "start" /\ UNCHANGED exit
     ELSE IF raised THEN Ends(2) /\ UNCHANGED phase
     ELSE IF phase \in passed /\ (Recovering => Ph("arm", phase.arm) \in passed /\ ~cancelled)
     THEN phase' = After(phase) /\ pc' = "start" /\ UNCHANGED exit
     ELSE Ends(IF phase.kind \in {"discovery", "before", "after"} THEN 2 ELSE 1) /\ UNCHANGED phase

\* The summary may not be written.
Done ==
  /\ pc = "start" /\ phase.kind = "done" /\ (\E bad \in BOOLEAN : Fault(bad) /\ Ends(IF bad THEN 2 ELSE 0))
  /\ UNCHANGED <<outside, process, effects, phase, signals, passed, history, touches>>

-----------------------------------------------------------------------------
(* The children.  Each may exit with an error, for a reason of its own or     *)
(* without one.                                                               *)

Alive(kind) == pc = "running" /\ child = "alive" /\ phase.kind = kind
Running == UNCHANGED <<phase, pc, signals, passed, exit, history, touches>>

\* While it runs, an arm may leave or clear away; a killed one has no results, one that was
\* interrupted a part of them.
Arm ==
  /\ Alive("arm") /\ Running /\ UNCHANGED <<drift, head, snaps, promoted>>
  /\ \E left \in SUBSET {"seen", "hidden"}, h \in BOOLEAN :
       Fault(h \/ ~(left \subseteq residue)) /\ residue' = left /\ held' = h
  /\ child' = "exited" /\ code' \in {0, 1}
  /\ docs' = [docs EXCEPT ![phase.arm] = IF stage = 0 THEN head ELSE "partial"]

\* Exit 0 means that it read everything and found nothing, of a run that is not partial.
Recovery ==
  /\ Alive("recovery") /\ Running /\ UNCHANGED <<outside, effects, held>>
  /\ child' = "exited" /\ code' \in {0, 1}
  /\ LET clean == docs[phase.arm] \in {"candidate", "other"} /\ "seen" \notin residue
     IN (code' = 0 => clean) /\ Fault(code' = 1 /\ clean)

\* A snapshot is published whole, under a name that is not taken.
Systems == residue \cup (IF drift THEN {"drift"} ELSE {})
Capture ==
  /\ Alive(phase.kind) /\ phase.kind \in {"discovery", "before", "after"} /\ Running
  /\ UNCHANGED <<outside, docs, promoted, held>>
  /\ child' = "exited" /\ code' \in {0, 1} /\ Fault(code' = 1)
  /\ snaps' = IF code' = 0 THEN [snaps EXCEPT ![phase.kind] = Systems] ELSE snaps

Compare ==
  /\ Alive("compare") /\ Running /\ UNCHANGED <<outside, effects, held>>
  /\ child' = "exited" /\ code' \in {0, 1}
  /\ LET same == snaps["before"] = snaps["after"]
     IN (code' = 0 => same) /\ Fault(code' = 1 /\ same)

\* The arm's configuration, and the probes of its environment.
Preflight ==
  /\ Alive("preflight") /\ Running /\ UNCHANGED <<outside, effects, held>>
  /\ child' = "exited" /\ code' \in {0, 1} /\ Fault(code' = 1)

\* The results must name their commit; the matrix of a partial run says that it is one.
Evidence ==
  /\ Alive("evidence") /\ Running /\ UNCHANGED <<outside, effects, held>>
  /\ child' = "exited" /\ code' \in {0, 1}
  /\ (code' = 0 => docs[phase.arm] # "none") /\ Fault(code' = 1 /\ docs[phase.arm] # "none")

\* promote: every arm's results are whole and of the commit the checkout has.  It may be
\* stopped after its commit.
Promote ==
  /\ Alive("promotion") /\ ~promoted /\ \A a \in Arms : docs[a] = head
  /\ promoted' = TRUE /\ Running /\ UNCHANGED <<outside, process, snaps, docs, faults>>
Promotion ==
  /\ Alive("promotion") /\ Running /\ UNCHANGED <<outside, effects, held>>
  /\ child' = "exited" /\ code' \in {0, 1} /\ (code' = 0 => promoted)
  /\ Fault(code' = 1 /\ (promoted \/ \A a \in Arms : docs[a] = head))

Gate ==
  /\ Alive("gate") /\ Running /\ UNCHANGED <<outside, effects, held>>
  /\ child' = "exited" /\ code' \in {0, 1} /\ (code' = 0 => promoted) /\ Fault(code' = 1 /\ promoted)

\* The signals end a child, whatever it was about to do.
Dies ==
  /\ pc = "running" /\ child = "alive" /\ stage \in 1..3 /\ Running
  /\ child' = "exited" /\ code' = 1 /\ UNCHANGED <<drift, head, effects, held, faults>>
  /\ residue' \in (IF phase.kind = "arm" THEN {residue, residue \cup {"seen", "hidden"}} ELSE {residue})

-----------------------------------------------------------------------------
(* Signals, and others.                                                       *)

Interrupt ==
  /\ pc # "end" /\ ~cancelled /\ cancelled' = TRUE
  /\ UNCHANGED <<outside, process, effects, phase, pc, stage, safe, raised, orphaned, passed, exit,
                 history, faults, touches>>

Touch ==
  /\ pc # "end" /\ touches < MaxTouches /\ touches' = touches + 1
  /\ \/ ~drift /\ drift' = TRUE /\ UNCHANGED <<head, returned>>
     \/ head' = (IF head = "candidate" THEN "other" ELSE "candidate") /\ UNCHANGED drift
        /\ returned' = (returned \/ head = "other")
  /\ UNCHANGED <<residue, process, effects, phase, pc, signals, passed, exit, ran, reaped, faults>>

Init ==
  /\ residue = {} /\ drift = FALSE /\ head = "candidate"
  /\ child = "none" /\ held = FALSE /\ code = 1
  /\ snaps = [k \in {"discovery", "before", "after"} |-> {"untaken"}]
  /\ docs = [a \in Arms |-> "none"] /\ promoted = FALSE
  /\ phase = Ph("discovery", 0) /\ pc = "start"
  /\ stage = 0 /\ cancelled = FALSE /\ safe = TRUE /\ raised = FALSE /\ orphaned = FALSE
  /\ passed = {} /\ exit = 9 /\ ran = [a \in Arms |-> "none"] /\ returned = FALSE /\ reaped = {}
  /\ faults = 0 /\ touches = 0

Next ==
  \/ Start \/ Signal \/ Unreaped \/ Orphaned \/ Finish \/ Proceed \/ Done
  \/ Arm \/ Recovery \/ Capture \/ Compare \/ Preflight \/ Evidence \/ Promote \/ Promotion \/ Gate \/ Dies
  \/ Interrupt \/ Touch

Spec == Init /\ [][Next]_vars

-----------------------------------------------------------------------------
(* Properties.                                                                *)

WindowTypeOK ==
  /\ residue \subseteq {"seen", "hidden"} /\ head \in {"candidate", "other"}
  /\ child \in {"none", "alive", "exited"} /\ code \in {0, 1, 125} /\ stage \in 0..3
  /\ docs \in [Arms -> {"none", "partial", "candidate", "other"}]
  /\ pc \in {"start", "running", "ran", "end"} /\ exit \in {0, 1, 2, 9} /\ reaped \subseteq Arms
  /\ {drift, held, promoted, cancelled, safe, raised, orphaned, returned} \subseteq BOOLEAN

\* A window that passes has promoted, and what it promotes is proven: every arm ended
\* well and left nothing a check could see, the systems read at the end as they did before,
\* and, unless HEAD moved away and came back, which nothing watches for, all ran on the
\* candidate.
WindowPassTrue ==
  /\ (exit = 0) => promoted /\ child # "alive" /\ Ph("gate", 0) \in passed
  /\ promoted =>
       /\ \A a \in Arms : {Ph("arm", a), Ph("recovery", a)} \subseteq passed
       /\ returned \/ \A a \in Arms : docs[a] = "candidate" /\ ran[a] = "candidate"
       /\ snaps["before"] = snaps["after"]

\* Every arm that was started has its recovery check, which starts when the arm's child is
\* gone; only a child that cannot be reaped prevents it, and then the window says so.
WindowRecovers ==
  /\ pc = "end" => \A a \in Arms : ran[a] # "none" => a \in reaped \/ (exit = 2 /\ ~safe)
  /\ pc = "start" => child # "alive"
=============================================================================
