------------------------------ MODULE LiveCapture ------------------------------
(* How the vocabulary of an HMC is captured: the sweep that calls every tool   *)
(* that only reads and a list of raw reads (scripts/live_capture_sweep.py),     *)
(* recorded below every caller (scripts/live_test/capture.py), and the export   *)
(* that takes the names out of what was recorded and derives what is committed  *)
(* (scripts/live_capture_export.py).  A behaviour sweeps, or exports.           *)
EXTENDS Naturals, Sequences

CONSTANTS
  MaxFaults,    \* bound: calls and writes that fail, and stops
  MaxTouches    \* bound: partitions other users move

CaptureAssumption == {MaxFaults, MaxTouches} \subseteq Nat

VARIABLES
  part, pc, outcome,   \* "sweep" or "export", its step, and how it ended
  (* the sweep *)
  home,      \* where each partition is
  system, lpar,        \* the context: what was discovered or given, "none" at first
  byName,    \* the operator gave the system by its name
  sysKnown, sysNamed,  \* the two halves of the resolved system
  target,    \* the partition the raw reads name, "none" without one
  seams,     \* what wraps the calls, innermost first
  enabled,   \* the recorder writes
  open,      \* the files of the sweep are open
  flight,    \* a call that was not answered when the sweep was stopped
  made,      \* the calls and raw reads that were issued
  recs,      \* those the recorder has a record of
  log,       \* the tools and raw reads with a record of the sweep's own
  wrote,     \* a call that changes something reached the HMC
  strayed,   \* a raw read named a partition that the resolution did not find on the system,
             \* or a record was written to a file that was closed
  (* the export *)
  raw,       \* the records, each a set of <<value, place>>
  private,   \* the patterns given to each of the two commands
  corpus,    \* the records tokenized so far
  stored,    \* the corpus on disk, "partial" marks one that was cut short
  vocabulary,          \* what is committed, {} before
  faults, touches

sweep == <<home, system, lpar, byName, sysKnown, sysNamed, target, seams, enabled, open, flight, made,
           recs, log, wrote, strayed>>
export == <<raw, private, corpus, stored, vocabulary>>
vars == <<part, pc, outcome, sweep, export, faults, touches>>

Fault(c) == (c => faults < MaxFaults) /\ faults' = faults + (IF c THEN 1 ELSE 0)
Systems == {"S", "T"}
Partitions == {"p", "q"}
On(s) == {p \in Partitions : home[p] = s}
End(how) == pc' = "end" /\ outcome' = how
Next1(step) == pc' = step /\ UNCHANGED outcome

-----------------------------------------------------------------------------
(* read_only_guard and capture: what a call goes through.                     *)

InForce(w) == \E i \in DOMAIN seams : seams[i] = w

\* A call: the recorder writes what became of it, a refusal of the guard too, until a record
\* fails; then it is silent and the call is as before.
Call(step, changes) ==
  \E failed \in BOOLEAN :
    /\ made' = made \cup {step}
    /\ wrote' = (wrote \/ (changes /\ ~InForce("guard")))
    /\ (failed => enabled) /\ enabled' = (enabled /\ ~failed)
    /\ recs' = IF enabled /\ ~failed /\ InForce("capture") THEN recs \cup {step} ELSE recs
    /\ Fault(failed)
NoCall == UNCHANGED <<made, wrote, enabled, recs, faults>>
Noted(step) == log' = log \cup {step}

\* The guard first, then the recorder, that refuses a file inside a work tree.
Enter ==
  /\ part = "sweep" /\ pc = "enter" /\ UNCHANGED <<export, touches>>
  /\ UNCHANGED <<home, system, lpar, byName, sysKnown, sysNamed, target, flight, made, recs, log, wrote, strayed>>
  /\ \E refused \in BOOLEAN :
       /\ Fault(refused) /\ enabled' = ~refused /\ open' = ~refused
       /\ IF refused THEN seams' = <<>> /\ End("refused") ELSE seams' = <<"guard", "capture">> /\ Next1("systems")

\* The recorder goes first, then the guard, and the files are closed.
Leave(how) ==
  /\ seams' = <<>> /\ enabled' = FALSE /\ open' = FALSE /\ End(how)
StillOpen == UNCHANGED <<seams, open>>

-----------------------------------------------------------------------------
(* sweep_tools: every tool once for each set of arguments there is.           *)

Tool(step, next) ==
  /\ part = "sweep" /\ pc = step /\ Next1(next)
  /\ UNCHANGED <<export, home, byName, sysKnown, sysNamed, target, flight, strayed, touches>> /\ StillOpen
\* discover: what the operator gave, or an earlier answer, stays.
Discover(found, known) == IF known = "none" /\ found # {} THEN found ELSE {known}

SweepSystems ==
  /\ Tool("systems", "lparsOfSystem") /\ UNCHANGED lpar
  /\ Call("systems", FALSE) /\ Noted("systems")
  /\ system' \in {system} \cup Discover(Systems, system)

\* The listing of the system comes first, so that a partition of it is found; it is left
\* out when there is no system.
SweepLparsOfSystem ==
  /\ Tool("lparsOfSystem", "lpars") /\ UNCHANGED system /\ Noted("lparsOfSystem")
  /\ IF system = "none" THEN NoCall /\ UNCHANGED lpar
     ELSE Call("lparsOfSystem", FALSE) /\ lpar' \in {lpar} \cup Discover(On(system), lpar)
SweepLpars ==
  /\ Tool("lpars", "tool") /\ UNCHANGED system
  /\ Call("lpars", FALSE) /\ Noted("lpars") /\ lpar' \in {lpar} \cup Discover(Partitions, lpar)

\* plan_calls: a tool without all it requires is skipped, and told so.
SweepTool ==
  /\ Tool("tool", "marked") /\ UNCHANGED <<system, lpar>> /\ Noted("tool")
  /\ IF system = "none" \/ lpar = "none" THEN NoCall ELSE Call("tool", FALSE)

\* A tool that is marked as reading and does more.
SweepMarked ==
  /\ Tool("marked", "resolve") /\ UNCHANGED <<system, lpar>> /\ Noted("marked") /\ Call("marked", TRUE)

-----------------------------------------------------------------------------
(* resolve_names and sweep_raw.                                               *)

\* Both halves from the listing of the systems; the half that is there when it cannot be read.
ResolveSystem ==
  /\ part = "sweep" /\ pc = "resolve"
  /\ UNCHANGED <<export, home, system, lpar, byName, target, flight, wrote, strayed, touches, made, recs>>
  /\ IF system = "none"
     THEN Leave("error") /\ UNCHANGED <<sysKnown, sysNamed, log, faults>>
     ELSE \E r \in BOOLEAN :
            /\ Fault(~r) /\ StillOpen /\ UNCHANGED enabled
            /\ sysKnown' = (r \/ ~byName) /\ sysNamed' = (r \/ byName)
            /\ log' = (IF r THEN log ELSE log \cup {"resolve"})
            /\ Next1(IF sysKnown' THEN "resolveLpar" ELSE "rawSystem")

\* On this system only: on another, it is not the partition the capture is about.
ResolvePartition ==
  /\ part = "sweep" /\ pc = "resolveLpar"
  /\ UNCHANGED <<export, home, system, lpar, byName, sysKnown, sysNamed, flight, wrote, strayed, touches, made, recs>>
  /\ IF lpar = "none" THEN StillOpen /\ Next1("rawSystem") /\ UNCHANGED <<target, log, faults, enabled>>
     ELSE \E r \in BOOLEAN :
            /\ Fault(~r)
            /\ \/ /\ r /\ home[lpar] # system /\ Leave("error") /\ UNCHANGED <<target, log>>
               \/ /\ (r => home[lpar] = system) /\ StillOpen /\ UNCHANGED enabled /\ Next1("rawSystem")
                  /\ target' = (IF r THEN lpar ELSE "none")
                  /\ log' = (IF r THEN log ELSE log \cup {"resolveLpar"})

\* Names.fill: what a raw read can be filled with.
Fillable == [system |-> sysNamed, lpar |-> target # "none"]

Raw(step, next, filled) ==
  /\ part = "sweep" /\ pc = step
  /\ UNCHANGED <<export, home, system, lpar, byName, sysKnown, sysNamed, target, flight, touches>>
  /\ IF filled THEN Call(step, FALSE) /\ UNCHANGED log ELSE NoCall /\ Noted(step)
  /\ StillOpen /\ Next1(next)
RawSystem == Raw("rawSystem", "rawLpar", Fillable.system) /\ UNCHANGED strayed
RawLpar ==
  /\ Raw("rawLpar", "leave", Fillable.lpar)
  /\ strayed' = (strayed \/ (Fillable.lpar /\ touches = 0 /\ home[target] # system))

Finish ==
  /\ part = "sweep" /\ pc = "leave" /\ Leave("swept")
  /\ UNCHANGED <<export, home, system, lpar, byName, sysKnown, sysNamed, target, flight, made, recs, log, wrote,
                 strayed, faults, touches>>

\* A stop, or a record of the sweep's own that cannot be written; a call may be under way.
Stopped ==
  /\ part = "sweep" /\ pc \notin {"enter", "end"} /\ Fault(TRUE) /\ Leave("stopped") /\ flight' \in BOOLEAN
  /\ UNCHANGED <<export, home, system, lpar, byName, sysKnown, sysNamed, target, made, recs, log, wrote, strayed,
                 touches>>

\* Its answer comes: the recorder it went through was disabled before the file was closed.
Answered ==
  /\ flight /\ flight' = FALSE
  /\ strayed' = (strayed \/ (enabled /\ ~open))
  /\ UNCHANGED <<part, pc, outcome, export, home, system, lpar, byName, sysKnown, sysNamed, target, seams, enabled,
                 open, made, recs, log, wrote, faults, touches>>

Touch ==
  /\ part = "sweep" /\ pc # "end" /\ touches < MaxTouches /\ touches' = touches + 1
  /\ \E p \in Partitions : home' = [home EXCEPT ![p] = IF @ = "S" THEN "T" ELSE "S"]
  /\ UNCHANGED <<part, pc, outcome, export, system, lpar, byName, sysKnown, sysNamed, target, seams, enabled, open,
                 flight, made, recs, log, wrote, strayed, faults>>

-----------------------------------------------------------------------------
(* The export.  Of a value it matters where it stands: where a name stands, in *)
(* other text, inside a longer word, in a form the scrubbing rules miss, as an  *)
(* address, or in an enumeration of a schema.                                   *)

Items == {<<"sys", "name">>, <<"sys", "text">>, <<"sys", "glued">>, <<"sys-lpar", "name">>, <<"sys-lpar", "text">>,
          <<"run", "name">>, <<"run", "enum">>, <<"run", "text">>, <<"key", "text">>, <<"key", "odd">>,
          <<"wwn", "text">>, <<"wwn", "odd">>, <<"host", "url">>, <<"host", "text">>, <<"lab", "glued">>}
All == UNION {raw[i] : i \in DOMAIN raw}

\* collect_names, over all the records; what is structure is not a name.
Names == {v \in {"sys", "sys-lpar", "run"} : <<v, "name">> \in All /\ <<v, "enum">> \notin All}
Hosts == {v \in {"host"} : <<v, "url">> \in All}
Secrets == {"key", "wwn"}

\* NameCollector.finish: a partition that is named after its system keeps the rest of its name.
Token(v) ==
  CASE v = "sys" -> "SYS" [] v = "run" -> "LPAR1"
    [] v = "sys-lpar" -> IF "sys" \in Names THEN "SYS-lpar" ELSE "LPAR2"
Redacted == <<"REDACTED", "text">>
Matches(v, given) == v = "lab" /\ given

\* tokenize: secrets and identifiers, hosts, names as whole words, then the private patterns.
Scrubbed(item) ==
  LET v == item[1] place == item[2] IN
  IF (v \in Secrets /\ place # "odd") \/ v \in Hosts \/ Matches(v, private[1]) THEN Redacted
  ELSE IF v \in Names /\ place \in {"name", "text"} THEN <<Token(v), place>>
  ELSE item
Leaks(record, given) ==
  \E item \in record :
    \/ item[2] = "odd" \/ (item[1] \in Names /\ item[2] \in {"name", "text"})
    \/ item[1] \in Hosts \/ Matches(item[1], given)

Export(step) == part = "export" /\ pc = step /\ UNCHANGED <<part, sweep, raw, private, touches>>

\* One record after another; nothing is written when something survives in one, or when a
\* body no longer parses.
TokenizeRecord ==
  /\ Export("tokenize") /\ Len(corpus) < Len(raw) /\ UNCHANGED <<pc, outcome, stored, vocabulary, faults>>
  /\ corpus' = Append(corpus, {Scrubbed(item) : item \in raw[Len(corpus) + 1]})
Scan ==
  /\ Export("tokenize") /\ Len(corpus) = Len(raw) /\ UNCHANGED <<corpus, stored, vocabulary>>
  /\ \E broken \in BOOLEAN :
       /\ Fault(broken)
       /\ IF broken \/ (\E i \in DOMAIN corpus : Leaks(corpus[i], private[1])) THEN End("leak") ELSE Next1("write")
WriteCorpus ==
  /\ Export("write") /\ UNCHANGED <<corpus, vocabulary>>
  /\ \E cut \in BOOLEAN :
       /\ Fault(cut) /\ stored' = (IF cut THEN "partial" ELSE "corpus")
       /\ IF cut THEN End("error") ELSE Next1("vocabulary")

\* observed: where a name stands only the shape is kept, and a token is never a literal.
Observed(item) ==
  IF item = Redacted \/ item[2] = "name" \/ item[1] \notin {i[1] : i \in Items} THEN "<text>" ELSE item[1]
WriteScanned(kept) ==
  LET leaks == \E v \in kept : Matches(v, private[2]) IN
  \E cut \in BOOLEAN :
    /\ (cut => ~leaks) /\ Fault(cut)
    /\ vocabulary' = (IF leaks \/ cut THEN {} ELSE kept)
    /\ End(IF leaks THEN "leak" ELSE IF cut THEN "error" ELSE "exported")
BuildVocabulary ==
  /\ Export("vocabulary") /\ UNCHANGED <<corpus, stored>>
  /\ WriteScanned({Observed(item) : item \in UNION {corpus[i] : i \in DOMAIN corpus}})

-----------------------------------------------------------------------------
InitSweep ==
  /\ part = "sweep" /\ pc = "enter" /\ home \in [Partitions -> Systems]
  /\ system \in {"none", "S"} /\ lpar \in {"none", "p"} /\ byName \in BOOLEAN /\ (byName => system # "none")
  /\ raw = <<>> /\ private = <<FALSE, FALSE>>
Few(n) == {{}} \cup {{i} : i \in Items} \cup (IF n = 1 THEN {} ELSE {{i, j} : i \in Items, j \in Items})
InitExport ==
  /\ part = "export" /\ pc = "tokenize" /\ home = [p \in Partitions |-> "S"]
  /\ system = "none" /\ lpar = "none" /\ byName = FALSE
  /\ \E r \in Few(2), s \in Few(1) : raw = <<r, s>>
  /\ private \in {<<a, b>> : a, b \in BOOLEAN}

Init ==
  /\ InitSweep \/ InitExport
  /\ outcome = "none" /\ sysKnown = FALSE /\ sysNamed = FALSE /\ target = "none" /\ seams = <<>>
  /\ enabled = FALSE /\ open = FALSE /\ flight = FALSE /\ made = {} /\ recs = {} /\ log = {}
  /\ wrote = FALSE /\ strayed = FALSE /\ corpus = <<>> /\ stored = "none" /\ vocabulary = {}
  /\ faults = 0 /\ touches = 0

SweepNext ==
  \/ Enter \/ SweepSystems \/ SweepLparsOfSystem \/ SweepLpars \/ SweepTool \/ SweepMarked \/ ResolveSystem
  \/ ResolvePartition \/ RawSystem \/ RawLpar \/ Finish \/ Stopped \/ Answered \/ Touch
Next ==
  \/ SweepNext /\ UNCHANGED part
  \/ TokenizeRecord \/ Scan \/ WriteCorpus \/ BuildVocabulary

Spec == Init /\ [][Next]_vars

-----------------------------------------------------------------------------
(* Properties.                                                                *)

CaptureTypeOK ==
  /\ part \in {"sweep", "export"} /\ home \in [Partitions -> Systems]
  /\ system \in Systems \cup {"none"} /\ {lpar, target} \subseteq Partitions \cup {"none"}
  /\ {byName, sysKnown, sysNamed, enabled, open, flight, wrote, strayed} \subseteq BOOLEAN
  /\ recs \subseteq made /\ seams \in {<<>>, <<"guard", "capture">>} /\ Len(corpus) <= Len(raw)
  /\ stored \in {"none", "partial", "corpus"}

\* A sweep reaches the HMC with nothing that changes it; no raw read names a partition of
\* another system, and no record is written to a file that is closed.  Nothing that is
\* committed, or stored, has a secret, an address that a link showed, a name as a whole word,
\* in whatever record it was seen to be a name, or what a pattern that was given matches.
CaptureTrue ==
  /\ ~wrote /\ ~strayed /\ (pc = "end" => seams = <<>> /\ ~open)
  /\ stored = "corpus" =>
       \A i \in DOMAIN corpus : \A item \in corpus[i] :
         /\ item[1] \notin Secrets \cup Hosts /\ ~Matches(item[1], private[1])
         /\ item[2] \in {"name", "text"} =>
              \A k \in DOMAIN raw : <<item[1], "name">> \in raw[k] => <<item[1], "enum">> \in All
  /\ \A v \in vocabulary : v \notin Secrets \cup Hosts /\ ~Matches(v, private[1] \/ private[2])

\* A sweep that says it is done has a record of every call it made, unless the recorder said
\* that it stopped, and one of every tool and raw read it did not make; and an export that
\* nothing goes wrong in is refused only for what really survives.
CaptureTold ==
  /\ outcome = "swept" =>
       /\ (faults = 0 => made = recs)
       /\ {"systems", "lparsOfSystem", "lpars", "tool", "marked", "rawSystem", "rawLpar"} \subseteq made \cup log
  /\ (part = "export" /\ pc = "end" /\ faults = 0) =>
       \/ outcome = "exported"
       \/ \E item \in All : item[2] = "odd" \/ (private[2] /\ ~private[1] /\ item[1] = "lab")
=============================================================================
