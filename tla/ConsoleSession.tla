--------------------------- MODULE ConsoleSession ---------------------------
(* One ConsoleSession (ssh/console.py) on a partition's virtual terminal.     *)
(* The HMC has one terminal slot per partition, gives it to whoever runs      *)
(* mkvterm while it is free, never takes it back by itself, and lets any      *)
(* client empty it with rmvterm.  The session's coroutines share its fields   *)
(* and interleave at every await; another client uses the same slot.          *)
EXTENDS Naturals, Sequences, FiniteSets

CONSTANTS
  TakeOver,     \* the values of ConsoleSession(take_over=...) to consider
  Reconnect,    \* ConsoleSession(reconnect=...)
  Chunks,       \* bound: data chunks the partition prints on one stream
  Turns,        \* bound: operations of the other client
  SilentGrant,  \* TRUE: the slot may be granted to a mkvterm whose banner never arrives
  Coalesced,    \* TRUE: bytes after the banner may arrive in the banner's chunk
  LateTimeout,  \* TRUE: a reader's timeout may cancel it after its chunk was taken
  RmvtermLies   \* TRUE: an rmvterm that exits 0 may leave the terminal open

ConsoleAssumption ==
  /\ TakeOver \subseteq BOOLEAN
  /\ {Reconnect, SilentGrant, Coalesced, LateTimeout, RmvtermLies} \subseteq BOOLEAN
  /\ Chunks \in Nat /\ Turns \in Nat

VARIABLES
  takeOver,   \* _take_over, never changed
  state,      \* _state
  owner,      \* _owner: who may read the channel
  closing,    \* _close_task exists
  teardown,   \* where _teardown is
  released,   \* _released
  proof,      \* _release_proof
  rclosed,    \* _remote_closed
  rec,        \* _reconnect_task and its outcome
  abort,      \* the task that acquires was cancelled
  acq,        \* where _acquire is
  reply,      \* what mkvterm will print first on the stream being acquired
  rel,        \* where _release_hold is
  eof,        \* stdin EOF was sent and the HMC has not acted on it
  read, reader, got,  \* the read in flight, whose it is, and the chunk it took
  slot,       \* HMC: who holds the terminal
  link,       \* the session's SSH connection
  buf,        \* bytes received on it and not read
  transit,    \* the report of a lost hold is on its way
  told,       \* history: that report was received before the release stopped reading
  sent, given,\* history: data chunks printed on this stream, and those handed to readers
  gap,        \* history: output may be missing and no ConsoleGap said so yet
  turns       \* operations the other client has made

session == <<state, owner, closing, teardown, released, proof, rclosed, rec, abort>>
reading == <<read, reader, got>>
terminal == <<slot, link, buf, transit, eof>>
history == <<told, sent, given, gap>>
vars == <<takeOver, session, acq, reply, rel, reading, terminal, history, turns>>

Releasable == {"held", "suspending"}

Init ==
  /\ takeOver \in TakeOver
  /\ state = "new" /\ owner = "nobody" /\ closing = FALSE /\ teardown = "none"
  /\ released = "unset" /\ proof = FALSE /\ rclosed = FALSE /\ rec = "none" /\ abort = FALSE
  /\ acq = "none" /\ reply = "none" /\ rel = "none" /\ eof = FALSE
  /\ read = "none" /\ reader = "nobody" /\ got = "none"
  /\ slot \in {"free", "other"} /\ link = "none" /\ buf = <<>> /\ transit = FALSE
  /\ told = FALSE /\ sent = 0 /\ given = 0 /\ gap = FALSE /\ turns = 0

\* _drop_channel: the HMC keeps the hold of a connection that goes away (P3).
Orphaned == IF slot = "ours" THEN "orphan" ELSE slot
DropChannel ==
  /\ link' = "none" /\ buf' = <<>> /\ transit' = FALSE /\ eof' = FALSE
  /\ slot' = Orphaned

\* Mutant: preempting a reader also drops the chunk it already took.
GiveChannelDropping(to) ==
  /\ owner' = to /\ read' = "none"
  /\ UNCHANGED <<reader, got>>

\* _give_channel preempts a read that waits; one that already took its chunk returns it.
GiveChannel(to) ==
  /\ owner' = to
  /\ read' = IF read = "waiting" THEN "none" ELSE read
  /\ UNCHANGED <<reader, got>>

-----------------------------------------------------------------------------
(* Acquisition: open(), resume() and a reconnect share _acquire.             *)

Open ==
  /\ state = "new" /\ ~closing
  /\ state' = "opening" /\ abort' = FALSE
  /\ acq' = IF takeOver THEN "remove" ELSE "start"
  /\ UNCHANGED <<owner, closing, teardown, released, proof, rclosed, rec, reply, rel, reading,
                 terminal, history, turns>>

\* resume() never takes over.
Resume ==
  /\ state = "suspended" /\ ~closing
  /\ state' = "resuming" /\ abort' = FALSE /\ acq' = "start"
  /\ UNCHANGED <<owner, closing, teardown, released, proof, rclosed, rec, reply, rel, reading,
                 terminal, history, turns>>

ReconnectStarts ==
  /\ rec = "running" /\ state = "dropped" /\ ~abort
  /\ state' = "reconnecting"
  /\ acq' = IF takeOver THEN "remove" ELSE "start"
  /\ UNCHANGED <<owner, closing, teardown, released, proof, rclosed, rec, abort, reply, rel,
                 reading, terminal, history, turns>>

\* The task that opens or resumes is cancelled; close() cancels a reconnect.
Cancel ==
  /\ state \in {"opening", "resuming"} /\ acq # "none" /\ ~abort
  /\ abort' = TRUE
  /\ UNCHANGED <<state, owner, closing, teardown, released, proof, rclosed, rec, acq, reply, rel,
                 reading, terminal, history, turns>>

\* rmvterm before a takeover; its exit code decides nothing.
AcqRemove ==
  /\ acq = "remove" /\ ~abort
  /\ slot' \in {slot, "free"}
  /\ acq' = "start"
  /\ UNCHANGED <<session, reply, rel, reading, link, buf, transit, eof, history, turns>>

\* mkvterm reaches the HMC, which grants a free slot and refuses a held one.
AcqStart ==
  /\ acq = "start"
  /\ link' = "up" /\ buf' = <<>> /\ transit' = FALSE /\ eof' = FALSE
  /\ told' = FALSE /\ sent' = 0 /\ given' = 0
  /\ \/ slot = "free" /\ slot' = "ours" /\ reply' = "banner"
     \/ slot # "free" /\ slot' = slot /\ reply' = "held"
  /\ acq' = "await"
  /\ UNCHANGED <<session, rel, reading, gap, turns>>

Fallback == CASE state = "opening" -> "unheld" [] state = "resuming" -> "suspended"
              [] OTHER -> "dropped"

\* The acquisition raises: back to the state it came from.
AcqGivesUp ==
  /\ state' = Fallback /\ acq' = "none" /\ reply' = "none"
  /\ rec' = IF rec = "running" THEN "error" ELSE rec
  /\ UNCHANGED <<owner, closing, teardown, released, proof, rclosed, abort, rel, reading, history,
                 turns>>

\* The connection fails, or a cancellation stops the unshielded rmvterm or a
\* reconnect that has not begun.
AcqFails ==
  \/ /\ acq = "start" \/ (acq = "remove" /\ abort)
     /\ AcqGivesUp /\ UNCHANGED terminal
  \/ /\ rec = "running" /\ state = "dropped" /\ abort
     /\ AcqGivesUp /\ UNCHANGED terminal

\* Contention: no rmvterm.
AcqHeld ==
  /\ acq = "await" /\ reply = "held"
  /\ AcqGivesUp /\ DropChannel

\* The stream dies, or stays silent past the bound, before the banner is read.
AcqDies ==
  /\ acq = "await" /\ (reply = "held" \/ SilentGrant)
  /\ AcqGivesUp /\ DropChannel

\* close() inside open() or resume(), when nobody called it yet.
CloseBegins == /\ closing' = TRUE /\ owner' = "nobody"
               /\ IF closing THEN UNCHANGED <<teardown, released>>
                             ELSE teardown' = "settle" /\ released' = "unproven"

\* How many chunks of output these bytes are.
Data(bytes) == Cardinality({i \in DOMAIN bytes : bytes[i] = "data"})

\* The banner proves the hold.  Bytes that came with it become _pending.
AcqOk ==
  /\ acq = "await" /\ reply = "banner"
  /\ state' = "held" /\ rclosed' = FALSE /\ acq' = "none" /\ reply' = "none"
  /\ \E n \in 0..(IF Coalesced THEN Len(buf) ELSE 0) :
       /\ buf' = SubSeq(buf, n + 1, Len(buf))
       /\ given' = Data(SubSeq(buf, 1, n))
  /\ \/ /\ rec = "running"
        /\ rec' = IF abort THEN "error" ELSE "gap"
        /\ gap' = ~abort
        /\ UNCHANGED <<owner, closing, teardown, released>>
     \/ /\ rec # "running"
        /\ IF abort \/ closing THEN CloseBegins
           ELSE owner' = "collector" /\ UNCHANGED <<closing, teardown, released>>
        /\ UNCHANGED <<rec, gap>>
  /\ UNCHANGED <<proof, abort, rel, reading, slot, link, transit, eof, told, sent, turns>>

-----------------------------------------------------------------------------
(* Reading.                                                                  *)

\* Mutant: read() does not look at the reconnect task first.
StartReadEager ==
  /\ read = "none" /\ owner # "nobody" /\ ~closing /\ state = "held"
  /\ read' = "waiting" /\ reader' = owner /\ got' = "none"
  /\ UNCHANGED <<session, acq, reply, rel, terminal, history, turns>>

\* read() of the collector or of a handover waits for its turn and starts.
StartRead ==
  /\ read = "none" /\ owner # "nobody" /\ ~closing /\ state = "held" /\ rec = "none"
  /\ read' = "waiting" /\ reader' = owner /\ got' = "none"
  /\ UNCHANGED <<session, acq, reply, rel, terminal, history, turns>>

\* asyncssh hands over one chunk; the end of the stream is there for every read.
ReadTakes ==
  /\ read = "waiting" /\ buf # <<>>
  /\ got' = Head(buf) /\ buf' = IF Head(buf) = "end" THEN buf ELSE Tail(buf)
  /\ read' = "done"
  /\ UNCHANGED <<session, acq, reply, rel, reader, slot, link, transit, eof, history, turns>>

\* _watch_for_lost_hold
Watched(chunk) == IF chunk = "lost" /\ state \in Releasable THEN "lost" ELSE state

\* A drop the collector may answer with a reconnect, and did not meet in a pause.
Drops == /\ got = "end" /\ reader = "collector" /\ Reconnect /\ ~rclosed /\ ~closing
         /\ owner = "collector" /\ state = "held"

\* The reader gets its chunk; the collector's end of stream starts a reconnect
\* when the connection is gone, and is latched as a remote close when it is not.
ReadReturns ==
  /\ read = "done"
  /\ read' = "none" /\ got' = "none"
  /\ given' = IF got = "data" THEN given + 1 ELSE given
  /\ \/ /\ Drops /\ link = "down"
        /\ state' = "dropped" /\ rec' = "running" /\ abort' = FALSE
        /\ DropChannel /\ UNCHANGED rclosed
     \/ /\ ~(Drops /\ link = "down")
        /\ state' = Watched(got)
        /\ rclosed' = (rclosed \/ Drops)
        /\ UNCHANGED <<rec, abort, terminal>>
  /\ UNCHANGED <<owner, closing, teardown, released, proof, acq, reply, rel, reader, told, sent,
                 gap, turns>>

\* A consumer's own timeout cancels its read.
ReadTimesOut ==
  /\ read = "waiting" \/ (LateTimeout /\ read = "done")
  /\ read' = "none" /\ got' = "none"
  /\ UNCHANGED <<session, acq, reply, rel, reader, terminal, history, turns>>

\* The outcome of a reconnect comes before anything else.
ReadOutcome ==
  /\ rec \in {"gap", "error"} /\ ~closing
  /\ rec' = "none" /\ gap' = FALSE
  /\ UNCHANGED <<state, owner, closing, teardown, released, proof, rclosed, abort, acq, reply, rel,
                 reading, terminal, told, sent, given, turns>>

-----------------------------------------------------------------------------
(* Pauses.                                                                   *)

Collecting == state = "held" /\ ~closing /\ owner = "collector" /\ rec = "none"

HandOver ==
  /\ Collecting /\ GiveChannel("handover")
  /\ UNCHANGED <<state, closing, teardown, released, proof, rclosed, rec, abort, acq, reply, rel,
                 terminal, history, turns>>

GiveBack ==
  /\ owner = "handover" /\ GiveChannel("collector")
  /\ UNCHANGED <<state, closing, teardown, released, proof, rclosed, rec, abort, acq, reply, rel,
                 terminal, history, turns>>

Suspend ==
  /\ Collecting /\ GiveChannel("nobody")
  /\ state' = "suspending" /\ rel' = "scan" /\ proof' = FALSE
  /\ UNCHANGED <<closing, teardown, released, rclosed, rec, abort, acq, reply, terminal, history,
                 turns>>

-----------------------------------------------------------------------------
(* close() and _teardown.                                                    *)

Close ==
  /\ state # "opening" /\ ~closing
  /\ closing' = TRUE /\ owner' = "nobody" /\ released' = "unproven"
  /\ teardown' = "reconnect"
  /\ abort' = (abort \/ rec = "running")
  /\ UNCHANGED <<state, proof, rclosed, rec, acq, reply, rel, reading, terminal, history, turns>>

AwaitReconnect ==
  /\ teardown = "reconnect" /\ rec # "running"
  /\ teardown' = "settle"
  /\ UNCHANGED <<state, owner, closing, released, proof, rclosed, rec, abort, acq, reply, rel,
                 reading, terminal, history, turns>>

\* Mutant: a cancelled resume() leaves _settled clear (no finally).
AwaitSettledCleared ==
  /\ teardown = "settle" /\ rel = "none" /\ acq = "none" /\ ~abort
  /\ \/ /\ state = "held"
        /\ teardown' = "release" /\ rel' = "scan" /\ proof' = FALSE
        /\ UNCHANGED <<released, terminal>>
     \/ /\ state # "held"
        /\ teardown' = "done"
        /\ released' = IF state = "suspended" /\ proof THEN "proven" ELSE "unproven"
        /\ DropChannel
        /\ UNCHANGED <<rel, proof>>
  /\ UNCHANGED <<state, owner, closing, rclosed, rec, abort, acq, reply, reading, history, turns>>

\* suspend() and resume() finish first; then what they left held is released.
AwaitSettled ==
  /\ teardown = "settle" /\ rel = "none" /\ acq = "none"
  /\ \/ /\ state = "held"
        /\ teardown' = "release" /\ rel' = "scan" /\ proof' = FALSE
        /\ UNCHANGED <<released, terminal>>
     \/ /\ state # "held"
        /\ teardown' = "done"
        /\ released' = IF state = "suspended" /\ proof THEN "proven" ELSE "unproven"
        /\ DropChannel
        /\ UNCHANGED <<rel, proof>>
  /\ UNCHANGED <<state, owner, closing, rclosed, rec, abort, acq, reply, reading, history, turns>>

-----------------------------------------------------------------------------
(* _release_hold, for close() and for suspend().                             *)

\* The release ends with proof p: the channel is dropped and the caller returns.
Ends(p) ==
  /\ proof' = p /\ rel' = "none"
  /\ link' = "none" /\ buf' = <<>> /\ transit' = FALSE /\ eof' = FALSE
  /\ \/ /\ teardown = "release"
        /\ teardown' = "done" /\ released' = IF p THEN "proven" ELSE "unproven"
        /\ UNCHANGED state
     \/ /\ teardown # "release"
        /\ state' = "suspended" /\ UNCHANGED <<teardown, released>>
  /\ UNCHANGED <<owner, closing, rclosed, rec, abort, acq, reply, reading, history, turns>>

\* A lost hold gets no rmvterm.
EndsLost == Ends(FALSE) /\ slot' = Orphaned

Goes(to) ==
  /\ rel' = to
  /\ UNCHANGED <<session, acq, reply, reading, history, turns>>

\* One chunk read by the release itself.
Skips(chunk) ==
  /\ buf' = Tail(buf) /\ chunk = "data"
  /\ UNCHANGED <<session, acq, reply, rel, reading, slot, link, transit, eof, history, turns>>

\* _release_by_eof ends only this session's own mkvterm; sending may fail.
SendEof ==
  /\ \/ eof' = TRUE /\ Goes("eofwait")
     \/ eof' = FALSE /\ Goes("remove")
  /\ UNCHANGED <<slot, link, buf, transit>>

\* A read in flight is preempted, or returns first.
ScanPreempts ==
  /\ rel = "scan" /\ read = "waiting"
  /\ read' = "none"
  /\ UNCHANGED <<session, acq, reply, rel, reader, got, terminal, history, turns>>

\* Mutant: the release does not look at what was received and never read.
ScanSkipped ==
  /\ rel = "scan" /\ read = "none"
  /\ \/ state = "lost" /\ EndsLost
     \/ state # "lost" /\ Goes("remove") /\ UNCHANGED terminal

\* _scan_unread reads what was received and never read; then EOF is sent, with no
\* await in between.
Scan ==
  /\ rel = "scan" /\ read = "none"
  /\ \/ state = "lost" /\ EndsLost
     \/ /\ state # "lost" /\ buf # <<>>
        /\ \/ Skips(Head(buf))
           \/ Head(buf) = "lost" /\ EndsLost
           \/ Head(buf) = "end" /\ Goes("remove") /\ UNCHANGED terminal
     \/ state # "lost" /\ buf = <<>> /\ SendEof

EofReads ==
  /\ rel = "eofwait" /\ buf # <<>>
  /\ \/ Skips(Head(buf))
     \/ Head(buf) = "lost" /\ EndsLost
     \/ /\ Head(buf) = "end"
        /\ Goes(IF link = "up" THEN "probe" ELSE "remove") /\ UNCHANGED terminal

\* Twenty seconds without an end.
EofTimesOut ==
  /\ rel = "eofwait" /\ buf = <<>>
  /\ Goes("remove") /\ UNCHANGED terminal

\* The fallback empties the slot, whoever holds it by now.
Remove ==
  /\ rel = "remove"
  /\ slot' \in {slot, "free"}
  /\ Goes("probe") /\ UNCHANGED <<link, buf, transit, eof>>

\* _probe_released opens its own mkvterm; contention or no start proves nothing.
Probe ==
  /\ rel = "probe"
  /\ \/ slot = "free" /\ slot' = "probe" /\ Goes("probing") /\ UNCHANGED <<link, buf, transit, eof>>
     \/ Ends(FALSE) /\ slot' = Orphaned

\* The probe's banner, or silence: then nothing is done to a slot not known to be its own.
ProbeReads ==
  /\ rel = "probing"
  /\ \/ Goes("probe_eof") /\ UNCHANGED terminal
     \/ SilentGrant /\ Ends(FALSE) /\ slot' = IF slot = "probe" THEN "orphan" ELSE slot

\* The probe ends its hold by EOF, learns that another client ended it, or falls back.
ProbeEof ==
  /\ rel = "probe_eof"
  /\ \/ Ends(TRUE) /\ slot' = IF slot = "probe" THEN "free" ELSE slot
     \/ Goes("probe_remove") /\ UNCHANGED terminal

ProbeRemove ==
  /\ rel = "probe_remove"
  /\ \/ Ends(TRUE) /\ slot' = "free"
     \/ RmvtermLies /\ Ends(TRUE) /\ slot' = IF slot = "probe" THEN "orphan" ELSE slot
     \/ Ends(FALSE) /\ slot' = IF slot = "probe" THEN "orphan" ELSE slot

-----------------------------------------------------------------------------
(* The HMC and the other client.                                             *)

Prints ==
  /\ slot = "ours" /\ link = "up" /\ sent < Chunks /\ ~eof
  /\ buf' = Append(buf, "data") /\ sent' = sent + 1
  /\ UNCHANGED <<session, acq, reply, rel, reading, slot, link, transit, eof, told, given, gap,
                 turns>>

AnswersEof ==
  /\ eof /\ slot = "ours" /\ link = "up"
  /\ slot' = "free" /\ eof' = FALSE /\ buf' = Append(buf, "end")
  /\ UNCHANGED <<session, acq, reply, rel, reading, link, transit, history, turns>>

\* mkvterm ends on its own while the connection stays up.
RemoteCloses ==
  /\ slot = "ours" /\ link = "up" /\ acq # "await"
  /\ slot' = "free" /\ buf' = Append(buf, "end")
  /\ UNCHANGED <<session, acq, reply, rel, reading, link, transit, eof, history, turns>>

ConnectionDrops ==
  /\ link = "up" /\ acq # "await"
  /\ link' = "down" /\ slot' = Orphaned /\ transit' = FALSE
  /\ buf' = IF buf # <<>> /\ buf[Len(buf)] = "end" THEN buf ELSE Append(buf, "end")
  /\ UNCHANGED <<session, acq, reply, rel, reading, eof, history, turns>>

OtherOpens ==
  /\ turns < Turns /\ slot = "free"
  /\ slot' = "other" /\ turns' = turns + 1
  /\ UNCHANGED <<session, acq, reply, rel, reading, link, buf, transit, eof, history>>

\* Its rmvterm; the HMC reports the loss on the stream of the session's own hold.
OtherRemoves ==
  /\ turns < Turns /\ slot # "free"
  /\ slot' = "free" /\ turns' = turns + 1
  /\ transit' = (transit \/ (slot = "ours" /\ link = "up"))
  /\ UNCHANGED <<session, acq, reply, rel, reading, link, buf, eof, history>>

ReportArrives ==
  /\ transit /\ link = "up"
  /\ transit' = FALSE /\ buf' = Append(buf, "lost")
  /\ told' = (rel \notin {"remove", "probe", "probing", "probe_eof", "probe_remove"})
  /\ UNCHANGED <<session, acq, reply, rel, reading, slot, link, eof, sent, given, gap, turns>>

-----------------------------------------------------------------------------
Acquire == \/ ReconnectStarts \/ AcqRemove \/ AcqStart \/ AcqFails \/ AcqHeld \/ AcqDies \/ AcqOk
Release == \/ ScanPreempts \/ Scan \/ EofReads \/ EofTimesOut \/ Remove
           \/ Probe \/ ProbeReads \/ ProbeEof \/ ProbeRemove
Teardown == AwaitReconnect \/ AwaitSettled
Caller == \/ Open \/ Resume \/ Cancel \/ StartRead \/ ReadTimesOut \/ ReadOutcome
          \/ HandOver \/ GiveBack \/ Suspend \/ Close
Outside == \/ Prints \/ AnswersEof \/ RemoteCloses \/ ConnectionDrops
           \/ OtherOpens \/ OtherRemoves \/ ReportArrives

Next ==
  /\ Acquire \/ Release \/ Teardown \/ ReadTakes \/ ReadReturns \/ Caller \/ Outside
  /\ UNCHANGED takeOver
Spec == Init /\ [][Next]_vars

\* The event loop runs every coroutine that can go on; every wait of the
\* acquisition, the release and the probe is bounded.
Fairness ==
  WF_vars((Acquire \/ Release \/ Teardown \/ ReadReturns) /\ UNCHANGED takeOver)
FairSpec == Spec /\ Fairness

-----------------------------------------------------------------------------
(* Properties.                                                               *)

\* Every variable has its type.
TypeOK ==
  /\ takeOver \in BOOLEAN
  /\ state \in {"new", "opening", "held", "suspending", "suspended", "resuming", "reconnecting",
                "dropped", "unheld", "lost"}
  /\ owner \in {"nobody", "collector", "handover"} /\ closing \in BOOLEAN
  /\ teardown \in {"none", "reconnect", "settle", "release", "done"}
  /\ released \in {"unset", "proven", "unproven"} /\ proof \in BOOLEAN /\ rclosed \in BOOLEAN
  /\ rec \in {"none", "running", "gap", "error"} /\ abort \in BOOLEAN
  /\ acq \in {"none", "remove", "start", "await"} /\ reply \in {"none", "banner", "held"}
  /\ rel \in {"none", "scan", "eofwait", "remove", "probe", "probing", "probe_eof",
              "probe_remove"}
  /\ eof \in BOOLEAN /\ read \in {"none", "waiting", "done"}
  /\ reader \in {"nobody", "collector", "handover"} /\ got \in {"none", "data", "lost", "end"}
  /\ slot \in {"free", "ours", "orphan", "probe", "other"} /\ link \in {"none", "up", "down"}
  /\ buf \in Seq({"data", "lost", "end"}) /\ transit \in BOOLEAN /\ told \in BOOLEAN
  /\ sent \in 0..Chunks /\ given \in 0..Chunks /\ gap \in BOOLEAN /\ turns \in 0..Turns

\* A release never issues rmvterm for a hold whose loss the HMC had reported to
\* it, read or unread: that would end the new holder's session (close()).
KnownLossSpared == rel = "remove" => ~told

\* released is True only when nothing of the session's is left in the slot: not
\* its stream, not a dropped one, not the probe that proved the release.
ReleasedProven == released = "proven" => slot \in {"free", "other"}

\* At most one hold and one task work at a time: an acquisition and a release
\* never overlap, and close() ends with neither running.
OneTask == /\ acq = "none" \/ rel = "none"
           /\ teardown = "done" => acq = "none" /\ rel = "none" /\ link = "none"

\* While the session is held, every chunk the partition printed was handed to a
\* reader, is being handed to one, or is still unread: pauses lose none.
BytesKept ==
  state = "held" /\ rel = "none" /\ teardown # "done" =>
    sent = given + Data(buf) + (IF read = "done" /\ got = "data" THEN 1 ELSE 0)

\* After a reconnect nobody gets a byte before the collector got the ConsoleGap.
GapFirst == [][given' > given => ~gap]_vars

\* close() returns, whatever is in flight, dropped, cancelled or held.
CloseEnds == closing ~> teardown = "done"
=============================================================================
