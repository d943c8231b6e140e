----------------------------- MODULE AuditSink -----------------------------
(* The bounded, non-blocking sink of audit records and stderr diagnostics     *)
(* (audit/sink.py, _StderrSink).  Producers submit lines under the sink's     *)
(* lock; one daemon thread takes them from the queue and writes them to a     *)
(* stderr that may be read, stuck or broken; callers drain and close the sink *)
(* with bounded waits.  Lines are numbered in the order they are submitted.   *)
EXTENDS Integers, Sequences, FiniteSets, SequencesExt

CONSTANTS
  Lines,         \* how many lines are submitted in all (bounds the state space)
  Capacity,      \* _QUEUE_CAPACITY
  Caller,        \* threads that call drain or close
  StartMayFail   \* TRUE: the interpreter may refuse to start a thread

SinkAssumption ==
  /\ Lines \in Nat
  /\ Capacity \in Nat \ {0}
  /\ StartMayFail \in BOOLEAN

VARIABLES
  queue,    \* _queue: line numbers and the sentinel
  pending,  \* _pending
  dropped,  \* _dropped
  closed,   \* _closed
  writer,   \* _writer is set
  pc,       \* where the writer thread is in _run
  item,     \* the queue item the writer thread took
  owed,     \* the drops the writer thread has taken to report
  landed,   \* whether the write of its item landed
  call,     \* what each caller is doing, or how its last call ended
  asked,    \* the number of lines submitted when the caller called drain
  sent,     \* the number of lines submitted
  told,     \* the number of drops the markers have reported
  before,   \* how many lines had been lost when each line was accepted
  failed,   \* the marker ahead of the item in hand did not land
  stream,   \* what reached stderr: lines and drop markers
  stderr    \* "read", "stuck" or "broken"

vars == <<queue, pending, dropped, closed, writer, pc, item, owed, landed,
          call, asked, sent, told, before, failed, stream, stderr>>
thread == <<pc, item, owed, landed, failed>>
calls  == <<call, asked>>
past   == <<sent, told, before, stream>>

Sentinel == 0
Line == 1..Lines
LineEntry(n) == [kind |-> "line", n |-> n]
DropMarker(n) == [kind |-> "records-dropped", n |-> n]

Init ==
  /\ queue = <<>> /\ pending = 0 /\ dropped = 0 /\ closed = FALSE
  /\ writer = FALSE /\ pc = "unborn" /\ item = Sentinel /\ owed = 0 /\ landed = FALSE
  /\ call = [c \in Caller |-> "idle"] /\ asked = [c \in Caller |-> 0]
  /\ sent = 0 /\ told = 0 /\ before = [n \in Line |-> 0] /\ failed = FALSE
  /\ stream = <<>>
  /\ stderr = "read"

-----------------------------------------------------------------------------
(* Producers.  submit holds the sink's lock from end to end.                 *)

Full == Len(queue) >= Capacity

\* A line refused because the sink is closed or full: counted, not kept.
Refuse ==
  /\ sent < Lines
  /\ closed \/ Full
  /\ sent' = sent + 1 /\ dropped' = dropped + 1
  /\ UNCHANGED <<queue, pending, closed, writer, thread, calls, told, before, stream, stderr>>

\* A line queued; the first one starts the writer.  (_writer is unset only while
\* no thread ever ran or the one that ran has ended, so one pc is enough.)
Submit ==
  /\ sent < Lines
  /\ ~closed /\ ~Full
  /\ writer' = TRUE /\ pc' = IF writer THEN pc ELSE "get"
  /\ queue' = Append(queue, sent + 1) /\ pending' = pending + 1
  /\ sent' = sent + 1
  /\ before' = [before EXCEPT ![sent + 1] = told + owed + dropped]
  /\ UNCHANGED <<dropped, closed, item, owed, landed, failed, calls, told, stream, stderr>>

\* Thread.start raises after the thread was stored: the caller gets the exception
\* and its line back, and the sink keeps a writer that never runs.
SubmitRaises ==
  /\ StartMayFail /\ sent < Lines
  /\ ~closed /\ ~Full /\ ~writer
  /\ writer' = TRUE
  /\ UNCHANGED <<queue, pending, dropped, closed, thread, calls, past, stderr>>

-----------------------------------------------------------------------------
(* The writer thread.                                                        *)

Get ==
  /\ pc = "get" /\ queue # <<>>
  /\ item' = Head(queue) /\ queue' = Tail(queue)
  /\ pc' = "report" /\ failed' = FALSE
  /\ UNCHANGED <<pending, dropped, closed, writer, owed, landed, calls, past, stderr>>

\* Where _run goes once the drops are reported: the sentinel ends it.
Onward == IF item = Sentinel THEN "done" ELSE "write"

\* _report_drops takes the count under the lock ...
TakeOwed ==
  /\ pc = "report"
  /\ owed' = dropped /\ dropped' = 0
  /\ pc' = IF dropped = 0 THEN Onward ELSE "mark"
  /\ UNCHANGED <<queue, pending, closed, writer, item, landed, failed, calls, past, stderr>>

\* ... writes the marker outside it ...
MarkLands ==
  /\ pc = "mark" /\ stderr = "read"
  /\ stream' = Append(stream, DropMarker(owed))
  /\ told' = told + owed /\ owed' = 0
  /\ pc' = Onward
  /\ UNCHANGED <<queue, pending, dropped, closed, writer, item, landed, failed, calls, sent, before,
                 stderr>>

MarkFails ==
  /\ pc = "mark" /\ stderr = "broken"
  /\ pc' = "restore" /\ failed' = TRUE
  /\ UNCHANGED <<queue, pending, dropped, closed, writer, item, owed, landed, calls, past, stderr>>

\* ... and puts the count back when the marker did not land.
RestoreOwed ==
  /\ pc = "restore"
  /\ dropped' = dropped + owed /\ owed' = 0
  /\ pc' = Onward
  /\ UNCHANGED <<queue, pending, closed, writer, item, landed, failed, calls, past, stderr>>

\* Mutant: a write that fails ends the thread.
WriteDies ==
  /\ pc = "write" /\ stderr # "stuck"
  /\ landed' = (stderr = "read")
  /\ stream' = IF stderr = "read" THEN Append(stream, LineEntry(item)) ELSE stream
  /\ pc' = IF stderr = "read" THEN "settle" ELSE "done"
  /\ UNCHANGED <<queue, pending, dropped, closed, writer, item, owed, failed, calls, sent, told, before,
                 stderr>>

\* One write per item.  A stuck stderr blocks it, a broken or absent one fails it.
Write ==
  /\ pc = "write" /\ stderr # "stuck"
  /\ landed' = (stderr = "read")
  /\ stream' = IF stderr = "read" THEN Append(stream, LineEntry(item)) ELSE stream
  /\ pc' = "settle"
  /\ UNCHANGED <<queue, pending, dropped, closed, writer, item, owed, failed, calls, sent, told, before,
                 stderr>>

Settle ==
  /\ pc = "settle"
  /\ dropped' = IF landed THEN dropped ELSE dropped + 1
  /\ pending' = pending - 1
  /\ pc' = "get"
  /\ UNCHANGED <<queue, closed, writer, item, owed, landed, failed, calls, past, stderr>>

Run == Get \/ TakeOwed \/ MarkLands \/ MarkFails \/ RestoreOwed \/ Write \/ Settle

-----------------------------------------------------------------------------
(* drain and close.  Their waits are bounded by a timeout.                   *)

Drained == IF pending = 0 THEN "drained" ELSE "undrained"

Drain(c) ==
  /\ call[c] \notin {"draining", "joining"}
  /\ call' = [call EXCEPT ![c] = IF closed THEN Drained ELSE "draining"]
  /\ asked' = [asked EXCEPT ![c] = sent]
  /\ UNCHANGED <<queue, pending, dropped, closed, writer, thread, past, stderr>>

\* The wait ends when nothing is pending, or when its timeout passes.
DrainEnds(c) ==
  /\ call[c] = "draining"
  /\ call' = [call EXCEPT ![c] = Drained]
  /\ UNCHANGED <<queue, pending, dropped, closed, writer, thread, asked, past, stderr>>

\* The first section of close: mark the sink closed and queue the sentinel once,
\* behind every line, in the slot submit never uses.
Close(c) ==
  /\ call[c] \notin {"draining", "joining"}
  /\ closed' = TRUE
  /\ queue' = IF writer /\ ~closed THEN Append(queue, Sentinel) ELSE queue
  /\ call' = [call EXCEPT ![c] = IF writer THEN "joining" ELSE "closed"]
  /\ UNCHANGED <<pending, dropped, writer, thread, asked, past, stderr>>

\* The join ends with the thread or with its timeout; a live writer is kept for
\* the next close to join again.  A thread that never started cannot be joined.
CloseEnds(c) ==
  /\ call[c] = "joining" /\ pc # "unborn"
  /\ writer' = (pc # "done" /\ writer)
  /\ call' = [call EXCEPT ![c] = "closed"]
  /\ UNCHANGED <<queue, pending, dropped, closed, thread, asked, past, stderr>>

CloseRaises(c) ==
  /\ call[c] = "joining" /\ pc = "unborn"
  /\ call' = [call EXCEPT ![c] = "raised"]
  /\ UNCHANGED <<queue, pending, dropped, closed, writer, thread, asked, past, stderr>>

-----------------------------------------------------------------------------
(* The reader of stderr: it may stop reading, read again, or go away.        *)

Stderr(from, to) ==
  /\ stderr = from /\ stderr' = to
  /\ UNCHANGED <<queue, pending, dropped, closed, writer, thread, calls, past>>

Stall  == Stderr("read", "stuck")
Resume == Stderr("stuck", "read")
Break  == Stderr("read", "broken") \/ Stderr("stuck", "broken")
Mend   == Stderr("broken", "read")

Next ==
  \/ Refuse \/ Submit \/ SubmitRaises
  \/ Run
  \/ \E c \in Caller : Drain(c) \/ DrainEnds(c) \/ Close(c) \/ CloseEnds(c) \/ CloseRaises(c)
  \/ Stall \/ Resume \/ Break \/ Mend

Spec == Init /\ [][Next]_vars

-----------------------------------------------------------------------------
(* Properties.                                                               *)

\* Every variable has its type; the queue never outgrows its capacity and the
\* slot reserved for the sentinel, so put_nowait never raises Full.
TypeOK ==
  /\ queue \in Seq(0..Lines) /\ Len(queue) <= Capacity + 1
  /\ pending \in Nat /\ dropped \in Nat /\ owed \in Nat
  /\ closed \in BOOLEAN /\ writer \in BOOLEAN /\ landed \in BOOLEAN
  /\ pc \in {"unborn", "get", "report", "mark", "restore", "write", "settle", "done"}
  /\ item \in 0..Lines
  /\ call \in [Caller -> {"idle", "draining", "drained", "undrained", "joining", "closed", "raised"}]
  /\ asked \in [Caller -> 0..Lines]
  /\ failed \in BOOLEAN
  /\ sent \in 0..Lines /\ told \in Nat /\ before \in [Line -> Nat]
  /\ stream \in Seq([kind : {"line", "records-dropped"}, n : Nat])
  /\ stderr \in {"read", "stuck", "broken"}

\* The item the writer holds is a line it has not written yet.
InHand == pc \in {"report", "mark", "restore", "write"} /\ item # Sentinel

\* The lines in the queue: the sentinel is queued last.
Queued == IF queue # <<>> /\ Last(queue) = Sentinel THEN Front(queue) ELSE queue
Waiting == IF InHand THEN <<item>> \o Queued ELSE Queued
Lost == dropped + owed + (IF pc = "settle" /\ ~landed THEN 1 ELSE 0)
Trail == INSTANCE AuditTrail WITH waiting <- Waiting, lost <- Lost

\* A step of the sink is a step of AuditTrail or none: submission order, no repeats,
\* and every loss reported or still owed (_StderrSink's "Nothing is lost silently").
TrailStep == Trail!Next \/ UNCHANGED Trail!trail

\* pending is the number of lines that are neither written nor counted lost, and
\* drain answers True only when none of those submitted before it is left.
DrainHonest ==
  \A c \in Caller : call[c] = "drained" =>
    \A i \in DOMAIN Waiting : Waiting[i] > asked[c]

\* The writer ends only after every accepted line was written or counted: closing
\* a full queue evicts nothing, and nothing is queued behind the sentinel.
StopsLast == pc = "done" => queue = <<>> /\ pending = 0

\* What drain and close answer for: a line is behind neither.
DrainSound == DrainHonest /\ StopsLast

\* A line lands below a marker for every loss that preceded its submission, unless
\* that marker itself failed to land (docs/authorization-audit.md:581).
MarkerAhead == pc = "write" /\ stderr = "read" /\ ~failed => told >= before[item]

\* submit never raises: no call of it leaves a thread that failed to start
\* (submit, audit/sink.py:108: "Never blocks, never raises").
NeverRaises == writer => pc # "unborn"

=============================================================================
