------------------------------- MODULE MCLive -------------------------------
(* What must end: the records of the engine, the close() of a console session *)
(* and the lines of the audit sink, on instances small enough for liveness.    *)
(* They share no state; each behaviour runs one of them, and the variables of  *)
(* the others are "off" or stay as they are.                                   *)
EXTENDS MCLogicalEngine

VARIABLES
  which,   \* the component that runs
  (* ConsoleSession *)
  takeOver, condition, owner, closing, teardown, released, proof, rclosed, rec, abort, acq,
  reply, rel, eof, read, reader, got, slot, link, buf, transit, told, sent, given, gap, turns,
  (* AuditSink *)
  queue, pending, dropped, shut, writer, writerPc, item, owed, landed, asks, asked, lines,
  marked, before, failed, stream, stderr

consoleVars ==
  <<takeOver, condition, owner, closing, teardown, released, proof, rclosed, rec, abort, acq,
    reply, rel, eof, read, reader, got, slot, link, buf, transit, told, sent, given, gap, turns>>
sinkVars ==
  <<queue, pending, dropped, shut, writer, writerPc, item, owed, landed, asks, asked, lines,
    marked, before, failed, stream, stderr>>

Console == INSTANCE ConsoleSession WITH
  TakeOver <- BOOLEAN, Reconnect <- TRUE, Chunks <- 0, Turns <- 2, SilentGrant <- TRUE,
  Coalesced <- TRUE, LateTimeout <- TRUE, RmvtermLies <- TRUE, state <- condition
Sink == INSTANCE AuditSink WITH
  Lines <- 2, Capacity <- 1, Caller <- {"exit"}, StartMayFail <- TRUE, closed <- shut,
  pc <- writerPc, call <- asks, sent <- lines, told <- marked

ASSUME Console!ConsoleAssumption /\ Sink!SinkAssumption

LiveInit ==
  /\ Init
  /\ which \in {"engine", "console", "sink"}
  /\ IF which = "console" THEN Console!Init
     ELSE /\ takeOver = "off" /\ condition = "off" /\ owner = "off" /\ closing = "off"
          /\ teardown = "off" /\ released = "off" /\ proof = "off" /\ rclosed = "off"
          /\ rec = "off" /\ abort = "off" /\ acq = "off" /\ reply = "off" /\ rel = "off"
          /\ eof = "off" /\ read = "off" /\ reader = "off" /\ got = "off" /\ slot = "off"
          /\ link = "off" /\ buf = "off" /\ transit = "off" /\ told = "off" /\ sent = "off"
          /\ given = "off" /\ gap = "off" /\ turns = "off"
  /\ IF which = "sink" THEN Sink!Init
     ELSE /\ queue = "off" /\ pending = "off" /\ dropped = "off" /\ shut = "off"
          /\ writer = "off" /\ writerPc = "off" /\ item = "off" /\ owed = "off"
          /\ landed = "off" /\ asks = "off" /\ asked = "off" /\ lines = "off"
          /\ marked = "off" /\ before = "off" /\ failed = "off" /\ stream = "off"
          /\ stderr = "off"

LiveNext ==
  \/ which = "engine" /\ Next /\ UNCHANGED <<which, consoleVars, sinkVars>>
  \/ which = "console" /\ Console!Next /\ UNCHANGED <<which, vars, sinkVars>>
  \/ which = "sink" /\ Sink!Next /\ UNCHANGED <<which, vars, consoleVars>>
  \/ which # "engine" /\ UNCHANGED <<which, vars, consoleVars, sinkVars>>

(* The fairness of the component that runs, as its module states it.           *)
EngineFairness ==
  /\ \A p \in Proc :
       /\ SF_vars(which = "engine" /\ Enter(p)) /\ SF_vars(which = "engine" /\ TakeLock(p))
       /\ SF_vars(which = "engine" /\ KeepLock(p))
       /\ WF_vars(which = "engine" /\ (StartFails(p) \/ \E t \in Thread : StartWorker(p, t)))
       /\ \A o \in Op : SF_vars(which = "engine" /\ Repeat(p, o))
  /\ \A t \in Thread :
       /\ WF_vars(which = "engine" /\ Work(t))
       /\ SF_vars(which = "engine" /\ \E f \in Fates : BodyEnds(t, f))

ConsoleFairness ==
  WF_consoleVars(/\ which = "console"
                 /\ Console!Acquire \/ Console!Release \/ Console!Teardown \/ Console!ReadReturns
                 /\ UNCHANGED takeOver)

SinkFairness ==
  /\ WF_sinkVars(which = "sink" /\ Sink!Run)
  /\ WF_sinkVars(/\ which = "sink"
                 /\ \/ Sink!DrainEnds("exit") \/ Sink!CloseEnds("exit")
                    \/ Sink!CloseRaises("exit"))

LiveSpec ==
  /\ LiveInit /\ [][LiveNext]_<<which, vars, consoleVars, sinkVars>>
  /\ EngineFairness /\ ConsoleFairness /\ SinkFairness

\* close() returns, whatever is in flight, dropped, cancelled or held (ConsoleSession).
CloseEnds == (which = "console" /\ closing) ~> teardown = "done"

\* Once stderr keeps accepting or refusing writes, every accepted line is written or
\* counted: no failure of a write stops a writer that started (AuditSink).
Settles ==
  <>[](which = "sink" /\ stderr # "stuck") /\ [](which = "sink" => Sink!NeverRaises)
    => <>[](which = "sink" => Sink!Waiting = <<>> /\ pending = 0)
=============================================================================
