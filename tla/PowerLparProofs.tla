--------------------------- MODULE PowerLparProofs ---------------------------
(* The safety properties of PowerLpar, for every set of operations and        *)
(* requests and any number of changes by other users.                         *)
EXTENDS PowerLpar, TLAPS

Ended == {"completed", "failed"}

\* Where the worker is, and what that says of the effect and of the guard.
WorkInv(o) ==
  /\ pc[o] # "idle" => record[o] = "running"
  /\ pc[o] \in {"resolve", "guard", "check"} => effect[o] = "none"
  /\ pc[o] \in {"write", "sent"} => effect[o] = "open"
  /\ pc[o] = "check" => guarded[o]
  /\ record[o] = "absent" => effect[o] = "none" /\ ~guarded[o]

\* The one job: nothing is sent before the intent, and none twice.
JobInv(o) ==
  /\ effect[o] = "none" \/ pc[o] = "write" => submits[o] = 0
  /\ effect[o] # "none" => guarded[o]
  /\ submits[o] \in {0, 1} /\ (submits[o] = 0 => job[o] = "none")
  /\ fate[o] # "none" <=> job[o] \in {"over", "gone"}
  /\ known[o] => job[o] \in {"queued", "over", "gone"}

\* The states an operation has seen the partition in, and its listing among them.
SeenInv(o) ==
  /\ record[o] # "absent" => power \in since[o]
  /\ pc[o] \in {"guard", "check"} => entry[o].state \in since[o]

\* A worker settles, and an operation ends, on what its job or its state proves.
EndInv(o) ==
  /\ pc[o] = "settle" => /\ known[o] => job[o] \notin Pending
                         /\ action(o) = "restart" => fate[o] = "ok"
  /\ record[o] \in Ended /\ known[o] => job[o] \notin Pending
  /\ record[o] = "completed" =>
       /\ Target(o) \in since[o]
       /\ action(o) = "restart" => fate[o] = "ok"
  /\ record[o] = "failed" =>
       submits[o] = 0 \/ fate[o] = "bad" \/ (action(o) = "start" /\ observed[o] = "error")

\* At most one live operation guards the partition.
OneHolder ==
  \A o, x \in Op : guarded[o] /\ guarded[x] /\ record[o] \in Live /\ record[x] \in Live => o = x

OpInv(o) == WorkInv(o) /\ JobInv(o) /\ SeenInv(o) /\ EndInv(o)

IInv == TypeOK /\ (\A o \in Op : OpInv(o)) /\ OneHolder

-----------------------------------------------------------------------------
(* Every step keeps the invariant.                                           *)

\* No operation exists: every part holds.
LEMMA InitInv == Init => IInv
<1> SUFFICES ASSUME Init PROVE IInv
  OBVIOUS
<1> USE DEF Init, Power, Live, Ended
<1>1. TypeOK
  BY TurnsAssumption DEF TypeOK
<1>2. ASSUME NEW o \in Op PROVE OpInv(o)
  BY <1>2 DEF OpInv, WorkInv, JobInv, SeenInv, EndInv
<1>3. OneHolder
  BY DEF OneHolder
<1> QED
  BY <1>1, <1>2, <1>3 DEF IInv

\* The target and the listed states are states of a partition.
LEMMA Targets == \A o \in Op : Target(o) \in Power
BY DEF Target, Power

\* A worker that ends leaves variables of their types.
LEMMA EndsType ==
  ASSUME TypeOK, NEW o \in Op, NEW r \in Live \cup {"completed", "failed", "abandoned"}, Ends(o, r)
  PROVE  /\ record' \in [Op -> Live \cup {"absent", "completed", "failed", "abandoned"}]
         /\ pc' \in [Op -> {"idle", "reconcile", "resolve", "guard", "check", "write", "sent", "await", "settle"}]
         /\ entry' \in [Op -> [state : Power, rmc : BOOLEAN]] /\ replay' \in [Op -> BOOLEAN]
<1>1. [state |-> "off", rmc |-> FALSE] \in [state : Power, rmc : BOOLEAN]
  BY DEF Power
<1>2. ASSUME NEW e \in [state : Power, rmc : BOOLEAN], entry' = [entry EXCEPT ![o] = e]
      PROVE  entry' \in [Op -> [state : Power, rmc : BOOLEAN]]
  BY <1>2 DEF TypeOK
<1>3. entry' \in [Op -> [state : Power, rmc : BOOLEAN]]
  BY <1>1, <1>2 DEF Ends
<1> QED
  BY <1>3 DEF Ends, TypeOK

\* Every step keeps every variable's type.
LEMMA TypeStep ==
  ASSUME TypeOK, Next PROVE TypeOK'
<1> USE DEF TypeOK, store, thread, hmc, history, Power, Live, Pending
<1>1. ASSUME NEW o \in Op, Run(o) PROVE TypeOK'
  BY <1>1 DEF Run
<1>2. ASSUME NEW o \in Op, Abandon(o) PROVE TypeOK'
  BY <1>2 DEF Abandon
<1>3. ASSUME NEW o \in Op, Reconcile(o) PROVE TypeOK'
  <2>1. CASE Ends(o, "paused") /\ UNCHANGED effect
    BY <1>3, <2>1, EndsType DEF Reconcile
  <2>2. CASE ~(Ends(o, "paused") /\ UNCHANGED effect)
    <3>1. effect' \in [Op -> {"none", "open", "applied"}]
      BY <1>3, <2>2 DEF Reconcile, Classify
    <3>2. /\ replay' \in [Op -> BOOLEAN] /\ UNCHANGED <<record, entry>>
          /\ UNCHANGED <<request, known, guarded, observed, hmc, history, turns>>
      BY <1>3, <2>2 DEF Reconcile, Goes
    <3>3. pc' = [pc EXCEPT ![o] = "await"] \/ pc' = [pc EXCEPT ![o] = "resolve"]
      BY <1>3, <2>2 DEF Reconcile, Goes
    <3> QED
      BY <3>1, <3>2, <3>3
  <2> QED
    BY <2>1, <2>2
<1>4. ASSUME NEW o \in Op, Resolve(o) PROVE TypeOK'
  <2>1. ASSUME NEW e \in [state : Power, rmc : BOOLEAN], entry' = [entry EXCEPT ![o] = e]
        PROVE  entry' \in [Op -> [state : Power, rmc : BOOLEAN]]
    BY <2>1
  <2>2. [state |-> power, rmc |-> rmc] \in [state : Power, rmc : BOOLEAN]
    OBVIOUS
  <2>3. entry' \in [Op -> [state : Power, rmc : BOOLEAN]]
    BY <1>4, <2>1, <2>2, EndsType DEF Resolve
  <2>4. /\ record' \in [Op -> Live \cup {"absent", "completed", "failed", "abandoned"}]
        /\ pc' \in [Op -> {"idle", "reconcile", "resolve", "guard", "check", "write", "sent", "await", "settle"}]
        /\ replay' \in [Op -> BOOLEAN]
    BY <1>4, EndsType DEF Resolve
  <2> QED
    BY <1>4, <2>3, <2>4 DEF Resolve
<1>5. ASSUME NEW o \in Op, Guard(o) PROVE TypeOK'
  <2>1. CASE Ends(o, "failed") /\ UNCHANGED guarded
    BY <1>5, <2>1, EndsType DEF Guard
  <2>2. CASE /\ guarded' = [guarded EXCEPT ![o] = TRUE]
             /\ Goes(o, "check") /\ UNCHANGED replay
    BY <1>5, <2>2 DEF Guard, Goes
  <2> QED
    BY <1>5, <2>1, <2>2 DEF Guard
<1>6. ASSUME NEW o \in Op, Check(o) PROVE TypeOK'
  <2>1. observed' \in [Op -> Power \cup {"none"}]
    BY <1>6 DEF Check
  <2>2. CASE Ends(o, "completed") /\ UNCHANGED effect
    BY <1>6, <2>1, <2>2, EndsType DEF Check
  <2>3. CASE Ends(o, "failed") /\ UNCHANGED effect
    BY <1>6, <2>1, <2>3, EndsType DEF Check
  <2>4. CASE /\ effect' = [effect EXCEPT ![o] = "open"]
             /\ Goes(o, "write") /\ UNCHANGED replay
    BY <1>6, <2>1, <2>4 DEF Check, Goes
  <2> QED
    BY <1>6, <2>2, <2>3, <2>4 DEF Check
<1>7. ASSUME NEW o \in Op, Submit(o) PROVE TypeOK'
  BY <1>7 DEF Submit, Goes
<1>8. ASSUME NEW o \in Op, Answer(o) PROVE TypeOK'
  <2>1. CASE Ends(o, "paused") /\ UNCHANGED <<effect, known>>
    BY <1>8, <2>1, EndsType DEF Answer
  <2>2. CASE /\ effect' = [effect EXCEPT ![o] = "applied"]
             /\ known' = [known EXCEPT ![o] = TRUE]
             /\ Goes(o, "await") /\ UNCHANGED replay
    BY <1>8, <2>2 DEF Answer, Goes
  <2> QED
    BY <1>8, <2>1, <2>2 DEF Answer
<1>9. ASSUME NEW o \in Op, Await(o) PROVE TypeOK'
  BY <1>9, EndsType DEF Await, Goes
<1>10. ASSUME NEW o \in Op, Settle(o) PROVE TypeOK'
  <2>1. observed' \in [Op -> Power \cup {"none"}]
    BY <1>10 DEF Settle
  <2>2. \E r \in {"completed", "failed", "paused"} : Ends(o, r)
    BY <1>10 DEF Settle
  <2> QED
    BY <1>10, <2>1, <2>2, EndsType DEF Settle
<1>11. ASSUME NEW o \in Op, Arrive(o) PROVE TypeOK'
  BY <1>11 DEF Arrive
<1>12. ASSUME NEW o \in Op, JobEnds(o) PROVE TypeOK'
  BY <1>12, Targets DEF JobEnds, Becomes
<1>13. ASSUME NEW o \in Op, Forget(o) PROVE TypeOK'
  BY <1>13 DEF Forget
<1>14. CASE Crash
  BY <1>14 DEF Crash
<1>15. CASE OtherUser
  BY <1>15, TurnsAssumption DEF OtherUser, Becomes
<1> QED
  BY <1>1, <1>2, <1>3, <1>4, <1>5, <1>6, <1>7, <1>8, <1>9, <1>10, <1>11, <1>12, <1>13, <1>14, <1>15 DEF Next, Body

\* Every step, also one of another operation, keeps what is known of each operation.
LEMMA OpStep ==
  ASSUME IInv, Next, NEW x \in Op PROVE OpInv(x)'
<1> USE DEF TypeOK, OpInv, WorkInv, JobInv, SeenInv, EndInv, IInv,
            store, thread, hmc, history, Power, Live, Pending, Ended, Target, action
<1>1. ASSUME NEW o \in Op, Run(o) PROVE OpInv(x)'
  BY <1>1 DEF Run
<1>2. ASSUME NEW o \in Op, Abandon(o) PROVE OpInv(x)'
  BY <1>2 DEF Abandon
<1>3. ASSUME NEW o \in Op, Reconcile(o) PROVE OpInv(x)'
  BY <1>3 DEF Reconcile, Ends, Goes, Classify
<1>4. ASSUME NEW o \in Op, Resolve(o) PROVE OpInv(x)'
  BY <1>4 DEF Resolve, Ends
<1>5. ASSUME NEW o \in Op, Guard(o) PROVE OpInv(x)'
  BY <1>5 DEF Guard, Ends, Goes, Holders
<1>6. ASSUME NEW o \in Op, Check(o) PROVE OpInv(x)'
  BY <1>6 DEF Check, Ends, Goes, Already, Allowed
<1>7. ASSUME NEW o \in Op, Submit(o) PROVE OpInv(x)'
  BY <1>7 DEF Submit, Goes
<1>8. ASSUME NEW o \in Op, Answer(o) PROVE OpInv(x)'
  <2>1. CASE x # o
    BY <1>8, <2>1 DEF Answer, Ends, Goes
  <2>2. CASE x = o /\ Ends(o, "paused") /\ UNCHANGED <<effect, known>>
    BY <1>8, <2>2 DEF Answer, Ends
  <2>3. CASE /\ x = o /\ job[o] \notin {"none", "sent", "lost"} /\ pc[o] = "sent"
             /\ effect' = [effect EXCEPT ![o] = "applied"]
             /\ known' = [known EXCEPT ![o] = TRUE]
             /\ Goes(o, "await") /\ UNCHANGED replay
    BY <1>8, <2>3 DEF Answer, Goes
  <2> QED
    BY <1>8, <2>1, <2>2, <2>3 DEF Answer
<1>9. ASSUME NEW o \in Op, Await(o) PROVE OpInv(x)'
  BY <1>9 DEF Await, Ends, Goes
<1>10. ASSUME NEW o \in Op, Settle(o) PROVE OpInv(x)'
  BY <1>10 DEF Settle, Ends
<1>11. ASSUME NEW o \in Op, Arrive(o) PROVE OpInv(x)'
  BY <1>11 DEF Arrive
<1>12. ASSUME NEW o \in Op, JobEnds(o) PROVE OpInv(x)'
  BY <1>12 DEF JobEnds, Becomes
<1>13. ASSUME NEW o \in Op, Forget(o) PROVE OpInv(x)'
  BY <1>13 DEF Forget
<1>14. CASE Crash
  BY <1>14 DEF Crash
<1>15. CASE OtherUser
  BY <1>15 DEF OtherUser, Becomes
<1> QED
  BY <1>1, <1>2, <1>3, <1>4, <1>5, <1>6, <1>7, <1>8, <1>9, <1>10, <1>11, <1>12, <1>13, <1>14, <1>15 DEF Next, Body

\* A second live operation never comes to guard the partition.
LEMMA HolderStep ==
  ASSUME IInv, Next PROVE OneHolder'
<1> USE DEF TypeOK, OneHolder, IInv, OpInv, WorkInv, store, thread, hmc, history, Live
<1>1. ASSUME NEW o \in Op, Run(o) PROVE OneHolder'
  BY <1>1 DEF Run
<1>2. ASSUME NEW o \in Op, Abandon(o) PROVE OneHolder'
  BY <1>2 DEF Abandon
<1>3. ASSUME NEW o \in Op, Reconcile(o) PROVE OneHolder'
  BY <1>3 DEF Reconcile, Ends, Goes, Classify
<1>4. ASSUME NEW o \in Op, Resolve(o) PROVE OneHolder'
  BY <1>4 DEF Resolve, Ends
<1>5. ASSUME NEW o \in Op, Guard(o) PROVE OneHolder'
  <2>1. CASE Holders(o) # {}
    BY <1>5, <2>1 DEF Guard, Ends
  <2>2. CASE Holders(o) = {}
    <3>1. \A x \in Op : x # o => ~(guarded[x] /\ record[x] \in Live)
      BY <2>2 DEF Holders
    <3>2. guarded' = [guarded EXCEPT ![o] = TRUE] /\ record' = record
      BY <1>5, <2>2 DEF Guard, Goes
    <3> QED
      BY <3>1, <3>2
  <2> QED
    BY <2>1, <2>2
<1>6. ASSUME NEW o \in Op, Check(o) PROVE OneHolder'
  BY <1>6 DEF Check, Ends, Goes, Already, Allowed
<1>7. ASSUME NEW o \in Op, Submit(o) PROVE OneHolder'
  BY <1>7 DEF Submit, Goes
<1>8. ASSUME NEW o \in Op, Answer(o) PROVE OneHolder'
  BY <1>8 DEF Answer, Ends, Goes
<1>9. ASSUME NEW o \in Op, Await(o) PROVE OneHolder'
  BY <1>9 DEF Await, Ends, Goes
<1>10. ASSUME NEW o \in Op, Settle(o) PROVE OneHolder'
  BY <1>10 DEF Settle, Ends
<1>11. ASSUME NEW o \in Op, Arrive(o) PROVE OneHolder'
  BY <1>11 DEF Arrive
<1>12. ASSUME NEW o \in Op, JobEnds(o) PROVE OneHolder'
  BY <1>12 DEF JobEnds, Becomes
<1>13. ASSUME NEW o \in Op, Forget(o) PROVE OneHolder'
  BY <1>13 DEF Forget
<1>14. CASE Crash
  BY <1>14 DEF Crash
<1>15. CASE OtherUser
  BY <1>15 DEF OtherUser
<1> QED
  BY <1>1, <1>2, <1>3, <1>4, <1>5, <1>6, <1>7, <1>8, <1>9, <1>10, <1>11, <1>12, <1>13, <1>14, <1>15 DEF Next, Body

\* The invariant depends on the variables of the specification alone.
LEMMA Stutter == IInv /\ UNCHANGED vars => IInv'
BY DEF IInv, TypeOK, OpInv, WorkInv, JobInv, SeenInv, EndInv, OneHolder, vars, store, thread,
       hmc, history, Target, action, Live, Power, Pending, Ended

\* IInv holds in every reachable state.
THEOREM Inductive == Spec => []IInv
<1>1. ASSUME IInv, Next PROVE IInv'
  <2>1. TypeOK'
    BY <1>1, TypeStep DEF IInv
  <2>2. \A x \in Op : OpInv(x)'
    BY <1>1, OpStep
  <2>3. OneHolder'
    BY <1>1, HolderStep
  <2> QED
    BY <2>1, <2>2, <2>3 DEF IInv
<1> QED
  BY <1>1, InitInv, Stutter, PTL DEF Spec

-----------------------------------------------------------------------------
(* What it implies.                                                          *)

\* Every variable of every reachable state has its type.
THEOREM TypeCorrect == Spec => []TypeOK
<1>1. IInv => TypeOK
  BY DEF IInv
<1> QED
  BY <1>1, Inductive, PTL

\* An operation submits one job at most, however often it crashes and is resumed.
THEOREM SubmitsOnce == Spec => []OneJob
<1>1. ASSUME IInv, NEW o \in Op PROVE submits[o] <= 1
  <2>1. submits[o] = 0 \/ submits[o] = 1
    BY <1>1 DEF IInv, OpInv, JobInv
  <2> QED
    BY <2>1
<1>2. IInv => OneJob
  BY <1>1 DEF OneJob
<1> QED
  BY <1>2, Inductive, PTL

\* A restart that completed had its own job succeed, no partition that was switched is
\* reported as a failure, and a completed operation saw its target after it sent its
\* job, or began.
THEOREM EndingsProven == Spec => []EndsProven
<1>1. IInv => RestartProven
  BY DEF IInv, OpInv, EndInv, RestartProven
<1>2. IInv => FailedProven
  BY DEF IInv, OpInv, EndInv, FailedProven
<1>3. IInv => CompletedSeen
  BY DEF IInv, OpInv, EndInv, CompletedSeen
<1>4. IInv => EndsProven
  BY <1>1, <1>2, <1>3 DEF EndsProven
<1> QED
  BY <1>4, Inductive, PTL

\* Two jobs are not pending together, nor does one outlive its operation, but for
\* the operations NoOverlap names.
THEOREM JobsApart == Spec => []NoOverlap
<1>1. ASSUME IInv, NEW o \in Op, job[o] \in Pending, record[o] \notin Live PROVE Loose(o)
  <2>1. record[o] \in {"absent", "completed", "failed", "abandoned"} /\ known[o] \in BOOLEAN
    BY <1>1 DEF IInv, TypeOK, Live
  <2>2. record[o] # "absent"
    BY <1>1 DEF IInv, OpInv, WorkInv, JobInv, Pending
  <2>3. record[o] \in Ended => ~known[o]
    BY <1>1 DEF IInv, OpInv, EndInv
  <2> QED
    BY <2>1, <2>2, <2>3 DEF Loose, Ended
<1>2. ASSUME IInv, NEW o \in Op, NEW x \in Op, o # x, job[o] \in Pending, job[x] \in Pending
      PROVE  Loose(o) \/ Loose(x)
  <2>1. guarded[o] /\ guarded[x]
    BY <1>2 DEF IInv, TypeOK, OpInv, WorkInv, JobInv, Pending
  <2> QED
    BY <1>1, <1>2, <2>1 DEF IInv, OneHolder
<1>3. IInv => NoOverlap
  BY <1>1, <1>2 DEF NoOverlap
<1> QED
  BY <1>3, Inductive, PTL
=============================================================================
