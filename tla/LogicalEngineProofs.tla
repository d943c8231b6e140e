------------------------- MODULE LogicalEngineProofs -------------------------
(***************************************************************************)
(* Proofs about LogicalEngine, for every set of operations, processes,     *)
(* threads, partitions and effect keys.                                    *)
(*                                                                         *)
(* The inductive invariant has three layers, each inductive relative to    *)
(* the ones before: types; who may run an operation (LockInv); what the    *)
(* journal says of the HMC (JournalInv) and who guards what (GuardInv).    *)
(***************************************************************************)
EXTENDS LogicalEngine, TLAPS

\* Process p may change operations: it holds the lock of the file on disk, or the
\* file may be replaced and there is no other process.
MayRun(p) == flock = p \/ LockReplaceable

\* A thread that is not idle belongs to a process and an operation.
Placed == \A t \in Thread : pc[t] # "idle" => home[t] \in Proc /\ job[t] \in Op

\* An active worker is the registered one of a running operation.
ActiveInv ==
  \A t \in Thread : pc[t] \in Active =>
    /\ worker[home[t]][job[t]] = t
    /\ state[job[t]] = "running"
    /\ MayRun(home[t])

\* An admitted operation that has no worker yet is running and nobody's.
StagedInv ==
  \A p \in Proc :
    /\ stage[p] = "locked" => MayRun(p)
    /\ stage[p] \in Op => /\ MayRun(p)
                          /\ state[stage[p]] = "running"
                          /\ \A t \in Thread : pc[t] \in Active => job[t] # stage[p]

\* Recovery spares every worker registered in its process.
SparedInv == \A p \in Proc : stage[p] = "entered" => Registered(p) \subseteq spared[p]

LockInv == Placed /\ ActiveInv /\ StagedInv /\ SparedInv

MemInv == \A t \in Thread : pc[t] \in Active \ {"load"} => mem[t] = journal[job[t]]

\* The effect under way is open in the journal, and nothing was sent before `sent'.
WriteInv ==
  \A t \in Thread :
    /\ pc[t] \in {"writing", "sent", "settle"} =>
         key[t] \in Key /\ mem[t][key[t]] = "intended"
    /\ pc[t] = "writing" => Ruled(job[t], key[t])
    /\ pc[t] = "settle" => verdict[t] # "none"
    /\ pc[t] = "settle" /\ verdict[t] = "not_applied" => Ruled(job[t], key[t])

JournaledInv ==
  \A o \in Op, k \in Key :
    state[o] # "pruned" /\ journal[o][k] \in {"none", "not_applied"} => Ruled(o, k)

FateInv ==
  \A t \in Thread : pc[t] = "end" /\ fate[t][1] = "terminal" =>
    \A k \in Key : mem[t][k] \notin Open

JournalInv == MemInv /\ WriteInv /\ JournaledInv /\ AtMostOnce /\ FateInv /\ SettledEnd

GuardInv ==
  /\ \A o \in Op : state[o] = "absent" => part[o] = None
  /\ \A t \in Thread : pc[t] \in Active \ {"load"} => guarded[t] = part[job[t]]
  /\ GuardExclusive

IInv == TypeOK /\ LockInv /\ JournalInv /\ GuardInv

-----------------------------------------------------------------------------
(* Types.                                                                  *)

\* The constants a step may put in a variable.
LEMMA Constants ==
  /\ None \notin Op /\ None \notin Proc /\ None \notin Thread
  /\ None \notin Partition /\ None \notin Key
  /\ "free" \notin Op /\ "entered" \notin Op /\ "locked" \notin Op
  /\ Classified \subseteq Key
BY NoneAssumption, StageAssumption, ClassifiedAssumption

\* What a crash leaves of a journal is a journal.
LEMMA DoubtType ==
  ASSUME NEW j \in [Key -> Status] PROVE Doubt(j) \in [Key -> Status]
BY DEF Doubt, Status

LEMMA InitType == Init => TypeOK
BY DEF Init, TypeOK, States, Outcomes, Status, Blank, PC, Active, Fates

\* Every step of admission keeps every variable's type.
LEMMA AdmissionType ==
  ASSUME TypeOK, NEW p \in Proc, Admission(p) PROVE TypeOK'
<1> USE DEF TypeOK, storeVars, threadVars, hmcVars
<1> USE Constants
<1>1. CASE Enter(p)
  BY <1>1 DEF Enter, Registered
<1>2. CASE KeepLock(p)
  BY <1>2 DEF KeepLock
<1>3. CASE TakeLock(p)
  <2>1. state' \in [Op -> States]
    BY <1>3 DEF TakeLock, Recover, States
  <2>2. journal' \in [Op -> [Key -> Status]]
    BY <1>3, DoubtType DEF TakeLock, Recover
  <2> QED BY <1>3, <2>1, <2>2 DEF TakeLock
<1>4. CASE LockRefused(p)
  BY <1>4 DEF LockRefused
<1>5. CASE Refuse(p)
  BY <1>5 DEF Refuse
<1>6. CASE StartFails(p)
  BY <1>6 DEF StartFails
<1>7. CASE \E o \in Op, expired \in SUBSET {x \in Op : state[x] = "terminal"} : AdmitNew(p, o, expired)
  BY <1>7 DEF AdmitNew, States, Outcomes, Blank, Status
<1>8. CASE \E o \in Op : Repeat(p, o)
  BY <1>8, DoubtType DEF Repeat, SeenState, SeenJournal, States
<1>9. CASE \E o \in Op : Abandon(p, o)
  BY <1>9, DoubtType DEF Abandon, SeenJournal, States, Outcomes
<1>10. CASE \E o \in Op, c \in {"resume", "boot"} : Continue(p, o, c)
  BY <1>10, DoubtType DEF Continue, SeenJournal, States, Outcomes
<1>11. CASE \E t \in Thread : StartWorker(p, t)
  BY <1>11 DEF StartWorker, PC, Active
<1> QED BY <1>1, <1>2, <1>3, <1>4, <1>5, <1>6, <1>7, <1>8, <1>9, <1>10, <1>11 DEF Admission

\* Every step of a worker keeps every variable's type, if it is placed.
LEMMA WorkType ==
  ASSUME TypeOK, Placed, NEW t \in Thread, Work(t),
         pc[t] \in {"writing", "sent", "settle"} => key[t] \in Key /\ verdict[t] \in Status
  PROVE  TypeOK'
<1> USE DEF TypeOK, storeVars, lockVars, hmcVars
<1> USE Constants
<1>1. CASE Load(t)
  BY <1>1 DEF Load, PC, Active, Placed
<1>2. CASE Escape(t)
  BY <1>2 DEF Escape, PC
<1>3. CASE \E k \in Key : ClassifyOpen(t, k)
  BY <1>3 DEF ClassifyOpen
<1>4. CASE \E k \in Key, s \in {"applied", "not_applied"} : ClassifySettle(t, k, s)
  <2> PICK k \in Key, s \in {"applied", "not_applied"} : ClassifySettle(t, k, s)
    BY <1>4
  <2>1. job[t] \in Op /\ s \in Status
    BY DEF ClassifySettle, Placed, Status
  <2>2. journal' \in [Op -> [Key -> Status]]
    BY <2>1 DEF ClassifySettle
  <2>3. mem' \in [Thread -> [Key -> Status]]
    BY <2>1 DEF ClassifySettle
  <2> QED BY <2>2, <2>3 DEF ClassifySettle
<1>5. CASE Reconciled(t)
  BY <1>5 DEF Reconciled, PC, Active, Fates
<1>6. CASE \E q \in Partition : Guard(t, q)
  <2> PICK q \in Partition : Guard(t, q)
    BY <1>6
  <2>1. part' \in [Op -> Partition \cup {None}]
    BY DEF Guard, Placed
  <2>2. guarded' \in [Thread -> Partition \cup {None}]
    BY DEF Guard
  <2> QED BY <2>1, <2>2 DEF Guard
<1>7. CASE \E l \in LedgerKey : LedgerAdd(t, l)
  BY <1>7 DEF LedgerAdd, threadVars, Placed
<1>8. CASE \E k \in Key : BeginEffect(t, k)
  <2> PICK k \in Key : BeginEffect(t, k)
    BY <1>8
  <2>1. job[t] \in Op /\ "intended" \in Status
    BY DEF BeginEffect, Placed, Status
  <2>2. journal' \in [Op -> [Key -> Status]]
    BY <2>1 DEF BeginEffect
  <2>3. mem' \in [Thread -> [Key -> Status]]
    BY <2>1 DEF BeginEffect
  <2> QED BY <2>2, <2>3 DEF BeginEffect, PC, Active
<1>9. CASE SendWrite(t)
  <2>1. job[t] \in Op /\ key[t] \in Key
    BY <1>9 DEF SendWrite, Placed
  <2>2. flight[job[t]][key[t]] + 1 \in Nat
    BY <2>1
  <2>3. flight' \in [Op -> [Key -> Nat]]
    BY <1>9, <2>1, <2>2 DEF SendWrite
  <2> QED BY <1>9, <2>3 DEF SendWrite, PC, Active
<1>10. CASE \E s \in {"applied", "not_applied", "uncertain"} : WriteEnds(t, s)
  BY <1>10 DEF WriteEnds, PC, Active
<1>11. CASE Settle(t)
  BY <1>11 DEF Settle, EffectOver, PC, Active, Status
<1>12. CASE SettleFails(t)
  BY <1>12 DEF SettleFails, EffectOver, PC, Active
<1>13. CASE \E f \in Fates : BodyEnds(t, f)
  BY <1>13 DEF BodyEnds, PC, Active
<1>14. CASE End(t)
  <2>1. job[t] \in Op /\ fate[t][1] \in States /\ fate[t][2] \in Outcomes
    BY <1>14 DEF End, Placed, Fates, States, Outcomes
  <2>2. state' \in [Op -> States] /\ outcome' \in [Op -> Outcomes]
    BY <1>14, <2>1 DEF End
  <2> QED BY <1>14, <2>2 DEF End, PC
<1>15. CASE Unregister(t)
  BY <1>15 DEF Unregister, Freed, PC, Blank, Status, Fates
<1> QED BY <1>1, <1>2, <1>3, <1>4, <1>5, <1>6, <1>7, <1>8, <1>9, <1>10, <1>11, <1>12,
           <1>13, <1>14, <1>15 DEF Work

LEMMA EnvironmentType == TypeOK /\ Environment => TypeOK'
<1> SUFFICES ASSUME TypeOK, Environment PROVE TypeOK'
  OBVIOUS
<1> USE DEF TypeOK, storeVars, lockVars, threadVars, hmcVars
<1>1. CASE \E o \in Op, k \in Key : HmcApply(o, k)
  <2> PICK o \in Op, k \in Key : HmcApply(o, k)
    BY <1>1
  <2>1. flight[o][k] - 1 \in Nat /\ applied[o][k] + 1 \in Nat
    BY DEF HmcApply
  <2>2. flight' \in [Op -> [Key -> Nat]] /\ applied' \in [Op -> [Key -> Nat]]
    BY <2>1 DEF HmcApply
  <2> QED BY <2>2 DEF HmcApply
<1>2. CASE \E o \in Op, k \in Key : HmcDrop(o, k)
  <2> PICK o \in Op, k \in Key : HmcDrop(o, k)
    BY <1>2
  <2>1. flight[o][k] - 1 \in Nat
    BY DEF HmcDrop
  <2>2. flight' \in [Op -> [Key -> Nat]]
    BY <2>1 DEF HmcDrop
  <2> QED BY <2>2 DEF HmcDrop
<1>3. CASE \E p \in Proc : Exit(p)
  <2> PICK p \in Proc : Exit(p)
    BY <1>3
  <2>1. worker' \in [Proc -> [Op -> Thread \cup {None}]]
    BY DEF Exit
  <2>2. mem' \in [Thread -> [Key -> Status]] /\ fate' \in [Thread -> Fates]
    BY DEF Exit, Freed, Blank, Status, Fates
  <2>3. /\ pc' \in [Thread -> PC] /\ home' \in [Thread -> Proc \cup {None}]
        /\ job' \in [Thread -> Op \cup {None}]
        /\ guarded' \in [Thread -> Partition \cup {None}]
        /\ todo' \in [Thread -> SUBSET Key] /\ warned' \in [Thread -> BOOLEAN]
        /\ key' \in [Thread -> Key \cup {None}]
        /\ verdict' \in [Thread -> {"none", "applied", "not_applied", "uncertain"}]
    BY DEF Exit, Freed, PC
  <2> QED BY <2>1, <2>2, <2>3 DEF Exit
<1>4. CASE ReplaceLock
  BY <1>4 DEF ReplaceLock
<1> QED BY <1>1, <1>2, <1>3, <1>4 DEF Environment

-----------------------------------------------------------------------------
(* Who may run an operation.                                               *)

LEMMA Holder ==
  ASSUME NEW p \in Proc, NEW q \in Proc, MayRun(p), MayRun(q) PROVE p = q
BY LockAssumption DEF MayRun

\* An operation a call finds without a worker here has none anywhere, and none is
\* about to start.
LEMMA Unattended ==
  ASSUME TypeOK, LockInv, NEW p \in Proc, NEW o \in Op, stage[p] = "locked",
         worker[p][o] = None \/ state[o] # "running"
  PROVE  /\ \A t \in Thread : pc[t] \in Active => job[t] # o
         /\ \A q \in Proc : stage[q] # o
<1> USE Constants DEF TypeOK, LockInv
<1>1. MayRun(p)
  BY DEF StagedInv
<1>2. ASSUME NEW t \in Thread, pc[t] \in Active, job[t] = o PROVE FALSE
  <2>1. home[t] \in Proc /\ MayRun(home[t])
    BY <1>2 DEF Placed, ActiveInv, Active
  <2>2. home[t] = p
    BY <1>1, <2>1, Holder
  <2> QED BY <1>2, <2>2 DEF ActiveInv
<1>3. ASSUME NEW q \in Proc, stage[q] = o PROVE FALSE
  <2>1. MayRun(q) /\ state[o] = "running"
    BY <1>3 DEF StagedInv
  <2>2. q = p
    BY <1>1, <2>1, Holder
  <2> QED BY <1>3, <2>2
<1> QED BY <1>2, <1>3

\* What a call that changes operation o alone leaves true of everyone else.
LEMMA Elsewhere ==
  ASSUME TypeOK, LockInv, NEW p \in Proc, NEW o \in Op, stage[p] = "locked",
         \A t \in Thread : pc[t] \in Active => job[t] # o,
         \A q \in Proc : stage[q] # o,
         \A x \in Op : x # o /\ state[x] = "running" => state'[x] = "running",
         \/ stage' = [stage EXCEPT ![p] = "free"]
         \/ stage' = [stage EXCEPT ![p] = o] /\ state'[o] = "running",
         UNCHANGED <<flock, fd, spared, worker, threadVars>>
  PROVE  LockInv'
<1> USE Constants DEF TypeOK, LockInv, threadVars, MayRun
<1>1. Placed'
  BY DEF Placed
<1>2. ActiveInv'
  BY DEF ActiveInv, Placed, Active
<1>3. StagedInv'
  BY DEF StagedInv
<1>4. SparedInv'
  BY DEF SparedInv, Registered
<1> QED BY <1>1, <1>2, <1>3, <1>4

LEMMA AdmissionLock ==
  ASSUME TypeOK, LockInv, NEW p \in Proc, Admission(p) PROVE LockInv'
<1> USE Constants DEF TypeOK
<1>1. CASE Enter(p)
  BY <1>1 DEF Enter, LockInv, Placed, ActiveInv, StagedInv, SparedInv, MayRun, Registered,
              storeVars, threadVars
<1>2. CASE KeepLock(p)
  BY <1>2 DEF KeepLock, LockInv, Placed, ActiveInv, StagedInv, SparedInv, MayRun, Registered,
              storeVars, threadVars
<1>3. CASE TakeLock(p)
  <2> USE DEF LockInv
  <2>1. ASSUME NEW q \in Proc, MayRun(q) PROVE q = p /\ LockReplaceable
    BY <1>3, <2>1, LockAssumption DEF TakeLock, MayRun
  <2>2. Placed'
    BY <1>3 DEF TakeLock, Placed, threadVars
  <2>3. ASSUME NEW t \in Thread, pc[t] \in Active
        PROVE  home[t] = p /\ LockReplaceable /\ job[t] \in spared[p] /\ state'[job[t]] = "running"
    <3>1. home[t] \in Proc /\ job[t] \in Op /\ MayRun(home[t])
      BY <2>3 DEF Placed, ActiveInv, Active
    <3>2. home[t] = p /\ LockReplaceable
      BY <2>1, <3>1
    <3>3. job[t] \in spared[p]
      BY <1>3, <2>3, <3>1, <3>2 DEF TakeLock, SparedInv, Registered, ActiveInv
    <3> QED BY <1>3, <2>3, <3>1, <3>2, <3>3 DEF TakeLock, Recover, ActiveInv
  <2>4. ActiveInv'
    BY <1>3, <2>3 DEF TakeLock, ActiveInv, MayRun, threadVars
  <2>5. StagedInv'
    BY <1>3, <2>1 DEF TakeLock, StagedInv, MayRun, threadVars
  <2>6. SparedInv'
    BY <1>3 DEF TakeLock, SparedInv, Registered
  <2> QED BY <2>2, <2>4, <2>5, <2>6
<1>4. CASE LockRefused(p)
  BY <1>4 DEF LockRefused, LockInv, Placed, ActiveInv, StagedInv, SparedInv, MayRun, Registered,
              storeVars, threadVars
<1>5. CASE Refuse(p)
  BY <1>5 DEF Refuse, LockInv, Placed, ActiveInv, StagedInv, SparedInv, MayRun, Registered,
              storeVars, threadVars
<1>6. CASE StartFails(p)
  <2>1. Placed'
    BY <1>6 DEF StartFails, LockInv, Placed, threadVars
  <2>2. ActiveInv'
    BY <1>6 DEF StartFails, LockInv, ActiveInv, Placed, StagedInv, MayRun, storeVars, threadVars
  <2>3. StagedInv'
    BY <1>6 DEF StartFails, LockInv, StagedInv, MayRun, storeVars, threadVars
  <2>4. SparedInv'
    BY <1>6 DEF StartFails, LockInv, SparedInv, Registered
  <2> QED BY <2>1, <2>2, <2>3, <2>4 DEF LockInv
<1>7. ASSUME NEW o \in Op, NEW expired \in SUBSET {x \in Op : state[x] = "terminal"},
             AdmitNew(p, o, expired)
      PROVE  LockInv'
  <2>1. stage[p] = "locked" /\ state[o] # "running"
    BY <1>7 DEF AdmitNew
  <2>2. /\ \A t \in Thread : pc[t] \in Active => job[t] # o
        /\ \A q \in Proc : stage[q] # o
    BY <2>1, Unattended
  <2>3. /\ \A x \in Op : x # o /\ state[x] = "running" => state'[x] = "running"
        /\ state'[o] = "running"
    BY <1>7 DEF AdmitNew
  <2> QED BY <1>7, <2>1, <2>2, <2>3, Elsewhere DEF AdmitNew
<1>8. ASSUME NEW o \in Op, Repeat(p, o) PROVE LockInv'
  <2>1. CASE Orphaned(p, o)
    <3>1. /\ \A t \in Thread : pc[t] \in Active => job[t] # o
          /\ \A q \in Proc : stage[q] # o
      BY <1>8, <2>1, Unattended DEF Repeat, Orphaned
    <3>2. \A x \in Op : x # o /\ state[x] = "running" => state'[x] = "running"
      BY <1>8 DEF Repeat
    <3> QED BY <1>8, <3>1, <3>2, Elsewhere DEF Repeat
  <2>2. CASE ~ Orphaned(p, o)
    <3>1. state' = state
      BY <1>8, <2>2 DEF Repeat, SeenState
    <3> QED BY <1>8, <3>1 DEF Repeat, LockInv, Placed, ActiveInv, StagedInv, SparedInv, MayRun,
                              Registered, threadVars
  <2> QED BY <2>1, <2>2
<1>9. ASSUME NEW o \in Op, Abandon(p, o) PROVE LockInv'
  <2>1. /\ \A t \in Thread : pc[t] \in Active => job[t] # o
        /\ \A q \in Proc : stage[q] # o
    <3>1. "abandon" \in Accepted(SeenState(p, o), outcome[o]) /\ stage[p] = "locked"
      BY <1>9 DEF Abandon
    <3>2. worker[p][o] = None \/ state[o] # "running"
      BY <3>1 DEF Accepted, SeenState, Orphaned
    <3> QED BY <3>1, <3>2, Unattended
  <2> QED BY <1>9, <2>1, Elsewhere DEF Abandon
<1>10. ASSUME NEW o \in Op, NEW c \in {"resume", "boot"}, Continue(p, o, c) PROVE LockInv'
  <2>1. /\ \A t \in Thread : pc[t] \in Active => job[t] # o
        /\ \A q \in Proc : stage[q] # o
    <3>1. c \in Accepted(SeenState(p, o), outcome[o]) /\ stage[p] = "locked"
      BY <1>10 DEF Continue
    <3>2. worker[p][o] = None \/ state[o] # "running"
      BY <3>1 DEF Accepted, SeenState, Orphaned
    <3> QED BY <3>1, <3>2, Unattended
  <2> QED BY <1>10, <2>1, Elsewhere DEF Continue
<1>11. ASSUME NEW t \in Thread, StartWorker(p, t) PROVE LockInv'
  <2> USE DEF LockInv
  <2>1. Placed'
    BY <1>11 DEF StartWorker, Placed
  <2>2. ActiveInv'
    <3>1. ASSUME NEW u \in Thread, u # t, pc'[u] \in Active
          PROVE  /\ pc[u] \in Active /\ home'[u] = home[u] /\ job'[u] = job[u]
                 /\ home[u] \in Proc /\ job[u] \in Op /\ job[u] # stage[p]
      BY <1>11, <3>1 DEF StartWorker, StagedInv, Placed, Active
    <3>2. ASSUME NEW u \in Thread, u # t, pc'[u] \in Active
          PROVE  /\ worker'[home'[u]][job'[u]] = u
                 /\ state'[job'[u]] = "running"
                 /\ MayRun(home[u])
      BY <1>11, <3>1, <3>2 DEF StartWorker, ActiveInv, storeVars
    <3>3. /\ worker'[home'[t]][job'[t]] = t
          /\ state'[job'[t]] = "running"
          /\ home'[t] = p /\ MayRun(p)
      BY <1>11 DEF StartWorker, StagedInv, storeVars
    <3>4. flock' = flock
      BY <1>11 DEF StartWorker
    <3> QED BY <3>1, <3>2, <3>3, <3>4 DEF ActiveInv, MayRun
  <2>3. StagedInv'
    <3>1. ASSUME NEW q \in Proc, stage'[q] \in Op
          PROVE  q # p /\ MayRun(q) /\ stage[q] \in Op
      BY <1>11, <3>1 DEF StartWorker, StagedInv
    <3>2. ASSUME NEW q \in Proc, stage'[q] \in Op PROVE FALSE
      BY <1>11, <3>1, <3>2, Holder DEF StartWorker, StagedInv
    <3> QED BY <1>11, <3>2 DEF StartWorker, StagedInv, MayRun
  <2>4. SparedInv'
    BY <1>11 DEF StartWorker, SparedInv, Registered
  <2> QED BY <2>1, <2>2, <2>3, <2>4
<1> QED BY <1>1, <1>2, <1>3, <1>4, <1>5, <1>6, <1>7, <1>8, <1>9, <1>10, <1>11 DEF Admission

\* A worker changes at most its own pc, its operation's state when it ends, and its
\* registration when it is no longer active.
LEMMA WorkLock ==
  ASSUME TypeOK, LockInv, NEW t \in Thread, Work(t) PROVE LockInv'
<1> USE Constants DEF TypeOK
<1>1. CASE /\ UNCHANGED <<state, lockVars, home, job>>
           /\ pc[t] # "idle"
           /\ \E c \in PC : pc' = [pc EXCEPT ![t] = c]
           /\ pc'[t] \in Active => pc[t] \in Active
  BY <1>1 DEF LockInv, Placed, ActiveInv, StagedInv, SparedInv, MayRun, Registered, lockVars
<1>2. CASE End(t)
  <2> USE DEF LockInv, End
  <2>1. job[t] \in Op /\ pc[t] \in Active
    BY <1>2 DEF Placed, Active
  <2>2. \A u \in Thread : pc[u] \in Active /\ u # t => job[u] # job[t]
    BY <2>1, Holder DEF ActiveInv, Placed, Active
  <2>3. \A q \in Proc : stage[q] # job[t]
    BY <2>1 DEF StagedInv
  <2>4. Placed'
    BY <1>2 DEF Placed
  <2>5. ActiveInv'
    BY <1>2, <2>2 DEF ActiveInv, Placed, Active, MayRun, lockVars
  <2>6. StagedInv'
    BY <1>2, <2>3 DEF StagedInv, Active, MayRun, lockVars
  <2>7. SparedInv'
    BY <1>2 DEF SparedInv, Registered, lockVars
  <2> QED BY <2>4, <2>5, <2>6, <2>7
<1>3. CASE Unregister(t)
  <2> USE DEF LockInv, Unregister, Freed
  <2>1. pc[t] \notin Active /\ home[t] \in Proc /\ job[t] \in Op /\ "idle" \notin Active
    BY <1>3 DEF Placed, Active
  <2>2. Placed'
    BY <1>3 DEF Placed
  <2>3. ActiveInv'
    <3>1. ASSUME NEW u \in Thread, pc'[u] \in Active
          PROVE  /\ u # t /\ pc[u] \in Active /\ home'[u] = home[u] /\ job'[u] = job[u]
                 /\ home[u] \in Proc /\ job[u] \in Op /\ worker[home[u]][job[u]] = u
      BY <1>3, <2>1, <3>1 DEF Active, ActiveInv, Placed
    <3>2. ASSUME NEW u \in Thread, pc'[u] \in Active PROVE worker'[home[u]][job[u]] = u
      BY <1>3, <2>1, <3>1, <3>2
    <3> QED BY <1>3, <3>1, <3>2 DEF ActiveInv, MayRun, storeVars
  <2>4. StagedInv'
    BY <1>3, <2>1 DEF StagedInv, MayRun, Active, storeVars
  <2>5. SparedInv'
    BY <1>3, <2>1 DEF SparedInv, Registered
  <2> QED BY <2>2, <2>3, <2>4, <2>5
<1>4. CASE Load(t) \/ Escape(t) \/ Reconciled(t)
  BY <1>1, <1>4 DEF Load, Escape, Reconciled, PC, Active, storeVars
<1>5. CASE SendWrite(t) \/ Settle(t) \/ SettleFails(t)
  BY <1>1, <1>5 DEF SendWrite, Settle, SettleFails, EffectOver, PC, Active, storeVars
<1>6. CASE \E k \in Key : ClassifyOpen(t, k) \/ BeginEffect(t, k)
  BY <1>1, <1>6 DEF ClassifyOpen, BeginEffect, PC, Active, storeVars
<1>7. CASE \E k \in Key, s \in {"applied", "not_applied"} : ClassifySettle(t, k, s)
  BY <1>1, <1>7 DEF ClassifySettle, PC, Active
<1>8. CASE (\E q \in Partition : Guard(t, q)) \/ (\E l \in LedgerKey : LedgerAdd(t, l))
  BY <1>1, <1>8 DEF Guard, LedgerAdd, PC, Active, threadVars
<1>9. CASE \/ \E s \in {"applied", "not_applied", "uncertain"} : WriteEnds(t, s)
           \/ \E f \in Fates : BodyEnds(t, f)
  BY <1>1, <1>9 DEF WriteEnds, BodyEnds, PC, Active, storeVars
<1> QED BY <1>2, <1>3, <1>4, <1>5, <1>6, <1>7, <1>8, <1>9 DEF Work

LEMMA EnvironmentLock ==
  ASSUME TypeOK, LockInv, Environment PROVE LockInv'
<1> USE Constants DEF TypeOK, LockInv
<1>1. CASE \E o \in Op, k \in Key : HmcApply(o, k) \/ HmcDrop(o, k)
  BY <1>1 DEF HmcApply, HmcDrop, Placed, ActiveInv, StagedInv, SparedInv, MayRun, Registered,
              storeVars, lockVars, threadVars
<1>2. ASSUME NEW p \in Proc, Exit(p) PROVE LockInv'
  <2> USE <1>2 DEF Exit, Freed
  <2>1. Placed'
    BY DEF Placed
  <2>2. ActiveInv'
    BY DEF ActiveInv, Placed, Active, MayRun, storeVars
  <2>3. StagedInv'
    BY DEF StagedInv, Active, MayRun, storeVars
  <2>4. SparedInv'
    BY DEF SparedInv, Registered
  <2> QED BY <2>1, <2>2, <2>3, <2>4
<1>3. CASE ReplaceLock
  BY <1>3 DEF ReplaceLock, Placed, ActiveInv, StagedInv, SparedInv, MayRun, Registered,
              storeVars, threadVars
<1> QED BY <1>1, <1>2, <1>3 DEF Environment

\* The guarantee the lock layer is for.
LEMMA LockGivesOneRunner ==
  ASSUME TypeOK, LockInv PROVE OneRunner
<1> SUFFICES ASSUME NEW t \in Thread, NEW u \in Thread, pc[t] \in Active, pc[u] \in Active,
                    job[t] = job[u]
             PROVE  t = u
  BY DEF OneRunner
<1>1. home[t] \in Proc /\ home[u] \in Proc /\ MayRun(home[t]) /\ MayRun(home[u])
  BY DEF LockInv, Placed, ActiveInv, Active
<1>2. home[t] = home[u]
  BY <1>1, Holder
<1> QED BY <1>2 DEF LockInv, ActiveInv

-----------------------------------------------------------------------------
(* What the journal says of the HMC.                                       *)

LEMMA DoubtAt ==
  ASSUME NEW j, NEW k \in Key
  PROVE  Doubt(j)[k] = IF j[k] = "intended" THEN "uncertain" ELSE j[k]
BY DEF Doubt

\* Admission and recovery only put operations without a worker in doubt, prune ended
\* ones, and end none as completed or failed.
LEMMA StoreStep ==
  ASSUME TypeOK, LockInv, JournalInv, UNCHANGED threadVars, UNCHANGED hmcVars,
         \A x \in Op :
           \/ state'[x] = "pruned" /\ \A t \in Thread : pc[t] \in Active => job[t] # x
           \/ state[x] # "pruned" /\ journal'[x] = journal[x]
           \/ /\ state[x] # "pruned" /\ journal'[x] = Doubt(journal[x])
              /\ \A t \in Thread : pc[t] \in Active => job[t] # x,
         \A x \in Op : state'[x] = "terminal" /\ outcome'[x] \in {"completed", "failed"} =>
                         state[x] = "terminal" /\ outcome[x] = outcome'[x]
  PROVE  JournalInv'
<1> USE DEF JournalInv, TypeOK, threadVars, hmcVars
<1>1. ASSUME NEW t \in Thread, pc[t] \in Active PROVE job[t] \in Op /\ journal'[job[t]] = journal[job[t]]
  BY <1>1 DEF LockInv, Placed, ActiveInv, Active
<1>2. MemInv'
  BY <1>1 DEF MemInv
<1>3. WriteInv'
  BY DEF WriteInv, Ruled
<1>4. JournaledInv'
  <2> SUFFICES ASSUME NEW x \in Op, NEW k \in Key, state'[x] # "pruned",
                      journal'[x][k] \in {"none", "not_applied"}
               PROVE  Ruled(x, k)'
    BY DEF JournaledInv
  <2>1. state[x] # "pruned" /\ (journal'[x] = journal[x] \/ journal'[x] = Doubt(journal[x]))
    OBVIOUS
  <2>2. Doubt(journal[x])[k] = IF journal[x][k] = "intended" THEN "uncertain" ELSE journal[x][k]
    BY DoubtAt
  <2>3. journal[x][k] \in {"none", "not_applied"}
    BY <2>1, <2>2
  <2> QED BY <2>1, <2>3 DEF JournaledInv, Ruled
<1>5. AtMostOnce'
  BY DEF AtMostOnce
<1>6. FateInv'
  BY DEF FateInv
<1>7. SettledEnd'
  <2> SUFFICES ASSUME NEW x \in Op, NEW k \in Key, state'[x] = "terminal",
                      outcome'[x] \in {"completed", "failed"}
               PROVE  journal'[x][k] \notin Open
    BY DEF SettledEnd
  <2>1. journal[x][k] \notin Open
    BY DEF SettledEnd
  <2>2. journal'[x][k] \in {journal[x][k], Doubt(journal[x])[k]}
    OBVIOUS
  <2> QED BY <2>1, <2>2, DoubtAt DEF Open
<1> QED BY <1>2, <1>3, <1>4, <1>5, <1>6, <1>7

LEMMA AdmissionJournal ==
  ASSUME TypeOK, LockInv, JournalInv, NEW p \in Proc, Admission(p) PROVE JournalInv'
<1> USE Constants DEF TypeOK
<1>0. ASSUME NEW t \in Thread, pc[t] \in Active
      PROVE  job[t] \in Op /\ home[t] \in Proc /\ state[job[t]] = "running" /\ MayRun(home[t])
  BY <1>0 DEF LockInv, Placed, ActiveInv, Active
<1>1. CASE UNCHANGED <<state, outcome, journal, threadVars, hmcVars>>
  BY <1>1 DEF JournalInv, MemInv, WriteInv, JournaledInv, AtMostOnce, FateInv, SettledEnd, Ruled,
              threadVars, hmcVars
<1>2. CASE Enter(p) \/ KeepLock(p) \/ LockRefused(p) \/ Refuse(p) \/ StartFails(p)
  BY <1>1, <1>2 DEF Enter, KeepLock, LockRefused, Refuse, StartFails, storeVars
<1>3. CASE TakeLock(p)
  <2>1. ASSUME NEW t \in Thread, pc[t] \in Active PROVE job[t] \in spared[p]
    <3>1. home[t] = p
      BY <1>0, <1>3, <2>1, LockAssumption DEF TakeLock, MayRun
    <3> QED BY <1>0, <1>3, <2>1, <3>1 DEF TakeLock, LockInv, ActiveInv, SparedInv, Registered
  <2>2. \A x \in Op : \/ journal'[x] = journal[x]
                      \/ (journal'[x] = Doubt(journal[x]) /\ x \notin spared[p])
    BY <1>3 DEF TakeLock, Recover
  <2>3. \A x \in Op : state'[x] = "pruned" <=> state[x] = "pruned"
    BY <1>3 DEF TakeLock, Recover
  <2>4. \A x \in Op : state'[x] = "terminal" => state[x] = "terminal"
    BY <1>3 DEF TakeLock, Recover
  <2>5. outcome' = outcome /\ UNCHANGED threadVars /\ UNCHANGED hmcVars
    BY <1>3 DEF TakeLock
  <2> QED BY <1>0, <2>1, <2>2, <2>3, <2>4, <2>5, StoreStep
<1>4. ASSUME NEW o \in Op, NEW expired \in SUBSET {x \in Op : state[x] = "terminal"},
             AdmitNew(p, o, expired)
      PROVE  JournalInv'
  <2>1. ASSUME NEW x \in Op
        PROVE  \/ state'[x] = "pruned" /\ \A t \in Thread : pc[t] \in Active => job[t] # x
               \/ state[x] # "pruned" /\ journal'[x] = journal[x]
    BY <1>0, <1>4 DEF AdmitNew
  <2>2. \A x \in Op : state'[x] = "terminal" => state[x] = "terminal" /\ outcome'[x] = outcome[x]
    BY <1>4 DEF AdmitNew
  <2>3. UNCHANGED threadVars /\ UNCHANGED hmcVars
    BY <1>4 DEF AdmitNew
  <2> QED BY <2>1, <2>2, <2>3, StoreStep
<1>5. ASSUME NEW o \in Op, stage[p] = "locked", Repeat(p, o) \/ Abandon(p, o) \/ \E c \in {"resume", "boot"} : Continue(p, o, c)
      PROVE  JournalInv'
  <2>1. Orphaned(p, o) => \A t \in Thread : pc[t] \in Active => job[t] # o
    BY <1>5, Unattended DEF Orphaned
  <2>2. journal' = [journal EXCEPT ![o] = SeenJournal(p, o)] /\ UNCHANGED threadVars /\ UNCHANGED hmcVars
    BY <1>5 DEF Repeat, Abandon, Continue
  <2>3. state[o] # "pruned"
    BY <1>5 DEF Repeat, Abandon, Continue, Stored, Accepted, SeenState, Orphaned
  <2>4. \A x \in Op : x # o => state'[x] = state[x] /\ outcome'[x] = outcome[x]
    BY <1>5 DEF Repeat, Abandon, Continue
  <2>5. state'[o] = "terminal" /\ outcome'[o] \in {"completed", "failed"} =>
          state[o] = "terminal" /\ outcome'[o] = outcome[o]
    BY <1>5 DEF Repeat, Abandon, Continue, SeenState
  <2>6. \A x \in Op :
           \/ state'[x] = "pruned" /\ \A t \in Thread : pc[t] \in Active => job[t] # x
           \/ state[x] # "pruned" /\ journal'[x] = journal[x]
           \/ /\ state[x] # "pruned" /\ journal'[x] = Doubt(journal[x])
              /\ \A t \in Thread : pc[t] \in Active => job[t] # x
    BY <1>0, <2>1, <2>2, <2>3, <2>4 DEF SeenJournal
  <2> QED BY <2>2, <2>4, <2>5, <2>6, StoreStep
<1>6. CASE \E o \in Op : Repeat(p, o) \/ Abandon(p, o) \/ \E c \in {"resume", "boot"} : Continue(p, o, c)
  BY <1>5, <1>6 DEF Repeat, Abandon, Continue
<1>7. ASSUME NEW t \in Thread, StartWorker(p, t) PROVE JournalInv'
  BY <1>7 DEF StartWorker, JournalInv, MemInv, WriteInv, JournaledInv, AtMostOnce, FateInv,
              SettledEnd, Ruled, LockInv, Placed, Active, storeVars, hmcVars
<1> QED BY <1>2, <1>3, <1>4, <1>6, <1>7 DEF Admission

LEMMA WorkJournal ==
  ASSUME TypeOK, LockInv, JournalInv, NEW t \in Thread, Work(t) PROVE JournalInv'
<1> USE Constants DEF TypeOK
<1>1. ASSUME NEW u \in Thread, pc[u] \in Active
      PROVE  job[u] \in Op /\ state[job[u]] = "running" /\ (u # t /\ pc[t] \in Active => job[u] # job[t])
  BY <1>1, LockGivesOneRunner DEF LockInv, Placed, ActiveInv, Active, OneRunner
<1> USE DEF JournalInv
<1>2. CASE Load(t)
  BY <1>1, <1>2 DEF Load, MemInv, WriteInv, JournaledInv, AtMostOnce, FateInv, SettledEnd, Ruled,
                    Active, storeVars, hmcVars
<1>3. CASE Escape(t)
  BY <1>3 DEF Escape, MemInv, WriteInv, JournaledInv, AtMostOnce, FateInv, SettledEnd, Ruled,
              Active, storeVars, hmcVars
<1>4. CASE \E k \in Key : ClassifyOpen(t, k)
  BY <1>4 DEF ClassifyOpen, MemInv, WriteInv, JournaledInv, AtMostOnce, FateInv, SettledEnd, Ruled,
              storeVars, hmcVars
<1>5. ASSUME NEW k \in Key, NEW s \in {"applied", "not_applied"}, ClassifySettle(t, k, s)
      PROVE  JournalInv'
  <2> USE <1>5 DEF ClassifySettle, hmcVars
  <2>1. pc[t] \in Active /\ mem[t] = journal[job[t]]
    BY DEF MemInv, Active
  <2>2. MemInv'
    BY <1>1, <2>1 DEF MemInv, Active
  <2>3. WriteInv'
    BY DEF WriteInv, Ruled
  <2>4. JournaledInv'
    BY <1>1, <2>1 DEF JournaledInv, Ruled
  <2>5. AtMostOnce'
    BY DEF AtMostOnce
  <2>6. FateInv'
    BY DEF FateInv
  <2>7. SettledEnd'
    BY <1>1, <2>1 DEF SettledEnd
  <2> QED BY <2>2, <2>3, <2>4, <2>5, <2>6, <2>7
<1>6. CASE Reconciled(t)
  <2> USE <1>6 DEF Reconciled, storeVars, hmcVars
  <2>1. UNCHANGED <<storeVars, job, mem, key, verdict, hmcVars>>
    OBVIOUS
  <2>2. pc[t] = "reconcile" /\ pc'[t] \in {"end", "body"} /\ \A u \in Thread : u # t => pc'[u] = pc[u]
    OBVIOUS
  <2>3. MemInv'
    BY <2>1, <2>2 DEF MemInv, Active
  <2>4. WriteInv'
    BY <2>1, <2>2 DEF WriteInv, Ruled
  <2>5. FateInv'
    <3>1. pc'[t] = "end" => fate'[t][1] = "paused"
      BY <2>2
    <3>2. \A u \in Thread : u # t => fate'[u] = fate[u]
      OBVIOUS
    <3> QED BY <2>1, <2>2, <3>1, <3>2 DEF FateInv
  <2>6. JournaledInv' /\ AtMostOnce' /\ SettledEnd'
    BY <2>1 DEF JournaledInv, AtMostOnce, SettledEnd, Ruled
  <2> QED BY <2>3, <2>4, <2>5, <2>6
<1>7. CASE (\E q \in Partition : Guard(t, q)) \/ (\E l \in LedgerKey : LedgerAdd(t, l))
  BY <1>7 DEF Guard, LedgerAdd, MemInv, WriteInv, JournaledInv, AtMostOnce, FateInv, SettledEnd,
              Ruled, threadVars, hmcVars
<1>8. ASSUME NEW k \in Key, BeginEffect(t, k) PROVE JournalInv'
  <2> USE <1>8 DEF BeginEffect, hmcVars
  <2>1. pc[t] \in Active /\ mem[t] = journal[job[t]]
    BY DEF MemInv, Active
  <2>2. Ruled(job[t], k)
    BY <1>1, <2>1 DEF JournaledInv
  <2>3. MemInv'
    BY <1>1, <2>1 DEF MemInv, Active
  <2>4. WriteInv'
    BY <2>2 DEF WriteInv, Ruled
  <2>5. JournaledInv'
    BY <1>1, <2>1 DEF JournaledInv, Ruled
  <2>6. AtMostOnce'
    BY DEF AtMostOnce
  <2>7. FateInv'
    BY DEF FateInv
  <2>8. SettledEnd'
    BY <1>1, <2>1 DEF SettledEnd
  <2> QED BY <2>3, <2>4, <2>5, <2>6, <2>7, <2>8
<1>9. CASE SendWrite(t)
  <2> USE <1>9 DEF SendWrite, storeVars
  <2> DEFINE o == job[t]
             k == key[t]
  <2>1. /\ pc[t] \in Active /\ o \in Op /\ k \in Key /\ state[o] = "running"
        /\ mem[t] = journal[o] /\ mem[t][k] = "intended" /\ Ruled(o, k)
    BY <1>1 DEF MemInv, WriteInv, Active
  <2>2. /\ flight'[o][k] = 1 /\ applied'[o][k] = 0
        /\ \A x \in Op, y \in Key : x # o \/ y # k => flight'[x][y] = flight[x][y]
        /\ applied' = applied
    BY <2>1 DEF Ruled
  <2>3. MemInv'
    BY <2>1 DEF MemInv, Active
  <2>4. WriteInv'
    <3>1. \A u \in Thread : u # t /\ pc[u] \in {"writing", "settle"} => job[u] # o /\ job[u] \in Op
      BY <1>1, <2>1 DEF Active
    <3> QED BY <2>1, <2>2, <3>1 DEF WriteInv, Ruled
  <2>5. JournaledInv'
    BY <2>1, <2>2 DEF JournaledInv, Ruled
  <2>6. AtMostOnce'
    BY <2>1, <2>2 DEF AtMostOnce
  <2>7. FateInv'
    BY DEF FateInv
  <2>8. SettledEnd'
    BY DEF SettledEnd
  <2> QED BY <2>3, <2>4, <2>5, <2>6, <2>7, <2>8
<1>10. ASSUME NEW s \in {"applied", "not_applied", "uncertain"}, WriteEnds(t, s) PROVE JournalInv'
  BY <1>10 DEF WriteEnds, MemInv, WriteInv, JournaledInv, AtMostOnce, FateInv, SettledEnd, Ruled,
               Active, storeVars, hmcVars
<1>11. CASE Settle(t)
  <2> USE <1>11 DEF Settle, EffectOver, hmcVars
  <2>1. pc[t] \in Active /\ mem[t] = journal[job[t]] /\ key[t] \in Key /\ verdict[t] # "none"
        /\ (verdict[t] = "not_applied" => Ruled(job[t], key[t]))
    BY DEF MemInv, WriteInv, Active
  <2>2. MemInv'
    BY <1>1, <2>1 DEF MemInv, Active
  <2>3. WriteInv'
    BY DEF WriteInv, Ruled
  <2>4. JournaledInv'
    BY <1>1, <2>1 DEF JournaledInv, Ruled
  <2>5. AtMostOnce'
    BY DEF AtMostOnce
  <2>6. FateInv'
    BY DEF FateInv
  <2>7. SettledEnd'
    BY <1>1, <2>1 DEF SettledEnd
  <2> QED BY <2>2, <2>3, <2>4, <2>5, <2>6, <2>7
<1>12. CASE SettleFails(t)
  BY <1>12 DEF SettleFails, EffectOver, MemInv, WriteInv, JournaledInv, AtMostOnce, FateInv,
               SettledEnd, Ruled, Active, storeVars, hmcVars
<1>13. ASSUME NEW f \in Fates, BodyEnds(t, f) PROVE JournalInv'
  BY <1>13 DEF BodyEnds, HasUncertain, MemInv, WriteInv, JournaledInv, AtMostOnce, FateInv,
               SettledEnd, Ruled, Active, storeVars, hmcVars
<1>14. CASE End(t)
  <2> USE <1>14 DEF End, hmcVars
  <2>0. fate[t] \in Fates /\ fate[t][1] \in {"paused", "terminal"}
    BY DEF Fates
  <2>1. pc[t] \in Active /\ job[t] \in Op /\ mem[t] = journal[job[t]] /\ fate[t][1] # "pruned"
        /\ state[job[t]] = "running"
    BY <1>1, <2>0 DEF MemInv, Active
  <2>2. MemInv'
    BY DEF MemInv, Active
  <2>3. WriteInv'
    BY DEF WriteInv, Ruled
  <2>4. JournaledInv'
    BY <2>1 DEF JournaledInv, Ruled
  <2>5. AtMostOnce'
    BY DEF AtMostOnce
  <2>6. FateInv'
    BY DEF FateInv
  <2>7. SettledEnd'
    BY <2>1 DEF SettledEnd, FateInv
  <2> QED BY <2>2, <2>3, <2>4, <2>5, <2>6, <2>7
<1>15. CASE Unregister(t)
  BY <1>15 DEF Unregister, Freed, MemInv, WriteInv, JournaledInv, AtMostOnce, FateInv, SettledEnd,
               Ruled, Active, storeVars, hmcVars
<1> QED BY <1>2, <1>3, <1>4, <1>5, <1>6, <1>7, <1>8, <1>9, <1>10, <1>11, <1>12, <1>13, <1>14,
           <1>15 DEF Work

LEMMA EnvironmentJournal ==
  ASSUME TypeOK, LockInv, JournalInv, Environment PROVE JournalInv'
<1> USE DEF TypeOK, JournalInv
<1>1. ASSUME NEW o \in Op, NEW k \in Key, HmcApply(o, k) \/ HmcDrop(o, k) PROVE JournalInv'
  <2> USE DEF storeVars, lockVars, threadVars
  <2>0. /\ flight[o][k] > 0 /\ flight'[o][k] = flight[o][k] - 1
        /\ applied'[o][k] \in {applied[o][k], applied[o][k] + 1}
        /\ \A x \in Op, y \in Key : x # o \/ y # k =>
              flight'[x][y] = flight[x][y] /\ applied'[x][y] = applied[x][y]
    <3>1. CASE HmcApply(o, k)
      <4>1. /\ flight[o][k] > 0 /\ flight' = [flight EXCEPT ![o][k] = flight[o][k] - 1]
            /\ applied' = [applied EXCEPT ![o][k] = applied[o][k] + 1]
        BY <3>1 DEF HmcApply
      <4>2. flight'[o][k] = flight[o][k] - 1 /\ applied'[o][k] = applied[o][k] + 1
        BY <4>1
      <4>3. \A x \in Op, y \in Key : x # o \/ y # k =>
              flight'[x][y] = flight[x][y] /\ applied'[x][y] = applied[x][y]
        BY <4>1
      <4> QED BY <4>1, <4>2, <4>3
    <3>2. CASE HmcDrop(o, k)
      <4>1. /\ flight[o][k] > 0 /\ flight' = [flight EXCEPT ![o][k] = flight[o][k] - 1]
            /\ applied' = applied
        BY <3>2 DEF HmcDrop
      <4>2. flight'[o][k] = flight[o][k] - 1
        BY <4>1
      <4>3. \A x \in Op, y \in Key : x # o \/ y # k => flight'[x][y] = flight[x][y]
        BY <4>1
      <4> QED BY <4>1, <4>2, <4>3
    <3> QED BY <1>1, <3>1, <3>2
  <2>1. \A x \in Op, y \in Key : Ruled(x, y) => Ruled(x, y)'
    <3> SUFFICES ASSUME NEW x \in Op, NEW y \in Key, Ruled(x, y)
                 PROVE  flight'[x][y] = 0 /\ applied'[x][y] = 0
      BY DEF Ruled
    <3>1. flight[x][y] = 0 /\ applied[x][y] = 0
      BY DEF Ruled
    <3>2. x # o \/ y # k
      BY <2>0, <3>1
    <3> QED BY <2>0, <3>1, <3>2
  <2>2. AtMostOnce'
    <3>1. flight[o][k] \in Nat /\ applied[o][k] \in Nat
      OBVIOUS
    <3>2. flight'[o][k] + applied'[o][k] <= 1
      BY <2>0, <3>1 DEF AtMostOnce
    <3> QED BY <2>0, <3>2 DEF AtMostOnce
  <2>3. UNCHANGED <<storeVars, lockVars, threadVars>>
    BY <1>1 DEF HmcApply, HmcDrop
  <2>4. MemInv' /\ FateInv' /\ SettledEnd'
    BY <2>3 DEF MemInv, FateInv, SettledEnd
  <2>5. WriteInv'
    <3>1. \A u \in Thread : pc[u] \in {"writing", "settle"} => job[u] \in Op /\ key[u] \in Key
      BY DEF LockInv, Placed, WriteInv
    <3>2. \A u \in Thread : pc[u] \in {"writing", "settle"} /\ Ruled(job[u], key[u]) =>
             Ruled(job[u], key[u])'
      BY <2>1, <2>3, <3>1 DEF Ruled
    <3> QED BY <2>3, <3>2 DEF WriteInv
  <2>6. JournaledInv'
    BY <2>1, <2>3 DEF JournaledInv
  <2> QED BY <2>2, <2>4, <2>5, <2>6
<1>2. ASSUME NEW p \in Proc, Exit(p) PROVE JournalInv'
  BY <1>2 DEF Exit, Freed, MemInv, WriteInv, JournaledInv, AtMostOnce, FateInv, SettledEnd, Ruled,
              Active, storeVars, hmcVars
<1>3. CASE ReplaceLock
  BY <1>3 DEF ReplaceLock, MemInv, WriteInv, JournaledInv, AtMostOnce, FateInv, SettledEnd, Ruled,
              storeVars, threadVars, hmcVars
<1> QED BY <1>1, <1>2, <1>3 DEF Environment

-----------------------------------------------------------------------------
(* Who guards which partition.                                             *)

\* Admission and recovery make no ended operation live and give no partition away.
LEMMA GuardStep ==
  ASSUME TypeOK, LockInv, GuardInv, UNCHANGED threadVars,
         \A x \in Op : x \in Live' => part'[x] = None \/ (x \in Live /\ part'[x] = part[x]),
         \A x \in Op : state'[x] = "absent" => state[x] = "absent" /\ part'[x] = part[x],
         \A x \in Op : state[x] = "running" => part'[x] = part[x]
  PROVE  GuardInv'
<1> USE Constants DEF TypeOK, GuardInv, threadVars
<1>1. (\A o \in Op : state[o] = "absent" => part[o] = None)'
  OBVIOUS
<1>2. (\A t \in Thread : pc[t] \in Active \ {"load"} => guarded[t] = part[job[t]])'
  BY DEF LockInv, Placed, ActiveInv, Active
<1>3. GuardExclusive'
  BY DEF GuardExclusive, Live
<1> QED BY <1>1, <1>2, <1>3

LEMMA AdmissionGuard ==
  ASSUME TypeOK, LockInv, GuardInv, NEW p \in Proc, Admission(p) PROVE GuardInv'
<1> USE Constants DEF TypeOK
<1>1. CASE UNCHANGED <<storeVars, threadVars>>
  BY <1>1, GuardStep DEF storeVars, Live
<1>2. CASE Enter(p) \/ KeepLock(p) \/ LockRefused(p) \/ Refuse(p) \/ StartFails(p)
  BY <1>1, <1>2 DEF Enter, KeepLock, LockRefused, Refuse, StartFails
<1>3. CASE TakeLock(p)
  <2>1. UNCHANGED threadVars /\ part' = part
    BY <1>3 DEF TakeLock
  <2>2. \A x \in Op : /\ state'[x] = state[x] \/ (state[x] = "running" /\ state'[x] = "interrupted")
    BY <1>3 DEF TakeLock, Recover
  <2> QED BY <2>1, <2>2, GuardStep DEF Live
<1>4. ASSUME NEW o \in Op, NEW expired \in SUBSET {x \in Op : state[x] = "terminal"},
             AdmitNew(p, o, expired)
      PROVE  GuardInv'
  <2>1. UNCHANGED threadVars
    BY <1>4 DEF AdmitNew
  <2>2. state[o] = "absent" /\ state'[o] = "running" /\ part'[o] = None
    BY <1>4 DEF AdmitNew, GuardInv
  <2>3. \A x \in Op \ {o} : \/ state'[x] = state[x] /\ part'[x] = part[x]
                            \/ state[x] = "terminal" /\ state'[x] = "pruned"
    BY <1>4 DEF AdmitNew
  <2> QED BY <2>1, <2>2, <2>3, GuardStep DEF Live, GuardInv
<1>5. ASSUME NEW o \in Op, Repeat(p, o) \/ Abandon(p, o) \/ \E c \in {"resume", "boot"} : Continue(p, o, c)
      PROVE  GuardInv'
  <2>1. UNCHANGED threadVars /\ part' = part
    BY <1>5 DEF Repeat, Abandon, Continue
  <2>2. \A x \in Op \ {o} : state'[x] = state[x]
    BY <1>5 DEF Repeat, Abandon, Continue
  <2>3. CASE Repeat(p, o)
    <3>1. state'[o] = state[o] \/ (o \in Live /\ state'[o] = "interrupted")
      BY <2>3 DEF Repeat, SeenState, Orphaned, Live
    <3> QED BY <2>1, <2>2, <3>1, GuardStep DEF Live
  <2>4. CASE Abandon(p, o)
    <3>1. state'[o] = "terminal"
      BY <2>4 DEF Abandon
    <3> QED BY <2>1, <2>2, <3>1, GuardStep DEF Live
  <2>5. ASSUME NEW c \in {"resume", "boot"}, Continue(p, o, c) PROVE GuardInv'
    <3>1. o \in Live /\ state'[o] = "running"
      BY <2>5 DEF Continue, Accepted, SeenState, Orphaned, Live
    <3> QED BY <2>1, <2>2, <3>1, GuardStep DEF Live
  <2> QED BY <1>5, <2>3, <2>4, <2>5
<1>6. ASSUME NEW t \in Thread, StartWorker(p, t) PROVE GuardInv'
  BY <1>6 DEF StartWorker, GuardInv, GuardExclusive, Live, Active, LockInv, Placed, storeVars
<1> QED BY <1>2, <1>3, <1>4, <1>5, <1>6 DEF Admission

LEMMA WorkGuard ==
  ASSUME TypeOK, LockInv, GuardInv, NEW t \in Thread, Work(t) PROVE GuardInv'
<1> USE Constants DEF TypeOK
<1>1. CASE /\ UNCHANGED <<state, part, job, guarded>>
           /\ \E c \in PC : pc' = [pc EXCEPT ![t] = c]
           /\ pc'[t] \in Active \ {"load"} => pc[t] \in Active \ {"load"}
  BY <1>1 DEF GuardInv, GuardExclusive, Live
<1>2. CASE Load(t)
  BY <1>2 DEF Load, GuardInv, GuardExclusive, Live, storeVars
<1>3. CASE Escape(t) \/ Reconciled(t) \/ SendWrite(t) \/ Settle(t) \/ SettleFails(t)
  BY <1>1, <1>3 DEF Escape, Reconciled, SendWrite, Settle, SettleFails, EffectOver, PC, Active,
                    storeVars
<1>4. CASE \E k \in Key : ClassifyOpen(t, k) \/ BeginEffect(t, k)
  BY <1>1, <1>4 DEF ClassifyOpen, BeginEffect, PC, Active, storeVars
<1>5. CASE \E k \in Key, s \in {"applied", "not_applied"} : ClassifySettle(t, k, s)
  BY <1>1, <1>5 DEF ClassifySettle, PC, Active
<1>6. CASE \E l \in LedgerKey : LedgerAdd(t, l)
  BY <1>1, <1>6 DEF LedgerAdd, PC, Active, threadVars
<1>7. CASE \/ \E s \in {"applied", "not_applied", "uncertain"} : WriteEnds(t, s)
           \/ \E f \in Fates : BodyEnds(t, f)
  BY <1>1, <1>7 DEF WriteEnds, BodyEnds, PC, Active, storeVars
<1>8. ASSUME NEW q \in Partition, Guard(t, q) PROVE GuardInv'
  <2> USE <1>8 DEF Guard
  <2>1. job[t] \in Op /\ state[job[t]] = "running"
    BY DEF LockInv, Placed, ActiveInv, Active
  <2>2. (\A o \in Op : state[o] = "absent" => part[o] = None)'
    BY <2>1 DEF GuardInv
  <2>3. (\A u \in Thread : pc[u] \in Active \ {"load"} => guarded[u] = part[job[u]])'
    <3>1. \A u \in Thread : u # t /\ pc[u] \in Active => job[u] \in Op /\ job[u] # job[t]
      BY LockGivesOneRunner DEF LockInv, Placed, OneRunner, Active
    <3> QED BY <2>1, <3>1 DEF GuardInv
  <2>4. GuardExclusive'
    BY <2>1 DEF GuardInv, GuardExclusive, Live
  <2> QED BY <2>2, <2>3, <2>4 DEF GuardInv
<1>9. CASE End(t)
  <2> USE <1>9 DEF End
  <2>1. /\ job[t] \in Op /\ state[job[t]] = "running" /\ job[t] \in Live
        /\ state' = [state EXCEPT ![job[t]] = fate[t][1]] /\ UNCHANGED <<part, job, guarded>>
    BY DEF LockInv, Placed, ActiveInv, Active, Live
  <2>2. fate[t] \in Fates /\ fate[t][1] # "absent"
    BY DEF Fates
  <2>3. (\A o \in Op : state[o] = "absent" => part[o] = None)'
    BY <2>1, <2>2 DEF GuardInv
  <2>4. (\A u \in Thread : pc[u] \in Active \ {"load"} => guarded[u] = part[job[u]])'
    BY DEF GuardInv, Active
  <2>5. GuardExclusive'
    BY <2>1 DEF GuardInv, GuardExclusive, Live
  <2> QED BY <2>3, <2>4, <2>5 DEF GuardInv
<1>10. CASE Unregister(t)
  BY <1>10 DEF Unregister, Freed, GuardInv, GuardExclusive, Live, Active, storeVars
<1> QED BY <1>2, <1>3, <1>4, <1>5, <1>6, <1>7, <1>8, <1>9, <1>10 DEF Work

LEMMA EnvironmentGuard ==
  ASSUME TypeOK, LockInv, GuardInv, Environment PROVE GuardInv'
<1>1. CASE \E o \in Op, k \in Key : HmcApply(o, k) \/ HmcDrop(o, k)
  BY <1>1 DEF HmcApply, HmcDrop, GuardInv, GuardExclusive, Live, storeVars, threadVars
<1>2. CASE \E p \in Proc : Exit(p)
  BY <1>2 DEF Exit, Freed, GuardInv, GuardExclusive, Live, Active, storeVars, TypeOK
<1>3. CASE ReplaceLock
  BY <1>3 DEF ReplaceLock, GuardInv, GuardExclusive, Live, storeVars, threadVars
<1> QED BY <1>1, <1>2, <1>3 DEF Environment

-----------------------------------------------------------------------------
(* The theorems.                                                           *)

LEMMA InitInv == Init => IInv
<1> SUFFICES ASSUME Init PROVE IInv
  OBVIOUS
<1>1. LockInv
  BY Constants DEF Init, LockInv, Placed, ActiveInv, StagedInv, SparedInv, Active
<1>2. JournalInv
  BY DEF Init, JournalInv, MemInv, WriteInv, JournaledInv, AtMostOnce, FateInv, SettledEnd,
         Ruled, Active, Blank
<1>3. GuardInv
  BY DEF Init, GuardInv, GuardExclusive, Live, Active
<1> QED BY <1>1, <1>2, <1>3, InitType DEF IInv

LEMMA NextInv == IInv /\ [Next]_vars => IInv'
<1> SUFFICES ASSUME IInv, [Next]_vars PROVE IInv'
  OBVIOUS
<1> USE DEF IInv
<1>1. ASSUME NEW p \in Proc, Admission(p) PROVE IInv'
  BY <1>1, AdmissionType, AdmissionLock, AdmissionJournal, AdmissionGuard
<1>2. ASSUME NEW t \in Thread, Work(t) PROVE IInv'
  <2>1. pc[t] \in {"writing", "sent", "settle"} => key[t] \in Key /\ verdict[t] \in Status
    BY DEF JournalInv, WriteInv, TypeOK, Status
  <2> QED BY <1>2, <2>1, WorkType, WorkLock, WorkJournal, WorkGuard DEF LockInv
<1>3. CASE Environment
  BY <1>3, EnvironmentType, EnvironmentLock, EnvironmentJournal, EnvironmentGuard
<1>4. CASE UNCHANGED vars
  BY <1>4 DEF vars, storeVars, lockVars, threadVars, hmcVars, TypeOK, LockInv, Placed, ActiveInv,
              StagedInv, SparedInv, MayRun, Registered, JournalInv, MemInv, WriteInv, JournaledInv,
              AtMostOnce, FateInv, SettledEnd, Ruled, GuardInv, GuardExclusive, Live
<1> QED BY <1>1, <1>2, <1>3, <1>4 DEF Next

THEOREM Invariance == Spec => []IInv
BY InitInv, NextInv, PTL DEF Spec

\* Every variable keeps its type, whatever crashes, failing transactions and calls occur.
THEOREM TypeCorrect == Spec => []TypeOK
<1>1. IInv => TypeOK
  BY DEF IInv
<1> QED BY <1>1, Invariance, PTL

\* No two workers of the host ever run the same operation, over every exit, crash,
\* resume and replaced lock file (submit, acquire_execution_lock, _work).
THEOREM RunsAlone == Spec => []OneRunner
<1>1. IInv => OneRunner
  BY LockGivesOneRunner DEF IInv
<1> QED BY <1>1, Invariance, PTL

\* A live worker's operation reads as running and keeps its registration (_WORKERS).
THEOREM KeepsItsRecord == Spec => []NeverOrphaned
<1>1. IInv => NeverOrphaned
  BY DEF IInv, LockInv, ActiveInv, NeverOrphaned
<1> QED BY <1>1, Invariance, PTL

\* What OperationContext holds in memory is what the store holds.
THEOREM MemoryIsCurrent == Spec => []JournalCurrent
<1>1. IInv => JournalCurrent
  BY DEF IInv, JournalInv, MemInv, GuardInv, JournalCurrent
<1> QED BY <1>1, Invariance, PTL

\* One effect's write reaches the HMC at most once in the life of its operation.
THEOREM WritesAtMostOnce == Spec => []AtMostOnce
<1>1. IInv => AtMostOnce
  BY DEF IInv, JournalInv
<1> QED BY <1>1, Invariance, PTL

\* No stored record denies a write the HMC carried out or still may.
THEOREM WritesAreJournaled == Spec => []NothingUnjournaled
<1>1. IInv => NothingUnjournaled
  BY DEF IInv, JournalInv, JournaledInv, NothingUnjournaled, Stored
<1> QED BY <1>1, Invariance, PTL

\* An operation with an effect of unknown outcome never ends completed or failed.
THEOREM EndsSettled == Spec => []SettledEnd
<1>1. IInv => SettledEnd
  BY DEF IInv, JournalInv
<1> QED BY <1>1, Invariance, PTL

\* A partition is guarded by at most one operation that is not terminal.
THEOREM GuardsExclusively == Spec => []GuardExclusive
<1>1. IInv => GuardExclusive
  BY DEF IInv, GuardInv
<1> QED BY <1>1, Invariance, PTL

\* A record that ended stays as it ended until it is pruned; at most a crash recovery
\* or a late call puts an effect an operator abandoned in doubt.
THEOREM EndedIsFinal == Spec => TerminalFinal
<1> DEFINE Final(o) == \/ state'[o] = "pruned"
                       \/ /\ state'[o] = "terminal" /\ outcome'[o] = outcome[o]
                          /\ part'[o] = part[o]
                          /\ journal'[o] \in {journal[o], Doubt(journal[o])}
<1>1. ASSUME IInv, Next, NEW o \in Op, state[o] = "terminal" PROVE Final(o)
  <2> USE <1>1 DEF IInv, TypeOK
  <2>1. ASSUME NEW p \in Proc, Admission(p) PROVE Final(o)
    <3>1. CASE UNCHANGED storeVars
      BY <3>1 DEF storeVars
    <3>2. CASE TakeLock(p)
      BY <3>2 DEF TakeLock, Recover
    <3>3. ASSUME NEW x \in Op, NEW expired \in SUBSET {y \in Op : state[y] = "terminal"},
                 AdmitNew(p, x, expired)
          PROVE  Final(o)
      BY <3>3 DEF AdmitNew
    <3>4. ASSUME NEW x \in Op, Repeat(p, x) PROVE Final(o)
      BY <3>4 DEF Repeat, SeenState, SeenJournal, Orphaned
    <3>5. ASSUME NEW x \in Op, Abandon(p, x) PROVE Final(o)
      BY <3>5 DEF Abandon, Accepted, SeenState, Orphaned
    <3>6. ASSUME NEW x \in Op, NEW c \in {"resume", "boot"}, Continue(p, x, c) PROVE Final(o)
      BY <3>6 DEF Continue, Accepted, SeenState, Orphaned
    <3> QED BY <2>1, <3>1, <3>2, <3>3, <3>4, <3>5, <3>6
            DEF Admission, Enter, KeepLock, LockRefused, Refuse, StartFails, StartWorker
  <2>2. ASSUME NEW t \in Thread, Work(t) PROVE Final(o)
    <3>1. pc[t] \in Active => job[t] # o
      BY DEF LockInv, ActiveInv
    <3> QED BY <2>2, <3>1
            DEF Work, Active, Load, Escape, ClassifyOpen, ClassifySettle, Reconciled, Guard, LedgerAdd,
                BeginEffect, SendWrite, WriteEnds, Settle, SettleFails, BodyEnds, End, Unregister,
                storeVars
  <2>3. CASE Environment
    BY <2>3 DEF Environment, HmcApply, HmcDrop, Exit, ReplaceLock, storeVars
  <2> QED BY <1>1, <2>1, <2>2, <2>3 DEF Next
<1>2. IInv /\ [Next]_vars => [\A o \in Op : state[o] = "terminal" => Final(o)]_vars
  BY <1>1
<1> QED BY <1>2, Invariance, PTL DEF Spec, TerminalFinal
=============================================================================
