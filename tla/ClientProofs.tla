---------------------------- MODULE ClientProofs ----------------------------
(* Proofs about the parts of an hmcpctl process that MCClient puts side by side. *)
EXTENDS MCClient, LogicalEngineProofs, FiniteSetTheorems, SequenceTheorems, WellFoundedInduction, TLAPS

-----------------------------------------------------------------------------
(* The session (HmcSession).                                                 *)

\* Who holds which session in each phase of the client.
Accounts ==
  /\ phase \in {"logon", "abandon"} => token = 0 /\ sessions \subseteq unread
  /\ phase \in {"body", "logoff"} => token = attempt /\ sessions \subseteq unread \cup {attempt}
  /\ phase \in {"close", "closed"} =>
       token = 0 /\ sessions \subseteq unread \cup (IF tells = {} THEN {} ELSE {attempt})

\* Every phase keeps the account of the sessions, and the last one is the property.
LEMMA AccountsKept == ASSUME Accounts, [Session!Next]_Session!vars PROVE Accounts'
<1>1. CASE UNCHANGED Session!vars
  BY <1>1 DEF Session!vars, Session!session, Accounts
<1>2. CASE Session!Logs
  <2> USE DEF Accounts, Session!Makes, Session!Unanswered, Session!Learns
  <2>1. CASE Session!Granted
    BY <2>1 DEF Session!Granted
  <2>2. CASE Session!Rejected \/ Session!Abandon
    BY <2>2 DEF Session!Rejected, Session!Abandon
  <2>3. CASE Session!LogonUnanswered
    BY <2>3 DEF Session!LogonUnanswered
  <2>4. CASE Session!LogonCancelled
    BY <2>4 DEF Session!LogonCancelled
  <2>5. CASE Session!LeaveBody \/ Session!Expires
    BY <2>5 DEF Session!LeaveBody, Session!Expires
  <2>6. CASE Session!LoggedOff
    BY <2>6 DEF Session!LoggedOff
  <2>7. CASE Session!LogoffRejected
    BY <2>7 DEF Session!LogoffRejected
  <2>8. CASE Session!LogoffUnanswered
    BY <2>8 DEF Session!LogoffUnanswered
  <2>9. CASE Session!CloseTransport
    BY <2>9 DEF Session!CloseTransport
  <2> QED
    BY <1>2, <2>1, <2>2, <2>3, <2>4, <2>5, <2>6, <2>7, <2>8, <2>9 DEF Session!Logs
<1>3. ASSUME NEW t \in Tasks, Session!Requests(t) PROVE UNCHANGED Session!session
  BY <1>3 DEF Session!Requests, Session!Ask, Session!Look, Session!Enter,
    Session!DefinedQuickPropertyNames, Session!DefinedSearchParameterNames,
    Session!DefinedNames, Session!Answered, Session!Refuse, Session!Cancelled
<1> QED
  BY <1>1, <1>2, <1>3 DEF Session!Next, Session!session, Accounts

\* What the caches of names hold, as far as the proof has to know it.
CacheTypes ==
  /\ defines \in [Session!Anchors -> SUBSET Names]
  /\ cache \in [Session!Anchors -> SUBSET [known : BOOLEAN, names : SUBSET Names]]
  /\ lock \in [Session!Anchors -> SUBSET Tasks]
  /\ reads \in [Session!Anchors -> Nat]
  /\ at \in [Tasks -> {"idle", "look", "wait", "read", "get", "refused"}]
  /\ ask \in [Tasks -> [anchor : Session!Anchors, name : Names]]

\* The lock of an anchor is with the one task that reads it, and while it is held, or the
\* anchor was not read, its cache is empty.
CacheFilledOnce ==
  \A a \in Session!Anchors :
    /\ lock[a] = {t \in Tasks : at[t] = "read" /\ ask[t].anchor = a}
    /\ \A t, u \in lock[a] : t = u
    /\ reads[a] <= 1
    /\ reads[a] = 0 <=> cache[a] = {}
    /\ lock[a] # {} => cache[a] = {}

\* A cached answer is what the HMC defines, and who is refused was refused by one.
CacheTrue ==
  /\ \A a \in Session!Anchors : \A k \in cache[a] : k.known => k.names = defines[a]
  /\ \A t \in Tasks : at[t] = "refused" => ask[t].name \notin defines[ask[t].anchor]

CacheInv == CacheTypes /\ CacheFilledOnce /\ CacheTrue

LEMMA CacheStarts == ASSUME Session!Init, Names # {} PROVE CacheInv
<1>1. (CHOOSE n \in Names : TRUE) \in Names
  OBVIOUS
<1>2. CacheTypes
  BY <1>1 DEF Session!Init, CacheTypes, Session!Anchors
<1>3. CacheFilledOnce
  BY DEF Session!Init, CacheFilledOnce
<1>4. CacheTrue
  BY DEF Session!Init, CacheTrue
<1> QED
  BY <1>2, <1>3, <1>4 DEF CacheInv

\* The one reader of an anchor fills its cache and leaves the lock.
LEMMA DiscoveryKept ==
  ASSUME CacheInv, NEW t \in Tasks, at[t] = "read",
         NEW known \in [known : BOOLEAN, names : SUBSET Names],
         known.known => known.names = defines[ask[t].anchor],
         at' = [at EXCEPT ![t] = "look"],
         cache' = [cache EXCEPT ![ask[t].anchor] = {known}],
         lock' = [lock EXCEPT ![ask[t].anchor] = {}],
         reads' = [reads EXCEPT ![ask[t].anchor] = @ + 1],
         UNCHANGED <<defines, ask>>
  PROVE  CacheInv'
<1> DEFINE a == ask[t].anchor
<1>1. a \in Session!Anchors /\ t \in lock[a] /\ lock[a] = {t} /\ reads[a] = 0
  BY DEF CacheInv, CacheTypes, CacheFilledOnce
<1>2. CacheTypes'
  BY <1>1 DEF CacheInv, CacheTypes
<1>3. CacheFilledOnce'
  <2> SUFFICES ASSUME NEW b \in Session!Anchors
               PROVE  /\ lock'[b] = {u \in Tasks : at'[u] = "read" /\ ask'[u].anchor = b}
                      /\ \A u, v \in lock'[b] : u = v
                      /\ reads'[b] <= 1
                      /\ reads'[b] = 0 <=> cache'[b] = {}
                      /\ lock'[b] # {} => cache'[b] = {}
    BY DEF CacheFilledOnce
  <2>1. \A u \in Tasks : at'[u] = IF u = t THEN "look" ELSE at[u]
    BY DEF CacheInv, CacheTypes
  <2>2. CASE b = a
    <3>1. lock'[b] = {} /\ cache'[b] = {known} /\ reads'[b] = 1
      BY <1>1, <2>2 DEF CacheInv, CacheTypes
    <3>2. \A u \in Tasks : at[u] = "read" /\ ask[u].anchor = a => u = t
      BY <1>1 DEF CacheInv, CacheFilledOnce
    <3> QED
      BY <2>1, <2>2, <3>1, <3>2
  <2>3. CASE b # a
    <3>1. lock'[b] = lock[b] /\ cache'[b] = cache[b] /\ reads'[b] = reads[b]
      BY <1>1, <2>3 DEF CacheInv, CacheTypes
    <3>2. lock[b] = {u \in Tasks : at'[u] = "read" /\ ask'[u].anchor = b}
      BY <2>1, <2>3 DEF CacheInv, CacheFilledOnce
    <3> QED
      BY <3>1, <3>2 DEF CacheInv, CacheFilledOnce
  <2> QED
    BY <2>2, <2>3
<1>4. CacheTrue'
  <2>1. ASSUME NEW b \in Session!Anchors, NEW k \in cache'[b]
        PROVE  k.known => k.names = defines'[b]
    BY <1>1, <2>1 DEF CacheInv, CacheTypes, CacheTrue
  <2>2. ASSUME NEW u \in Tasks, at'[u] = "refused"
        PROVE  ask'[u].name \notin defines'[ask'[u].anchor]
    BY <2>2 DEF CacheInv, CacheTypes, CacheTrue
  <2> QED
    BY <2>1, <2>2 DEF CacheTrue
<1> QED
  BY <1>2, <1>3, <1>4 DEF CacheInv

\* A task that neither reads nor begins to read moves on.
LEMMA MoveKept ==
  ASSUME CacheInv, NEW t \in Tasks, at[t] # "read",
         NEW there \in {"idle", "look", "wait", "get", "refused"},
         at' = [at EXCEPT ![t] = there],
         ask' \in [Tasks -> [anchor : Session!Anchors, name : Names]],
         \A u \in Tasks : u # t => ask'[u] = ask[u],
         there = "refused" => ask'[t].name \notin defines[ask'[t].anchor],
         UNCHANGED <<defines, cache, lock, reads>>
  PROVE  CacheInv'
<1>1. \A u \in Tasks : at'[u] = IF u = t THEN there ELSE at[u]
  BY DEF CacheInv, CacheTypes
<1>2. CacheTypes'
  BY DEF CacheInv, CacheTypes
<1>3. ASSUME NEW a \in Session!Anchors
      PROVE  lock[a] = {u \in Tasks : at'[u] = "read" /\ ask'[u].anchor = a}
  <2>1. lock[a] = {u \in Tasks : at[u] = "read" /\ ask[u].anchor = a}
    BY DEF CacheInv, CacheFilledOnce
  <2>2. \A u \in Tasks : (at'[u] = "read" /\ ask'[u].anchor = a)
                           <=> (at[u] = "read" /\ ask[u].anchor = a)
    BY <1>1
  <2> QED
    BY <2>1, <2>2
<1>4. CacheFilledOnce'
  BY <1>3 DEF CacheInv, CacheFilledOnce
<1>5. CacheTrue'
  BY <1>1 DEF CacheInv, CacheTrue
<1> QED
  BY <1>2, <1>4, <1>5 DEF CacheInv

LEMMA CacheKept == ASSUME CacheInv, [Session!Next]_Session!vars PROVE CacheInv'
<1>1. ASSUME UNCHANGED <<defines, cache, lock, at, ask, reads>> PROVE CacheInv'
  BY <1>1 DEF CacheInv, CacheTypes, CacheFilledOnce, CacheTrue
<1>2. CASE UNCHANGED Session!vars
  BY <1>1, <1>2 DEF Session!vars, Session!caches
<1>3. CASE Session!Logs
  BY <1>1, <1>3 DEF Session!Logs, Session!caches, Session!Granted, Session!Rejected,
    Session!LogonUnanswered, Session!LogonCancelled, Session!Abandon, Session!LeaveBody,
    Session!Expires, Session!LoggedOff, Session!LogoffRejected, Session!LogoffUnanswered,
    Session!CloseTransport
<1>4. ASSUME NEW t \in Tasks, Session!Requests(t) PROVE CacheInv'
  <2>1. CASE Session!Ask(t)
    <3>1. PICK anchor \in Session!Anchors, name \in Names :
            /\ at[t] = "idle" /\ at' = [at EXCEPT ![t] = "look"]
            /\ ask' = [ask EXCEPT ![t] = [anchor |-> anchor, name |-> name]]
            /\ UNCHANGED <<defines, cache, lock, reads>>
      BY <2>1 DEF Session!Ask, Session!Goes
    <3> QED
      BY <3>1, MoveKept DEF CacheInv, CacheTypes
  <2>2. CASE Session!Look(t)
    <3>1. at[t] = "look" /\ UNCHANGED <<defines, cache, lock, ask, reads>>
      BY <2>2 DEF Session!Look
    <3>2. PICK there \in {"wait", "get", "refused"} :
            /\ at' = [at EXCEPT ![t] = there]
            /\ there = "refused" => Session!Refused(t)
      BY <2>2 DEF Session!Look, Session!Decide
    <3>3. Session!Refused(t) => ask[t].name \notin defines[ask[t].anchor]
      BY DEF Session!Refused, CacheInv, CacheTypes, CacheTrue
    <3> QED
      BY <3>1, <3>2, <3>3, MoveKept DEF CacheInv, CacheTypes
  <2>3. CASE Session!Enter(t)
    <3>1. /\ at[t] = "wait" /\ lock[ask[t].anchor] = {}
          /\ UNCHANGED <<defines, cache, ask, reads>>
      BY <2>3 DEF Session!Enter
    <3>2. CASE cache[ask[t].anchor] # {}
      <4>1. PICK there \in {"get", "refused"} :
              /\ at' = [at EXCEPT ![t] = there] /\ UNCHANGED lock
              /\ there = "refused" => Session!Refused(t)
        BY <2>3, <3>2 DEF Session!Enter, Session!Decide
      <4>2. Session!Refused(t) => ask[t].name \notin defines[ask[t].anchor]
        BY DEF Session!Refused, CacheInv, CacheTypes, CacheTrue
      <4> QED
        BY <3>1, <4>1, <4>2, MoveKept DEF CacheInv, CacheTypes
    <3>3. CASE cache[ask[t].anchor] = {}
      <4> DEFINE a == ask[t].anchor
      <4>1. at' = [at EXCEPT ![t] = "read"] /\ lock' = [lock EXCEPT ![a] = {t}]
        BY <2>3, <3>3 DEF Session!Enter
      <4>2. a \in Session!Anchors
        BY DEF CacheInv, CacheTypes
      <4>3. CacheTypes'
        BY <3>1, <4>1 DEF CacheInv, CacheTypes
      <4>4. \A u \in Tasks : at'[u] = IF u = t THEN "read" ELSE at[u]
        BY <4>1 DEF CacheInv, CacheTypes
      <4>5. \A b \in Session!Anchors : lock'[b] = IF b = a THEN {t} ELSE lock[b]
        BY <4>1, <4>2 DEF CacheInv, CacheTypes
      <4>6. \A u \in Tasks : ~(at[u] = "read" /\ ask[u].anchor = a)
        BY <3>1, <4>2 DEF CacheInv, CacheFilledOnce
      <4>7. ASSUME NEW b \in Session!Anchors
            PROVE  lock'[b] = {u \in Tasks : at'[u] = "read" /\ ask[u].anchor = b}
        <5>1. lock[b] = {u \in Tasks : at[u] = "read" /\ ask[u].anchor = b}
          BY DEF CacheInv, CacheFilledOnce
        <5>2. CASE b = a
          BY <5>2, <4>4, <4>5, <4>6
        <5>3. CASE b # a
          BY <5>1, <5>3, <4>4, <4>5
        <5> QED
          BY <5>2, <5>3
      <4>8. CacheFilledOnce'
        BY <3>1, <3>3, <4>5, <4>7 DEF CacheInv, CacheFilledOnce
      <4>9. CacheTrue'
        BY <3>1, <4>4 DEF CacheInv, CacheTrue
      <4> QED
        BY <4>3, <4>8, <4>9 DEF CacheInv
    <3> QED
      BY <3>2, <3>3
  <2>4. CASE Session!DefinedQuickPropertyNames(t) \/ Session!DefinedSearchParameterNames(t)
    <3>1. PICK answer \in Session!Answers :
            \/ /\ ask[t].anchor = "quick"
               /\ Session!DefinedNames(t, answer, Session!list_quick_properties(answer))
            \/ /\ ask[t].anchor = "search"
               /\ Session!DefinedNames(t, answer, Session!list_search_parameters(answer))
      BY <2>4 DEF Session!DefinedQuickPropertyNames, Session!DefinedSearchParameterNames
    <3> DEFINE known == IF ask[t].anchor = "quick" THEN Session!list_quick_properties(answer)
                        ELSE Session!list_search_parameters(answer)
    <3>2. Session!DefinedNames(t, answer, known)
      BY <3>1
    <3>3. defines["quick"] \in SUBSET Names /\ defines["search"] \in SUBSET Names
      BY DEF CacheInv, CacheTypes, Session!Anchors
    <3>4. known \in [known : BOOLEAN, names : SUBSET Names]
      BY <3>3 DEF Session!list_quick_properties, Session!list_search_parameters,
        Session!Unknown
    <3>5. known.known => known.names = defines[ask[t].anchor]
      BY <3>1 DEF Session!list_quick_properties, Session!list_search_parameters,
        Session!Unknown, Session!DefinedNames, Session!CouldAnswer
    <3>6. /\ at[t] = "read" /\ at' = [at EXCEPT ![t] = "look"]
          /\ cache' = [cache EXCEPT ![ask[t].anchor] = {known}]
          /\ lock' = [lock EXCEPT ![ask[t].anchor] = {}]
          /\ reads' = [reads EXCEPT ![ask[t].anchor] = @ + 1]
          /\ UNCHANGED <<defines, ask>>
      BY <3>2 DEF Session!DefinedNames, Session!Goes
    <3> HIDE DEF known
    <3> QED
      BY <3>4, <3>5, <3>6, DiscoveryKept
  <2>5. CASE Session!Answered(t) \/ Session!Refuse(t)
    <3>1. /\ at[t] \in {"get", "refused"} /\ at' = [at EXCEPT ![t] = "idle"]
          /\ UNCHANGED <<defines, cache, lock, ask, reads>>
      BY <2>5 DEF Session!Answered, Session!Refuse, Session!Goes
    <3> QED
      BY <3>1, MoveKept DEF CacheInv, CacheTypes
  <2>6. CASE Session!Cancelled(t)
    <3>1. /\ at' = [at EXCEPT ![t] = "idle"] /\ lock' = [a \in Session!Anchors |-> lock[a] \ {t}]
          /\ UNCHANGED <<defines, cache, reads, ask>>
      BY <2>6 DEF Session!Cancelled
    <3>2. CacheTypes'
      BY <3>1 DEF CacheInv, CacheTypes
    <3>3. \A u \in Tasks : at'[u] = IF u = t THEN "idle" ELSE at[u]
      BY <3>1 DEF CacheInv, CacheTypes
    <3>4. ASSUME NEW a \in Session!Anchors
          PROVE  lock'[a] = {u \in Tasks : at'[u] = "read" /\ ask'[u].anchor = a}
      BY <3>1, <3>3 DEF CacheInv, CacheFilledOnce
    <3>5. CacheFilledOnce'
      BY <3>1, <3>4 DEF CacheInv, CacheFilledOnce
    <3>6. CacheTrue'
      BY <3>1, <3>3 DEF CacheInv, CacheTrue
    <3> QED
      BY <3>2, <3>5, <3>6 DEF CacheInv
  <2> QED
    BY <1>4, <2>1, <2>2, <2>3, <2>4, <2>5, <2>6 DEF Session!Requests
<1> QED
  BY <1>2, <1>3, <1>4 DEF Session!Next

-----------------------------------------------------------------------------
(* A client that is closed left no session at the HMC behind its caller's back:  *)
(* what is left was made by a logon nobody heard of, or by the last one, and its *)
(* failed logoff was told (logon, logoff, __aenter__, __aexit__).                *)
THEOREM SessionsAccountedAlways == ClientSpec => []SessionsAccounted
<1> DEFINE P == which = "session" => Accounts
<1>1. ClientInit => P
  BY DEF ClientInit, Session!Init, Accounts
<1>2. P /\ [ClientNext]_clientVars => P'
  <2> SUFFICES ASSUME P, [ClientNext]_clientVars, which' = "session" PROVE Accounts'
    OBVIOUS
  <2>1. which = "session" /\ [Session!Next]_Session!vars
    BY DEF ClientNext, clientVars, sessionVars, Session!vars, Session!session, Session!caches
  <2> QED
    BY <2>1, AccountsKept
<1>3. P => SessionsAccounted
  BY DEF Accounts, SessionsAccounted, Session!SessionsAccounted
<1> QED
  BY <1>1, <1>2, <1>3, PTL DEF ClientSpec

(* An anchor of names is read once for all tasks, by one task at a time, however *)
(* they interleave and whichever are cancelled; and who is refused asked for a   *)
(* name the HMC does not define (_defined_quick_property_names,                  *)
(* _defined_search_parameter_names).                                             *)
THEOREM CacheSoundAlways == ClientSpec => []CacheSound
<1> DEFINE P == which = "session" => CacheInv
<1>1. ClientInit => P
  BY CacheStarts, ClientAssumption DEF ClientInit, Session!SessionAssumption
<1>2. P /\ [ClientNext]_clientVars => P'
  <2> SUFFICES ASSUME P, [ClientNext]_clientVars, which' = "session" PROVE CacheInv'
    OBVIOUS
  <2>1. which = "session" /\ [Session!Next]_Session!vars
    BY DEF ClientNext, clientVars, sessionVars, Session!vars, Session!session, Session!caches
  <2> QED
    BY <2>1, CacheKept
<1>3. P => CacheSound
  BY DEF CacheInv, CacheTypes, CacheFilledOnce, CacheTrue, CacheSound, Session!CacheSound
<1> QED
  BY <1>1, <1>2, <1>3, PTL DEF ClientSpec

-----------------------------------------------------------------------------
(* The wait for a job (JobWait).                                             *)

WaitTypes ==
  /\ timeout \in Nat /\ interval \in Nat /\ clock \in Nat /\ wake \in Nat /\ last \in Nat
  /\ silence \in Nat /\ absent \in Nat
  /\ observed \in BOOLEAN /\ rereading \in BOOLEAN /\ found \in BOOLEAN
  /\ jobPc \in {"read", "confirm", "judge", "sleep", "raised", "done"}
  /\ advertised \in Job!Links /\ {href, deadLink} \subseteq Job!Links \cup {Job!NoLink}

\* A wait has one link to lose, and knows which one it lost.
OneDeadLink ==
  /\ stale \subseteq {deadLink} \ {Job!NoLink}
  /\ href # Job!NoLink => deadLink = Job!NoLink
  /\ jobPc = "confirm" => href # Job!NoLink
  /\ returned \notin stale

\* How long a job that was seen must be missing before it is called gone.
Patience == Job!Smaller(interval, timeout)

\* A job that was seen and is now missing is asked about once more, and not sooner than
\* the caller's interval (or the whole timeout) after the read that missed it.
AskedAgain ==
  /\ status = seen /\ last <= clock
  /\ jobPc = "sleep" => clock <= wake /\ (rereading => last + Patience <= wake)
  /\ jobPc \in {"read", "confirm"} /\ rereading => last + Patience <= clock
  /\ jobPc \in {"read", "confirm", "sleep"} /\ observed => absent = (IF rereading THEN 1 ELSE 0)
  /\ jobPc \in {"judge", "done"} /\ found => absent = 0
  /\ jobPc = "judge" /\ ~found /\ observed =>
       IF rereading THEN absent = 2 /\ Patience <= silence ELSE absent = 1
  /\ jobPc = "done" /\ ~found /\ observed => absent = 2 /\ Patience <= silence
  /\ jobPc = "done" /\ found => status \in Job!Terminal \/ timeout <= clock

WaitInv == WaitTypes /\ OneDeadLink /\ AskedAgain

LEMMA WaitStarts ==
  ASSUME Job!Init, Timeouts \subseteq Nat, Intervals \subseteq Nat \ {0} PROVE WaitInv
<1>1. WaitTypes
  BY DEF Job!Init, WaitTypes, Job!Links, Job!NoLink
<1>2. OneDeadLink
  BY DEF Job!Init, OneDeadLink
<1>3. AskedAgain
  BY DEF Job!Init, AskedAgain
<1> QED
  BY <1>1, <1>2, <1>3 DEF WaitInv

\* A read that finds the job, or does not, has its outcome judged.
LEMMA OutcomeKept ==
  ASSUME WaitInv, jobPc \in {"read", "confirm"},
         NEW hit \in BOOLEAN, NEW supplied, NEW dead,
         Job!Outcome(hit, supplied, dead),
         UNCHANGED <<timeout, interval, clock, wake, observed, rereading, advertised>>,
         {href', deadLink'} \subseteq Job!Links \cup {Job!NoLink},
         stale' \subseteq {deadLink'} \ {Job!NoLink},
         href' # Job!NoLink => deadLink' = Job!NoLink,
         hit => supplied = href' /\ dead = deadLink'
  PROVE  WaitInv'
<1> USE DEF WaitInv
<1>1. /\ found' = hit /\ jobPc' = "judge" /\ last' = clock /\ silence' = clock - last
      /\ absent' = IF hit THEN 0 ELSE absent + 1
      /\ returned' = Job!_select_persisted_job_href(hit, supplied, dead)
      /\ status' = seen'
  BY DEF Job!Outcome, AskedAgain
<1>2. WaitTypes'
  BY <1>1 DEF WaitTypes, AskedAgain
<1>3. OneDeadLink'
  <2>1. returned' = Job!NoLink \/ (hit /\ (returned' = href' \/ returned' # deadLink'))
    BY <1>1 DEF Job!_select_persisted_job_href
  <2>2. returned' \notin stale'
    BY <2>1
  <2> QED
    BY <1>1, <2>2 DEF OneDeadLink
<1>4. AskedAgain'
  BY <1>1 DEF AskedAgain, WaitTypes, Patience, Job!Smaller
<1> QED
  BY <1>2, <1>3, <1>4

LEMMA WaitKept == ASSUME WaitInv, [Job!Next]_Job!vars PROVE WaitInv'
<1> USE DEF WaitInv
<1>1. CASE UNCHANGED Job!vars
  BY <1>1 DEF Job!vars, Job!hmc, Job!args, Job!memo, Job!out, Job!hist, WaitTypes, OneDeadLink,
    AskedAgain, Patience
<1>2. CASE Job!Progresses \/ Job!Reaped \/ Job!Unresolved
  BY <1>2 DEF Job!Progresses, Job!Reaped, Job!Unresolved, Job!args, Job!memo, Job!out, Job!hist,
    WaitTypes, OneDeadLink, AskedAgain, Patience
<1>3. CASE Job!Passes
  <2>1. /\ jobPc \in {"read", "confirm"} /\ clock' = clock + 1
        /\ UNCHANGED <<timeout, interval, wake, last, silence, absent, observed, rereading, found>>
        /\ UNCHANGED <<jobPc, href, deadLink, advertised, stale, returned, status, seen>>
    BY <1>3 DEF Job!Passes, Job!hmc, Job!args, Job!memo, Job!out, Job!hist
  <2>2. WaitTypes' /\ OneDeadLink'
    BY <2>1 DEF WaitTypes, OneDeadLink
  <2>3. AskedAgain'
    BY <2>1 DEF WaitTypes, AskedAgain, Patience, Job!Smaller
  <2> QED
    BY <2>2, <2>3
<1>4. CASE Job!Raises
  <2>1. jobPc' = "raised" /\ UNCHANGED <<Job!args, Job!memo, Job!out, Job!hist, clock, wake, advertised>>
    BY <1>4 DEF Job!Raises, Job!hmc
  <2> QED
    BY <2>1 DEF Job!args, Job!memo, Job!out, Job!hist, WaitTypes, OneDeadLink, AskedAgain
<1>5. CASE Job!ReadJob
  <2>1. PICK answer \in Job!Answers(href) :
          /\ IF href # Job!NoLink /\ answer = "missing"
             THEN jobPc' = "confirm" /\ UNCHANGED <<Job!out, Job!hist>>
             ELSE Job!Outcome(answer = "entry", href, deadLink) /\ UNCHANGED stale
          /\ jobPc = "read" /\ UNCHANGED <<Job!hmc, Job!args, Job!memo, wake, clock>>
    BY <1>5 DEF Job!ReadJob
  <2>2. UNCHANGED <<timeout, interval, clock, wake, observed, rereading, advertised, href, deadLink>>
    BY <2>1 DEF Job!hmc, Job!args, Job!memo
  <2>3. CASE href # Job!NoLink /\ answer = "missing"
    <3>1. jobPc' = "confirm" /\ UNCHANGED <<status, found, returned, seen, absent, silence, last, stale>>
      BY <2>1, <2>3 DEF Job!out, Job!hist
    <3> QED
      BY <2>1, <2>2, <2>3, <3>1 DEF WaitTypes, OneDeadLink, AskedAgain, Patience
  <2>4. CASE ~(href # Job!NoLink /\ answer = "missing")
    <3>1. Job!Outcome(answer = "entry", href, deadLink) /\ UNCHANGED stale
      BY <2>1, <2>4
    <3> QED
      BY <2>1, <2>2, <3>1, OutcomeKept DEF WaitTypes, OneDeadLink
  <2> QED
    BY <2>3, <2>4
<1>6. CASE Job!ConfirmMissing
  <2>1. PICK answer \in Job!Answers(Job!NoLink) :
          LET hit == answer = "entry" IN
            /\ Job!Outcome(hit, IF hit THEN Job!NoLink ELSE href, IF hit THEN href ELSE deadLink)
            /\ IF hit THEN deadLink' = href /\ href' = Job!NoLink /\ stale' = stale \cup {href}
               ELSE UNCHANGED <<href, deadLink, stale>>
    BY <1>6 DEF Job!ConfirmMissing
  <2>2. jobPc = "confirm" /\ UNCHANGED <<timeout, interval, clock, wake, observed, rereading, advertised>>
    BY <1>6 DEF Job!ConfirmMissing, Job!hmc, Job!args
  <2>3. stale = {} /\ href # Job!NoLink
    BY <2>2 DEF OneDeadLink
  <2>4. {href', deadLink'} \subseteq Job!Links \cup {Job!NoLink}
    BY <2>1 DEF WaitTypes
  <2>5. stale' \subseteq {deadLink'} \ {Job!NoLink} /\ (href' # Job!NoLink => deadLink' = Job!NoLink)
    BY <2>1, <2>3 DEF OneDeadLink
  <2> DEFINE hit == answer = "entry"
             supplied == IF hit THEN Job!NoLink ELSE href
             dead == IF hit THEN href ELSE deadLink
  <2>6. Job!Outcome(hit, supplied, dead) /\ (hit => supplied = href' /\ dead = deadLink')
    BY <2>1
  <2>7. hit \in BOOLEAN
    OBVIOUS
  <2> HIDE DEF hit, supplied, dead
  <2> QED
    BY <2>2, <2>4, <2>5, <2>6, <2>7, OutcomeKept
<1>7. CASE Job!Found
  <2>1. /\ jobPc = "judge" /\ found /\ observed' = TRUE /\ rereading' = FALSE
        /\ UNCHANGED <<timeout, interval, href, deadLink, status, found, returned, clock, advertised>>
        /\ UNCHANGED <<seen, absent, silence, last, stale>>
        /\ \/ jobPc' = "done" /\ UNCHANGED wake /\ (status \in Job!Terminal \/ Job!Remaining = 0)
           \/ jobPc' = "sleep" /\ wake' = clock + Job!Smaller(interval, Job!Remaining)
    BY <1>7 DEF Job!Found, Job!Ends, Job!Sleeps, Job!hmc, Job!args, Job!out, Job!hist
  <2>2. Job!Remaining \in Nat /\ (Job!Remaining = 0 => timeout <= clock)
    BY DEF Job!Remaining, WaitTypes
  <2>3. wake' \in Nat /\ (jobPc' = "sleep" => clock <= wake')
    BY <2>1, <2>2 DEF Job!Smaller, WaitTypes
  <2>4. WaitTypes' /\ OneDeadLink'
    BY <2>1, <2>3 DEF WaitTypes, OneDeadLink
  <2>5. AskedAgain'
    BY <2>1, <2>2, <2>3 DEF WaitTypes, AskedAgain
  <2> QED
    BY <2>4, <2>5
<1>8. CASE Job!Gone
  <2>1. /\ jobPc = "judge" /\ ~found /\ (~observed \/ rereading) /\ jobPc' = "done"
        /\ UNCHANGED <<timeout, interval, href, deadLink, status, found, returned, clock, advertised>>
        /\ UNCHANGED <<seen, absent, silence, last, stale, wake, observed, rereading>>
    BY <1>8 DEF Job!Gone, Job!Ends, Job!hmc, Job!args, Job!memo, Job!out, Job!hist
  <2> QED
    BY <2>1 DEF WaitTypes, OneDeadLink, AskedAgain, Patience
<1>9. CASE Job!Disappeared
  <2>1. /\ jobPc = "judge" /\ ~found /\ observed /\ ~rereading /\ rereading' = TRUE
        /\ jobPc' = "sleep" /\ wake' = clock + Patience
        /\ UNCHANGED <<timeout, interval, href, deadLink, status, found, returned, clock, advertised>>
        /\ UNCHANGED <<seen, absent, silence, last, stale, observed>>
    BY <1>9 DEF Job!Disappeared, Job!Sleeps, Job!hmc, Job!args, Job!out, Job!hist, Patience
  <2>2. Patience \in Nat /\ Patience' = Patience
    BY <2>1 DEF Patience, Job!Smaller, WaitTypes
  <2>3. WaitTypes' /\ OneDeadLink'
    BY <2>1, <2>2 DEF WaitTypes, OneDeadLink
  <2>4. AskedAgain'
    BY <2>1, <2>2 DEF WaitTypes, AskedAgain
  <2> QED
    BY <2>3, <2>4
<1>10. CASE Job!Wakes
  <2>1. /\ jobPc = "sleep" /\ jobPc' = "read" /\ clock' = wake
        /\ UNCHANGED <<timeout, interval, href, deadLink, status, found, returned, advertised>>
        /\ UNCHANGED <<seen, absent, silence, last, stale, wake, observed, rereading>>
    BY <1>10 DEF Job!Wakes, Job!hmc, Job!args, Job!memo, Job!out, Job!hist
  <2>2. WaitTypes' /\ OneDeadLink'
    BY <2>1 DEF WaitTypes, OneDeadLink
  <2>3. AskedAgain'
    BY <2>1 DEF WaitTypes, AskedAgain, Patience, Job!Smaller
  <2> QED
    BY <2>2, <2>3
<1> QED
  BY <1>1, <1>2, <1>3, <1>4, <1>5, <1>6, <1>7, <1>8, <1>9, <1>10 DEF Job!Next, Job!Polls

(* What a finished wait returns is so: a job it once saw is called gone only when *)
(* two reads in a row, the caller's interval apart or the whole timeout, found    *)
(* nothing; a job that is there was read in the status returned, and is given up  *)
(* unfinished only once the time is over; and the link that is handed on is none  *)
(* that the wait saw die (wait_for_job, _read_job, _select_persisted_job_href).   *)
THEOREM JobKnownAlways == ClientSpec => []JobKnown
<1> DEFINE P == which = "job" => WaitInv
<1>1. ClientInit => P
  BY WaitStarts, ClientAssumption DEF ClientInit, Job!JobAssumption
<1>2. P /\ [ClientNext]_clientVars => P'
  <2> SUFFICES ASSUME P, [ClientNext]_clientVars, which' = "job" PROVE WaitInv'
    OBVIOUS
  <2>1. which = "job" /\ [Job!Next]_Job!vars
    BY DEF ClientNext, clientVars, jobVars, Job!vars, Job!hmc, Job!args, Job!memo, Job!out,
      Job!hist
  <2> QED
    BY <2>1, WaitKept
<1>3. P => JobKnown
  BY DEF WaitInv, WaitTypes, OneDeadLink, AskedAgain, Patience, JobKnown, Job!WaitHonest,
    Job!LinkAlive
<1> QED
  BY <1>1, <1>2, <1>3, PTL DEF ClientSpec

-----------------------------------------------------------------------------
(* The console session (ConsoleSession).                                     *)

Chunk == {"data", "lost", "end"}

ConsoleTypes ==
  /\ condition \in {"new", "opening", "held", "suspending", "suspended", "resuming",
                    "reconnecting", "dropped", "unheld", "lost"}
  /\ teardown \in {"none", "reconnect", "settle", "release", "done"}
  /\ rel \in {"none", "scan", "eofwait", "remove", "probe", "probing", "probe_eof",
              "probe_remove"}
  /\ acq \in {"none", "remove", "start", "await"}
  /\ acq = "await" <=> reply \in {"banner", "held"}
  /\ read \in {"none", "waiting", "done"}
  /\ buf \in Seq(Chunk) /\ sent \in Nat /\ given \in Nat

\* One task at a time works on the channel: an acquisition, a release, or neither, and
\* nothing once close() has returned.
OneAtATime ==
  /\ acq # "none" => condition \in {"opening", "resuming", "reconnecting"}
  /\ rel # "none" => \/ condition \in {"suspending", "lost"}
                     \/ condition = "held" /\ teardown = "release"
  /\ rel \notin {"none", "scan"} => condition # "lost"
  /\ condition = "suspending" => rel # "none"
  /\ teardown = "release" => rel # "none" /\ condition \in {"held", "lost"}
  /\ closing <=> teardown # "none"
  /\ teardown \in {"settle", "release", "done"} => rec # "running"
  /\ teardown = "done" => acq = "none" /\ rel = "none" /\ link = "none"

\* Who reads holds the terminal, and is done before the release gets past its scan; nobody
\* reads while a gap is untold.
ReadsHeld ==
  /\ read # "none" => condition \in {"held", "suspending"} /\ rel \in {"none", "scan"}
  /\ gap => rec = "gap" /\ read = "none"

ConsoleBase == ConsoleTypes /\ OneAtATime /\ ReadsHeld

\* What the first chunk of the bytes leaves.
LEMMA Skipped == ASSUME NEW s \in Seq(Chunk), s # <<>>
                 PROVE  Head(s) \in Chunk /\ Tail(s) \in Seq(Chunk)
  OBVIOUS

\* The counting of the instance is the counting of the library.
LEMMA SameCount == ASSUME NEW S PROVE Console!Cardinality(S) = Cardinality(S)
  BY Zenon DEF Console!Cardinality, Cardinality, Console!IsFiniteSet, IsFiniteSet

\* Output in front of the reports: as many chunks as their places.
LEMMA DataIs ==
  ASSUME NEW s \in Seq(Chunk), NEW k \in 0..Len(s), \A i \in DOMAIN s : s[i] = "data" <=> i <= k
  PROVE  Console!Data(s) = k
<1>1. {i \in DOMAIN s : s[i] = "data"} = 1..k
  OBVIOUS
<1>2. Cardinality(1..k) = k
  BY FS_Interval
<1> QED
  BY <1>1, <1>2, SameCount DEF Console!Data

\* The banner comes in a chunk of its own.
LEMMA AcqReads == ASSUME buf \in Seq(Chunk), Console!AcqOk PROVE UNCHANGED buf /\ given' = 0
<1>1. PICK n \in 0..0 : /\ buf' = SubSeq(buf, n + 1, Len(buf))
                        /\ given' = Console!Data(SubSeq(buf, 1, n))
  BY DEF Console!AcqOk
<1>2. n = 0
  OBVIOUS
<1>3. buf' = buf
  BY <1>1, <1>2, SubSeqFull
<1>4. SubSeq(buf, 1, 0) = <<>>
  BY SubSeqEmpty
<1>5. \A i \in DOMAIN <<>> : <<>>[i] = "data" <=> i <= 0
  OBVIOUS
<1>6. Console!Data(<<>>) = 0
  <2>1. <<>> \in Seq(Chunk) /\ 0 \in 0..Len(<<>>)
    OBVIOUS
  <2> QED
    BY <1>5, <2>1, DataIs
<1>7. given' = 0
  BY <1>1, <1>2, <1>4, <1>6
<1> QED
  BY <1>3, <1>7

LEMMA BaseStarts == Console!Init => ConsoleBase
  BY DEF Console!Init, ConsoleBase, ConsoleTypes, OneAtATime, ReadsHeld, Chunk

\* The release ends.
LEMMA EndsKept ==
  ASSUME ConsoleBase, rel # "none", read = "none", NEW p, Console!Ends(p) PROVE ConsoleBase'
<1> USE DEF ConsoleBase, Console!reading, Console!history
<1>1. ConsoleTypes'
  BY DEF Console!Ends, ConsoleTypes
<1>2. OneAtATime'
  BY DEF Console!Ends, ConsoleTypes, OneAtATime
<1>3. ReadsHeld'
  BY DEF Console!Ends, ConsoleTypes, ReadsHeld
<1> QED
  BY <1>1, <1>2, <1>3

\* The release goes on.
LEMMA GoesKept ==
  ASSUME ConsoleBase, rel # "none", read = "none", condition # "lost", buf' \in Seq(Chunk),
         link' = link,
         NEW to \in {"eofwait", "remove", "probe", "probing", "probe_eof", "probe_remove"},
         Console!Goes(to)
  PROVE  ConsoleBase'
  BY DEF ConsoleBase, ConsoleTypes, OneAtATime, ReadsHeld, Console!Goes, Console!session,
    Console!reading, Console!history

\* The release reads a chunk.
LEMMA SkipsKept ==
  ASSUME ConsoleBase, buf # <<>>, NEW c, Console!Skips(c) PROVE ConsoleBase'
<1>1. buf' \in Seq(Chunk)
  BY Skipped DEF ConsoleBase, ConsoleTypes, Console!Skips
<1> QED
  BY <1>1 DEF ConsoleBase, ConsoleTypes, OneAtATime, ReadsHeld, Console!Skips, Console!session,
    Console!reading, Console!history

LEMMA BaseKept == ASSUME ConsoleBase, [Console!Next]_Console!vars PROVE ConsoleBase'
<1> USE DEF ConsoleBase, Console!session, Console!reading, Console!terminal, Console!history
<1>1. CASE UNCHANGED Console!vars
  BY <1>1 DEF Console!vars, ConsoleTypes, OneAtATime, ReadsHeld
<1>2. CASE Console!Acquire
  <2> USE DEF Console!AcqGivesUp, Console!DropChannel
  <2>1. CASE Console!ReconnectStarts
    BY <2>1 DEF Console!ReconnectStarts, ConsoleTypes, OneAtATime, ReadsHeld
  <2>2. CASE Console!AcqRemove
    BY <2>2 DEF Console!AcqRemove, ConsoleTypes, OneAtATime, ReadsHeld
  <2>3. CASE Console!AcqStart
    BY <2>3 DEF Console!AcqStart, ConsoleTypes, OneAtATime, ReadsHeld
  <2>4. CASE Console!AcqFails
    BY <2>4 DEF Console!AcqFails, Console!Fallback, ConsoleTypes, OneAtATime, ReadsHeld
  <2>5. CASE Console!AcqHeld
    BY <2>5 DEF Console!AcqHeld, Console!Fallback, ConsoleTypes, OneAtATime, ReadsHeld
  <2>6. CASE Console!AcqDies
    BY <2>6 DEF Console!AcqDies, Console!Fallback, ConsoleTypes, OneAtATime, ReadsHeld
  <2>7. CASE Console!AcqOk
    <3>1. /\ acq = "await" /\ acq' = "none" /\ reply' = "none" /\ condition' = "held"
          /\ UNCHANGED <<proof, rel, read, reader, got, slot, link, transit, told, sent>>
      BY <2>7 DEF Console!AcqOk
    <3>2. buf' \in Seq(Chunk) /\ given' \in Nat
      BY <2>7, AcqReads DEF ConsoleTypes
    <3>3. \/ rec = "running" /\ UNCHANGED <<owner, closing, teardown, released>>
          \/ rec # "running" /\ UNCHANGED <<rec, gap>> /\ (closing' = closing /\ teardown' = teardown)
          \/ rec # "running" /\ UNCHANGED <<rec, gap>> /\ ~closing /\ closing' = TRUE /\ teardown' = "settle"
      BY <2>7 DEF Console!AcqOk, Console!CloseBegins, OneAtATime
    <3>4. ConsoleTypes'
      BY <3>1, <3>2, <3>3 DEF ConsoleTypes
    <3>5. OneAtATime'
      BY <3>1, <3>3, <2>7 DEF Console!AcqOk, OneAtATime, ConsoleTypes
    <3>6. read' = "none"
      BY <3>1 DEF OneAtATime, ReadsHeld, ConsoleTypes
    <3>7. gap' => rec' = "gap"
      BY <2>7 DEF Console!AcqOk, ReadsHeld
    <3>8. ReadsHeld'
      BY <3>6, <3>7 DEF ReadsHeld
    <3> QED
      BY <3>4, <3>5, <3>8
  <2> QED
    BY <1>2, <2>1, <2>2, <2>3, <2>4, <2>5, <2>6, <2>7 DEF Console!Acquire
<1>3. CASE Console!Release
  <2> USE DEF Console!EndsLost
  <2>0. /\ rel \notin {"none", "scan"} => read = "none" /\ condition # "lost"
        /\ buf \in Seq(Chunk)
    BY DEF OneAtATime, ReadsHeld, ConsoleTypes
  <2>1. CASE Console!ScanPreempts
    BY <2>1 DEF Console!ScanPreempts, ConsoleTypes, OneAtATime, ReadsHeld
  <2>2. CASE Console!Scan
    <3>1. CASE condition = "lost" /\ Console!EndsLost
      BY <2>2, <3>1, EndsKept DEF Console!Scan
    <3>2. CASE condition # "lost" /\ buf # <<>> /\ Console!Skips(Head(buf))
      BY <3>2, SkipsKept
    <3>3. CASE condition # "lost" /\ Console!EndsLost
      BY <2>2, <3>3, EndsKept DEF Console!Scan
    <3>4. CASE condition # "lost" /\ Console!Goes("remove") /\ UNCHANGED Console!terminal
      BY <2>0, <2>2, <3>4, GoesKept DEF Console!Scan
    <3>5. CASE condition # "lost" /\ Console!SendEof
      BY <2>0, <2>2, <3>5, GoesKept DEF Console!Scan, Console!SendEof
    <3> QED
      BY <2>2, <3>1, <3>2, <3>3, <3>4, <3>5 DEF Console!Scan
  <2>3. CASE Console!EofReads
    <3>1. CASE Console!Skips(Head(buf))
      BY <2>3, <3>1, SkipsKept DEF Console!EofReads
    <3>2. CASE Console!EndsLost
      BY <2>0, <2>3, <3>2, EndsKept DEF Console!EofReads
    <3>3. CASE /\ Console!Goes(IF link = "up" THEN "probe" ELSE "remove")
               /\ UNCHANGED Console!terminal
      BY <2>0, <2>3, <3>3, GoesKept DEF Console!EofReads
    <3> QED
      BY <2>3, <3>1, <3>2, <3>3 DEF Console!EofReads
  <2>4. CASE Console!EofTimesOut \/ Console!Remove
    BY <2>0, <2>4, GoesKept DEF Console!EofTimesOut, Console!Remove
  <2>5. CASE Console!Probe
    BY <2>0, <2>5, GoesKept, EndsKept DEF Console!Probe
  <2>6. CASE Console!ProbeReads
    BY <2>0, <2>6, GoesKept, EndsKept DEF Console!ProbeReads
  <2>7. CASE Console!ProbeEof
    BY <2>0, <2>7, GoesKept, EndsKept DEF Console!ProbeEof
  <2>8. CASE Console!ProbeRemove
    BY <2>0, <2>8, EndsKept DEF Console!ProbeRemove
  <2> QED
    BY <1>3, <2>1, <2>2, <2>3, <2>4, <2>5, <2>6, <2>7, <2>8 DEF Console!Release
<1>4. CASE Console!Teardown
  <2>1. CASE Console!AwaitReconnect
    BY <2>1 DEF Console!AwaitReconnect, ConsoleTypes, OneAtATime, ReadsHeld
  <2>2. CASE Console!AwaitSettled /\ condition = "held"
    BY <2>2 DEF Console!AwaitSettled, ConsoleTypes, OneAtATime, ReadsHeld
  <2>3. CASE Console!AwaitSettled /\ condition # "held"
    <3>1. /\ teardown = "settle" /\ teardown' = "done" /\ rel = "none" /\ acq = "none"
          /\ link' = "none" /\ buf' = <<>>
          /\ UNCHANGED <<condition, closing, rec, acq, reply, rel, read, sent, given, gap>>
      BY <2>3 DEF Console!AwaitSettled, Console!DropChannel
    <3> QED
      BY <3>1 DEF ConsoleTypes, OneAtATime, ReadsHeld
  <2> QED
    BY <1>4, <2>1, <2>2, <2>3 DEF Console!Teardown
<1>5. CASE Console!ReadTakes \/ Console!ReadReturns
  <2>1. CASE Console!ReadTakes
    <3>1. buf' \in Seq(Chunk)
      BY <2>1, Skipped DEF Console!ReadTakes, ConsoleTypes
    <3> QED
      BY <2>1, <3>1 DEF Console!ReadTakes, ConsoleTypes, OneAtATime, ReadsHeld
  <2>2. CASE Console!ReadReturns /\ Console!Drops /\ link = "down"
    <3>1. /\ read = "done" /\ read' = "none" /\ condition = "held" /\ condition' = "dropped"
          /\ ~closing /\ rec' = "running" /\ buf' = <<>> /\ link' = "none"
          /\ UNCHANGED <<closing, teardown, acq, reply, rel, sent, gap>>
          /\ given' = IF got = "data" THEN given + 1 ELSE given
      BY <2>2 DEF Console!ReadReturns, Console!DropChannel, Console!Drops
    <3> QED
      BY <3>1 DEF ConsoleTypes, OneAtATime, ReadsHeld
  <2>3. CASE Console!ReadReturns /\ ~(Console!Drops /\ link = "down")
    BY <2>3 DEF Console!ReadReturns, Console!Watched, Console!Releasable, ConsoleTypes,
      OneAtATime, ReadsHeld
  <2> QED
    BY <1>5, <2>1, <2>2, <2>3
<1>6. CASE Console!Caller
  <2> USE DEF Console!GiveChannel, Console!Collecting
  <2>1. CASE Console!Open \/ Console!Resume \/ Console!Cancel
    BY <2>1 DEF Console!Open, Console!Resume, Console!Cancel, ConsoleTypes, OneAtATime, ReadsHeld
  <2>2. CASE Console!StartRead \/ Console!ReadTimesOut \/ Console!ReadOutcome
    BY <2>2 DEF Console!StartRead, Console!ReadTimesOut, Console!ReadOutcome, ConsoleTypes,
      OneAtATime, ReadsHeld
  <2>3. CASE Console!HandOver \/ Console!GiveBack \/ Console!Suspend
    BY <2>3 DEF Console!HandOver, Console!GiveBack, Console!Suspend, ConsoleTypes, OneAtATime,
      ReadsHeld
  <2>4. CASE Console!Close
    BY <2>4 DEF Console!Close, ConsoleTypes, OneAtATime, ReadsHeld
  <2> QED
    BY <1>6, <2>1, <2>2, <2>3, <2>4 DEF Console!Caller
<1>7. CASE Console!Outside
  <2>1. buf' \in Seq(Chunk)
    BY <1>7 DEF Console!Outside, Console!Prints, Console!AnswersEof, Console!RemoteCloses,
      Console!ConnectionDrops, Console!OtherOpens, Console!OtherRemoves, Console!ReportArrives,
      ConsoleTypes, Chunk
  <2>2. sent' \in Nat /\ UNCHANGED <<Console!session, Console!reading, acq, reply, rel, given, gap>>
    BY <1>7 DEF Console!Outside, Console!Prints, Console!AnswersEof, Console!RemoteCloses,
      Console!ConnectionDrops, Console!OtherOpens, Console!OtherRemoves, Console!ReportArrives,
      ConsoleTypes
  <2>3. link' = "none" <=> link = "none"
    BY <1>7 DEF Console!Outside, Console!Prints, Console!AnswersEof, Console!RemoteCloses,
      Console!ConnectionDrops, Console!OtherOpens, Console!OtherRemoves, Console!ReportArrives
  <2> QED
    BY <2>1, <2>2, <2>3 DEF ConsoleTypes, OneAtATime, ReadsHeld
<1> QED
  BY <1>1, <1>2, <1>3, <1>4, <1>5, <1>6, <1>7 DEF Console!Next

\* The bytes received: output, then perhaps the report of a lost hold, then perhaps the end
\* of the stream; the HMC reports and ends nothing while the session holds its slot.
DataFirst(k) == k \in 0..Len(buf) /\ \A i \in DOMAIN buf : buf[i] = "data" <=> i <= k

Ordered ==
  /\ transit => slot # "ours"
  /\ \A i \in DOMAIN buf : buf[i] # "data" => slot # "ours"
  /\ \A i \in DOMAIN buf : buf[i] = "end" => ~transit /\ i = Len(buf)
  /\ \E k \in 0..Len(buf) : DataFirst(k)

\* What a step does to the bytes and to what comes behind them.
Stays == buf' = buf /\ (slot' = slot \/ slot' # "ours") /\ (transit' => transit \/ (slot = "ours" /\ slot' # "ours"))
Drops == buf' = <<>> /\ transit' = FALSE
Reads == buf # <<>> /\ buf' = Tail(buf) /\ UNCHANGED <<transit, slot>>
Comes == slot = "ours" /\ buf' = Append(buf, "data") /\ UNCHANGED <<transit, slot>>
Stops == slot = "ours" /\ buf' = Append(buf, "end") /\ transit' = transit /\ slot' = "free"
Breaks == /\ buf' = IF buf # <<>> /\ buf[Len(buf)] = "end" THEN buf ELSE Append(buf, "end")
          /\ transit' = FALSE /\ slot' # "ours"
Reports == transit /\ transit' = FALSE /\ buf' = Append(buf, "lost") /\ slot' = slot

LEMMA ChannelSteps ==
  ASSUME ConsoleBase, [Console!Next]_Console!vars
  PROVE  Stays \/ Drops \/ Reads \/ Comes \/ Stops \/ Breaks \/ Reports
<1> USE DEF Console!session, Console!reading, Console!terminal, Console!history
<1>1. CASE UNCHANGED Console!vars
  BY <1>1 DEF Console!vars, Stays
<1>2. CASE Console!Acquire
  <2>1. CASE Console!AcqOk
    <3>1. buf' = buf
      BY <2>1, AcqReads DEF ConsoleBase, ConsoleTypes
    <3> QED
      BY <2>1, <3>1 DEF Console!AcqOk, Stays
  <2>2. CASE Console!AcqHeld \/ Console!AcqDies
    BY <2>2 DEF Console!AcqHeld, Console!AcqDies, Console!DropChannel, Drops
  <2>3. CASE Console!ReconnectStarts \/ Console!AcqRemove \/ Console!AcqFails
    BY <2>3 DEF Console!ReconnectStarts, Console!AcqRemove, Console!AcqFails, Stays
  <2>4. CASE Console!AcqStart
    BY <2>4 DEF Console!AcqStart, Drops
  <2> QED
    BY <1>2, <2>1, <2>2, <2>3, <2>4 DEF Console!Acquire
<1>3. CASE Console!Release
  <2> USE DEF Console!Ends, Console!EndsLost, Console!Goes, Console!Skips, Console!SendEof
  <2>1. CASE Console!ScanPreempts \/ Console!EofTimesOut \/ Console!Remove
    BY <2>1 DEF Console!ScanPreempts, Console!EofTimesOut, Console!Remove, Stays
  <2>2. CASE Console!Scan
    BY <2>2 DEF Console!Scan, Stays, Drops, Reads
  <2>3. CASE Console!EofReads
    BY <2>3 DEF Console!EofReads, Stays, Drops, Reads
  <2>4. CASE Console!Probe \/ Console!ProbeReads
    BY <2>4 DEF Console!Probe, Console!ProbeReads, Stays, Drops
  <2>5. CASE Console!ProbeEof \/ Console!ProbeRemove
    BY <2>5 DEF Console!ProbeEof, Console!ProbeRemove, Stays, Drops
  <2> QED
    BY <1>3, <2>1, <2>2, <2>3, <2>4, <2>5 DEF Console!Release
<1>4. CASE Console!Teardown
  BY <1>4 DEF Console!Teardown, Console!AwaitReconnect, Console!AwaitSettled,
    Console!DropChannel, Stays, Drops
<1>5. CASE Console!ReadTakes
  BY <1>5 DEF Console!ReadTakes, Stays, Reads
<1>6. CASE Console!ReadReturns
  BY <1>6 DEF Console!ReadReturns, Console!DropChannel, Stays, Drops
<1>7. CASE Console!Caller
  <2>1. UNCHANGED Console!terminal
    BY <1>7 DEF Console!Caller, Console!Open, Console!Resume, Console!Cancel, Console!StartRead,
      Console!ReadTimesOut, Console!ReadOutcome, Console!HandOver, Console!GiveBack,
      Console!Suspend, Console!Close
  <2> QED
    BY <2>1 DEF Stays
<1>8. CASE Console!Outside
  <2>1. CASE Console!Prints
    BY <2>1 DEF Console!Prints, Comes
  <2>2. CASE Console!AnswersEof \/ Console!RemoteCloses
    BY <2>2 DEF Console!AnswersEof, Console!RemoteCloses, Stops
  <2>3. CASE Console!ConnectionDrops
    BY <2>3 DEF Console!ConnectionDrops, Console!Orphaned, Breaks
  <2>4. CASE Console!OtherOpens \/ Console!OtherRemoves
    BY <2>4 DEF Console!OtherOpens, Console!OtherRemoves, Stays
  <2>5. CASE Console!ReportArrives
    BY <2>5 DEF Console!ReportArrives, Reports
  <2> QED
    BY <1>8, <2>1, <2>2, <2>3, <2>4, <2>5 DEF Console!Outside
<1> QED
  BY <1>1, <1>2, <1>3, <1>4, <1>5, <1>6, <1>7, <1>8 DEF Console!Next

LEMMA OrderedKept ==
  ASSUME Ordered, buf \in Seq(Chunk),
         Stays \/ Drops \/ Reads \/ Comes \/ Stops \/ Breaks \/ Reports
  PROVE  Ordered'
<1> PICK k \in 0..Len(buf) : DataFirst(k)
  BY DEF Ordered
<1> USE DEF Ordered, DataFirst
<1>1. CASE Stays
  BY <1>1 DEF Stays
<1>2. CASE Drops
  <2>1. DataFirst(0)'
    BY <1>2 DEF Drops
  <2> QED
    BY <1>2, <2>1 DEF Drops
<1>3. CASE Reads
  <2>1. /\ Len(buf') = Len(buf) - 1 /\ DOMAIN buf' = 1..(Len(buf) - 1)
        /\ \A i \in DOMAIN buf' : buf'[i] = buf[i + 1] /\ i + 1 \in DOMAIN buf
    BY <1>3 DEF Reads
  <2>2. DataFirst(IF k = 0 THEN 0 ELSE k - 1)'
    BY <2>1
  <2>3. \E j \in 0..Len(buf') : DataFirst(j)'
    BY <2>2
  <2> QED
    BY <1>3, <2>1, <2>3 DEF Reads
<1>4. CASE Comes
  <2>1. k = Len(buf)
    BY <1>4 DEF Comes
  <2>2. Len(buf') = Len(buf) + 1 /\ DOMAIN buf' = 1..(Len(buf) + 1)
    BY <1>4 DEF Comes
  <2>3. \A i \in DOMAIN buf' : buf'[i] = "data"
    BY <1>4, <2>1, <2>2 DEF Comes
  <2>4. DataFirst(k + 1)'
    BY <2>1, <2>2, <2>3
  <2>5. \E j \in 0..Len(buf') : DataFirst(j)'
    BY <2>1, <2>2, <2>4
  <2> QED
    BY <1>4, <2>3, <2>5 DEF Comes
<1>5. ASSUME NEW c \in {"lost", "end"}, buf' = Append(buf, c) PROVE \E j \in 0..Len(buf') : DataFirst(j)'
  <2>1. DataFirst(k)'
    BY <1>5
  <2> QED
    BY <2>1
<1>6. CASE Stops
  <2>1. \E j \in 0..Len(buf') : DataFirst(j)'
    BY <1>5, <1>6 DEF Stops
  <2> QED
    BY <1>6, <2>1 DEF Stops
<1>7. CASE Breaks
  <2>1. \E j \in 0..Len(buf') : DataFirst(j)'
    BY <1>5, <1>7 DEF Breaks
  <2>2. \A i \in DOMAIN buf' : buf'[i] = "end" => i = Len(buf')
    BY <1>7 DEF Breaks
  <2> QED
    BY <1>7, <2>1, <2>2 DEF Breaks
<1>8. CASE Reports
  <2>1. \E j \in 0..Len(buf') : DataFirst(j)'
    BY <1>5, <1>8 DEF Reports
  <2>2. \A i \in DOMAIN buf' : buf'[i] # "end"
    BY <1>8 DEF Reports
  <2> QED
    BY <1>8, <2>1, <2>2 DEF Reports
<1> QED
  BY <1>1, <1>2, <1>3, <1>4, <1>6, <1>7, <1>8

\* The chunks that were printed and that no reader was handed.
InFlight == IF read = "done" /\ got = "data" THEN 1 ELSE 0

Counted ==
  /\ acq = "await" => given = 0 /\ sent = Console!Data(buf)
  /\ condition = "held" /\ rel = "none" /\ teardown # "done" =>
       sent = given + Console!Data(buf) + InFlight

\* How many chunks of output each kind of step leaves unread.
LEMMA Counts ==
  ASSUME Ordered, buf \in Seq(Chunk)
  PROVE  /\ Console!Data(buf) \in Nat
         /\ Console!Data(<<>>) = 0
         /\ buf # <<>> =>
              /\ Console!Data(Tail(buf)) \in Nat
              /\ Console!Data(buf) = Console!Data(Tail(buf)) + (IF Head(buf) = "data" THEN 1 ELSE 0)
         /\ \A c \in {"lost", "end"} : Console!Data(Append(buf, c)) = Console!Data(buf)
         /\ slot = "ours" => Console!Data(Append(buf, "data")) = Console!Data(buf) + 1
<1> PICK k \in 0..Len(buf) : \A i \in DOMAIN buf : buf[i] = "data" <=> i <= k
  BY DEF Ordered, DataFirst
<1>1. Console!Data(buf) = k
  BY DataIs
<1>2. Console!Data(<<>>) = 0
  <2>1. <<>> \in Seq(Chunk) /\ 0 \in 0..Len(<<>>) /\ \A i \in DOMAIN <<>> : <<>>[i] = "data" <=> i <= 0
    OBVIOUS
  <2> QED
    BY <2>1, DataIs
<1>3. ASSUME buf # <<>>
      PROVE  /\ Console!Data(Tail(buf)) \in Nat
             /\ Console!Data(buf) = Console!Data(Tail(buf)) + (IF Head(buf) = "data" THEN 1 ELSE 0)
  <2> DEFINE s == Tail(buf)
             j == IF k = 0 THEN 0 ELSE k - 1
  <2>1. /\ s \in Seq(Chunk) /\ Len(s) = Len(buf) - 1 /\ DOMAIN s = 1..(Len(buf) - 1)
        /\ \A i \in DOMAIN s : s[i] = buf[i + 1] /\ i + 1 \in DOMAIN buf
    BY <1>3
  <2>2. j \in 0..Len(s) /\ \A i \in DOMAIN s : s[i] = "data" <=> i <= j
    BY <1>3, <2>1
  <2>3. Head(buf) = "data" <=> k # 0
    BY <1>3
  <2> HIDE DEF s
  <2>4. Console!Data(s) = j
    BY <2>1, <2>2, DataIs
  <2> QED
    BY <1>1, <2>3, <2>4 DEF s
<1>4. ASSUME NEW c \in {"lost", "end"} PROVE Console!Data(Append(buf, c)) = Console!Data(buf)
  <2> DEFINE s == Append(buf, c)
  <2>1. /\ s \in Seq(Chunk) /\ k \in 0..Len(s)
        /\ \A i \in DOMAIN s : s[i] = "data" <=> i <= k
    BY DEF Chunk
  <2> HIDE DEF s
  <2>2. Console!Data(s) = k
    BY <2>1, DataIs
  <2> QED
    BY <1>1, <2>2 DEF s
<1>5. ASSUME slot = "ours" PROVE Console!Data(Append(buf, "data")) = Console!Data(buf) + 1
  <2> DEFINE s == Append(buf, "data")
  <2>1. k = Len(buf)
    BY <1>5 DEF Ordered
  <2>2. s \in Seq(Chunk) /\ Len(s) = Len(buf) + 1 /\ DOMAIN s = 1..(Len(buf) + 1)
    BY DEF Chunk
  <2>3. \A i \in DOMAIN s : s[i] = "data"
    BY <2>1, <2>2
  <2> HIDE DEF s
  <2>4. Console!Data(s) = Len(buf) + 1
    BY <2>2, <2>3, DataIs
  <2> QED
    BY <1>1, <2>1, <2>4 DEF s
<1> QED
  BY <1>1, <1>2, <1>3, <1>4, <1>5

LEMMA CountedKept ==
  ASSUME ConsoleBase, Ordered, Counted, [Console!Next]_Console!vars PROVE Counted'
<1> USE DEF Console!session, Console!reading, Console!terminal, Console!history
<1> USE Counts DEF ConsoleBase, ConsoleTypes
<1>1. CASE UNCHANGED Console!vars
  BY <1>1 DEF Console!vars, Counted, InFlight
<1>2. CASE Console!Acquire
  <2>1. CASE Console!AcqOk
    <3>1. buf' = buf /\ given' = 0
      BY <2>1, AcqReads
    <3>2. acq = "await" /\ acq' = "none" /\ UNCHANGED <<read, got, sent, rel>>
      BY <2>1 DEF Console!AcqOk
    <3>3. read = "none"
      BY <3>2 DEF OneAtATime, ReadsHeld
    <3> QED
      BY <3>1, <3>2, <3>3 DEF Counted, InFlight
  <2>2. CASE Console!AcqStart
    BY <2>2 DEF Console!AcqStart, Counted, InFlight, OneAtATime
  <2>3. CASE Console!AcqFails \/ Console!AcqHeld \/ Console!AcqDies
    <3>1. acq' = "none" /\ condition' # "held"
      BY <2>3 DEF Console!AcqFails, Console!AcqHeld, Console!AcqDies, Console!AcqGivesUp,
        Console!Fallback
    <3> QED
      BY <3>1 DEF Counted
  <2>4. CASE Console!ReconnectStarts \/ Console!AcqRemove
    <3>1. acq' # "await" /\ (condition' # "held" \/ UNCHANGED <<condition, rel, teardown, sent, given, buf, read, got>>)
      BY <2>4 DEF Console!ReconnectStarts, Console!AcqRemove
    <3> QED
      BY <3>1 DEF Counted, InFlight
  <2> QED
    BY <1>2, <2>1, <2>2, <2>3, <2>4 DEF Console!Acquire
<1>3. CASE Console!Release
  <2>1. rel # "none" /\ acq' = "none"
    BY <1>3 DEF Console!Release, Console!ScanPreempts, Console!Scan, Console!EofReads,
      Console!EofTimesOut, Console!Remove, Console!Probe, Console!ProbeReads, Console!ProbeEof,
      Console!ProbeRemove, Console!Ends, Console!EndsLost, Console!Goes, Console!Skips,
      Console!SendEof, OneAtATime
  <2>2. rel' # "none" \/ teardown' = "done" \/ condition' = "suspended"
    BY <1>3, <2>1 DEF Console!Release, Console!ScanPreempts, Console!Scan, Console!EofReads,
      Console!EofTimesOut, Console!Remove, Console!Probe, Console!ProbeReads, Console!ProbeEof,
      Console!ProbeRemove, Console!Ends, Console!EndsLost, Console!Goes, Console!Skips,
      Console!SendEof
  <2> QED
    BY <2>1, <2>2 DEF Counted
<1>4. CASE Console!Teardown
  BY <1>4 DEF Console!Teardown, Console!AwaitReconnect, Console!AwaitSettled, Counted, InFlight
<1>5. CASE Console!ReadTakes
  <2>1. /\ read = "waiting" /\ read' = "done" /\ buf # <<>> /\ got' = Head(buf)
        /\ UNCHANGED <<acq, condition, rel, teardown, sent, given>>
    BY <1>5 DEF Console!ReadTakes
  <2>2. Console!Data(buf) = Console!Data(buf') + InFlight' /\ Console!Data(buf') \in Nat
    BY <1>5, <2>1 DEF Console!ReadTakes, InFlight
  <2>4. acq # "await"
    BY <2>1 DEF OneAtATime, ReadsHeld
  <2> QED
    BY <2>1, <2>2, <2>4 DEF Counted, InFlight
<1>6. CASE Console!ReadReturns
  <2>1. /\ read = "done" /\ read' = "none" /\ got' = "none" /\ given' = given + InFlight
        /\ UNCHANGED <<acq, rel, teardown, sent>>
        /\ condition' # "held" \/ (condition' = condition /\ buf' = buf)
    BY <1>6 DEF Console!ReadReturns, InFlight, Console!Watched
  <2>2. acq # "await"
    BY <2>1 DEF OneAtATime, ReadsHeld
  <2> QED
    BY <2>1, <2>2 DEF Counted, InFlight
<1>7. CASE Console!Caller
  <2>1. UNCHANGED <<buf, sent, given>> /\ InFlight' = InFlight
    BY <1>7 DEF Console!Caller, Console!Open, Console!Resume, Console!Cancel, Console!StartRead,
      Console!ReadTimesOut, Console!ReadOutcome, Console!HandOver, Console!GiveBack,
      Console!GiveChannel, Console!Suspend, Console!Close, InFlight
  <2>2. acq' = "await" => acq = "await"
    BY <1>7 DEF Console!Caller, Console!Open, Console!Resume, Console!Cancel, Console!StartRead,
      Console!ReadTimesOut, Console!ReadOutcome, Console!HandOver, Console!GiveBack,
      Console!Suspend, Console!Close
  <2>3. condition' = "held" => condition = "held" /\ (rel' = "none" => rel = "none") /\ (teardown = "done" => teardown' = "done")
    BY <1>7 DEF Console!Caller, Console!Open, Console!Resume, Console!Cancel, Console!StartRead,
      Console!ReadTimesOut, Console!ReadOutcome, Console!HandOver, Console!GiveBack,
      Console!Suspend, Console!Close, OneAtATime
  <2> QED
    BY <2>1, <2>2, <2>3 DEF Counted
<1>8. CASE Console!Outside
  <2>1. UNCHANGED <<acq, condition, rel, teardown, given, read, got>>
    BY <1>8 DEF Console!Outside, Console!Prints, Console!AnswersEof, Console!RemoteCloses,
      Console!ConnectionDrops, Console!OtherOpens, Console!OtherRemoves, Console!ReportArrives
  <2>2. sent' - sent = Console!Data(buf') - Console!Data(buf) /\ Console!Data(buf') \in Nat
    <3>1. CASE Console!Prints
      BY <3>1 DEF Console!Prints
    <3>2. CASE Console!AnswersEof \/ Console!RemoteCloses
      <4>1. buf' = Append(buf, "end") /\ sent' = sent
        BY <3>2 DEF Console!AnswersEof, Console!RemoteCloses
      <4> QED
        BY <4>1
    <3>3. CASE Console!ConnectionDrops
      <4>1. Console!Data(buf') = Console!Data(buf)
        BY <3>3 DEF Console!ConnectionDrops
      <4>2. sent' = sent
        BY <3>3 DEF Console!ConnectionDrops
      <4> QED
        BY <4>1, <4>2
    <3>4. CASE Console!OtherOpens \/ Console!OtherRemoves
      BY <3>4 DEF Console!OtherOpens, Console!OtherRemoves
    <3>5. CASE Console!ReportArrives
      BY <3>5 DEF Console!ReportArrives
    <3> QED
      BY <1>8, <3>1, <3>2, <3>3, <3>4, <3>5 DEF Console!Outside
  <2>3. sent' \in Nat
    BY BaseKept
  <2>4. InFlight' = InFlight /\ InFlight \in Nat
    BY <2>1 DEF InFlight
  <2>5. sent = Console!Data(buf) => sent' = Console!Data(buf')
    BY <2>2, <2>3
  <2>6. sent = given + Console!Data(buf) + InFlight => sent' = given + Console!Data(buf') + InFlight
    <3>1. \A s, t, g, d, e, n \in Nat : t - s = e - d /\ s = g + d + n => t = g + e + n
      OBVIOUS
    <3>2. sent \in Nat /\ given \in Nat /\ Console!Data(buf) \in Nat
      OBVIOUS
    <3> QED
      BY <2>2, <2>3, <2>4, <3>1, <3>2, SMTT(30)
  <2> QED
    BY <2>1, <2>4, <2>5, <2>6 DEF Counted
<1> QED
  BY <1>1, <1>2, <1>3, <1>4, <1>5, <1>6, <1>7, <1>8 DEF Console!Next

\* The slot holds nothing of a session whose release was proved.
Spared == slot \in {"free", "other"}

Proven ==
  /\ rel \in {"probing", "probe_eof", "probe_remove"} => Spared \/ slot = "probe"
  /\ proof /\ condition = "suspended" => Spared
  /\ proof /\ condition = "resuming" => Spared \/ (acq = "await" /\ reply = "banner")
  /\ released = "proven" => teardown = "done" /\ Spared

LEMMA ProvenKept ==
  ASSUME ConsoleBase, Proven, [Console!Next]_Console!vars PROVE Proven'
<1> USE DEF Console!session, Console!reading, Console!terminal, Console!history, Console!Orphaned
<1> USE DEF ConsoleBase, ConsoleTypes, Proven, Spared
<1>1. CASE UNCHANGED Console!vars
  BY <1>1 DEF Console!vars
<1>2. CASE Console!Acquire
  <2>1. CASE Console!ReconnectStarts \/ Console!AcqRemove
    BY <2>1 DEF Console!ReconnectStarts, Console!AcqRemove, OneAtATime
  <2>2. CASE Console!AcqStart
    BY <2>2 DEF Console!AcqStart, OneAtATime
  <2>3. CASE Console!AcqFails
    BY <2>3 DEF Console!AcqFails, Console!AcqGivesUp, Console!Fallback, OneAtATime
  <2>4. CASE Console!AcqHeld \/ Console!AcqDies
    BY <2>4 DEF Console!AcqHeld, Console!AcqDies, Console!AcqGivesUp, Console!Fallback,
      Console!DropChannel, OneAtATime
  <2>5. CASE Console!AcqOk
    BY <2>5 DEF Console!AcqOk, Console!CloseBegins, OneAtATime
  <2> QED
    BY <1>2, <2>1, <2>2, <2>3, <2>4, <2>5 DEF Console!Acquire
<1>3. CASE Console!Release
  <2>0. rel # "none" => teardown # "done" /\ acq = "none" /\ condition \in {"held", "suspending", "lost"}
    BY DEF OneAtATime
  <2> USE DEF Console!Ends, Console!EndsLost, Console!Goes, Console!Skips, Console!SendEof
  <2>1. CASE Console!ScanPreempts \/ Console!EofTimesOut \/ Console!Remove
    BY <2>0, <2>1 DEF Console!ScanPreempts, Console!EofTimesOut, Console!Remove
  <2>2. CASE Console!Scan
    BY <2>0, <2>2 DEF Console!Scan
  <2>3. CASE Console!EofReads
    BY <2>0, <2>3 DEF Console!EofReads
  <2>4. CASE Console!Probe
    BY <2>0, <2>4 DEF Console!Probe
  <2>5. CASE Console!ProbeReads
    BY <2>0, <2>5 DEF Console!ProbeReads
  <2>6. CASE Console!ProbeEof
    BY <2>0, <2>6 DEF Console!ProbeEof
  <2>7. CASE Console!ProbeRemove
    BY <2>0, <2>7 DEF Console!ProbeRemove
  <2> QED
    BY <1>3, <2>1, <2>2, <2>3, <2>4, <2>5, <2>6, <2>7 DEF Console!Release
<1>4. CASE Console!Teardown
  BY <1>4 DEF Console!Teardown, Console!AwaitReconnect, Console!AwaitSettled,
    Console!DropChannel, OneAtATime
<1>5. CASE Console!ReadTakes \/ Console!ReadReturns
  BY <1>5 DEF Console!ReadTakes, Console!ReadReturns, Console!DropChannel, Console!Watched,
    Console!Releasable, OneAtATime
<1>6. CASE Console!Caller
  BY <1>6 DEF Console!Caller, Console!Open, Console!Resume, Console!Cancel, Console!StartRead,
    Console!ReadTimesOut, Console!ReadOutcome, Console!HandOver, Console!GiveBack,
    Console!GiveChannel, Console!Suspend, Console!Close, Console!Collecting, OneAtATime
<1>7. CASE Console!Outside
  BY <1>7 DEF Console!Outside, Console!Prints, Console!AnswersEof, Console!RemoteCloses,
    Console!ConnectionDrops, Console!OtherOpens, Console!OtherRemoves, Console!ReportArrives
<1> QED
  BY <1>1, <1>2, <1>3, <1>4, <1>5, <1>6, <1>7 DEF Console!Next

\* A report that came before the release stopped reading is on its way to whoever decides
\* between the end of input and rmvterm.
LostAhead == (read = "done" /\ got = "lost") \/ \E i \in DOMAIN buf : buf[i] = "lost"

Heeded ==
  /\ rel = "remove" => ~told
  /\ told /\ acq = "await" => LostAhead
  /\ told /\ condition \in {"held", "suspending"} /\ teardown # "done"
       /\ rel \in {"none", "scan", "eofwait"} => LostAhead

LEMMA HeededKept ==
  ASSUME ConsoleBase, Ordered, Heeded, [Console!Next]_Console!vars PROVE Heeded'
<1> USE DEF Console!session, Console!reading, Console!terminal, Console!history
<1> USE DEF ConsoleBase, ConsoleTypes, Heeded, LostAhead
<1>1. CASE UNCHANGED Console!vars
  BY <1>1 DEF Console!vars
<1>2. CASE Console!Acquire
  <2>1. CASE Console!ReconnectStarts \/ Console!AcqRemove
    BY <2>1 DEF Console!ReconnectStarts, Console!AcqRemove, OneAtATime
  <2>2. CASE Console!AcqStart
    BY <2>2 DEF Console!AcqStart, OneAtATime
  <2>3. CASE Console!AcqFails \/ Console!AcqHeld \/ Console!AcqDies
    <3>1. acq' = "none" /\ condition' \notin {"held", "suspending"} /\ UNCHANGED <<rel, told>>
      BY <2>3 DEF Console!AcqFails, Console!AcqHeld, Console!AcqDies, Console!AcqGivesUp,
        Console!Fallback
    <3> QED
      BY <3>1
  <2>4. CASE Console!AcqOk
    <3>1. acq = "await" /\ acq' = "none" /\ UNCHANGED <<buf, read, got, told, rel>>
      BY <2>4, AcqReads DEF Console!AcqOk
    <3> QED
      BY <3>1
  <2> QED
    BY <1>2, <2>1, <2>2, <2>3, <2>4 DEF Console!Acquire
<1>3. CASE Console!Release
  <2>0. /\ rel # "none" => teardown # "done" /\ acq = "none"
        /\ rel \notin {"none", "scan"} => read = "none" /\ condition \in {"held", "suspending"}
        /\ rel = "scan" => condition \in {"held", "suspending", "lost"}
    BY DEF OneAtATime, ReadsHeld
  <2>1. ASSUME rel # "none", NEW p, Console!Ends(p) PROVE Heeded'
    <3>1. rel' = "none" /\ acq' = "none" /\ (condition' = "suspended" \/ teardown' = "done")
      BY <2>0, <2>1 DEF Console!Ends
    <3> QED
      BY <3>1
  <2>2. ASSUME rel # "none", rel \in {"scan", "eofwait"} => ~told, NEW to, Console!Goes(to),
               rel \notin {"scan", "eofwait"} => to \in {"probe", "probing", "probe_eof", "probe_remove"}
        PROVE  Heeded'
    <3>1. rel' = to /\ UNCHANGED <<told, acq, condition, teardown>>
      BY <2>2 DEF Console!Goes
    <3> QED
      BY <2>0, <2>2, <3>1
  <2>3. ASSUME rel \in {"scan", "eofwait"}, read = "none", condition # "lost", buf # <<>>,
               Console!Skips(Head(buf))
        PROVE  Heeded'
    <3>1. /\ Head(buf) = "data" /\ buf' = Tail(buf)
          /\ UNCHANGED <<rel, acq, told, condition, teardown, read, got>>
      BY <2>3 DEF Console!Skips
    <3>2. ASSUME NEW i \in DOMAIN buf, buf[i] = "lost" PROVE \E j \in DOMAIN buf' : buf'[j] = "lost"
      <4>1. i # 1 /\ i - 1 \in DOMAIN buf' /\ buf'[i - 1] = "lost"
        BY <3>1, <3>2
      <4> QED
        BY <4>1
    <3> QED
      BY <2>0, <2>3, <3>1, <3>2
  <2>4. ASSUME rel \in {"scan", "eofwait"}, read = "none", condition # "lost",
               buf = <<>> \/ Head(buf) = "end"
        PROVE  ~told
    <3>1. \A i \in DOMAIN buf : buf[i] # "lost"
      BY <2>4 DEF Ordered
    <3> QED
      BY <2>0, <2>4, <3>1
  <2>5. CASE Console!ScanPreempts
    BY <2>5 DEF Console!ScanPreempts
  <2>6. CASE Console!Scan
    <3>1. rel = "scan" /\ read = "none"
      BY <2>6 DEF Console!Scan
    <3>2. CASE Console!EndsLost
      BY <2>1, <3>1, <3>2 DEF Console!EndsLost
    <3>3. CASE condition # "lost" /\ buf # <<>> /\ Console!Skips(Head(buf))
      BY <2>3, <3>1, <3>3
    <3>4. CASE condition # "lost" /\ buf # <<>> /\ Head(buf) = "end" /\ Console!Goes("remove")
      BY <2>2, <2>4, <3>1, <3>4
    <3>5. CASE condition # "lost" /\ buf = <<>> /\ Console!SendEof
      BY <2>2, <2>4, <3>1, <3>5 DEF Console!SendEof
    <3> QED
      BY <2>6, <3>2, <3>3, <3>4, <3>5 DEF Console!Scan
  <2>7. CASE Console!EofReads
    <3>1. rel = "eofwait" /\ buf # <<>> /\ read = "none" /\ condition # "lost"
      BY <2>0, <2>7 DEF Console!EofReads
    <3>2. CASE Console!EndsLost
      BY <2>1, <3>1, <3>2 DEF Console!EndsLost
    <3>3. CASE Console!Skips(Head(buf))
      BY <2>3, <3>1, <3>3
    <3>4. CASE Head(buf) = "end" /\ Console!Goes(IF link = "up" THEN "probe" ELSE "remove")
      BY <2>2, <2>4, <3>1, <3>4
    <3> QED
      BY <2>7, <3>2, <3>3, <3>4 DEF Console!EofReads
  <2>8. CASE Console!EofTimesOut
    BY <2>0, <2>2, <2>4, <2>8 DEF Console!EofTimesOut
  <2>9. CASE Console!Remove
    BY <2>2, <2>9 DEF Console!Remove
  <2>10. CASE Console!Probe \/ Console!ProbeReads \/ Console!ProbeEof \/ Console!ProbeRemove
    <3>1. rel # "none" /\ rel \notin {"scan", "eofwait"}
      BY <2>10 DEF Console!Probe, Console!ProbeReads, Console!ProbeEof, Console!ProbeRemove
    <3> QED
      BY <2>1, <2>2, <2>10, <3>1 DEF Console!Probe, Console!ProbeReads, Console!ProbeEof,
        Console!ProbeRemove
  <2> QED
    BY <1>3, <2>5, <2>6, <2>7, <2>8, <2>9, <2>10 DEF Console!Release
<1>4. CASE Console!Teardown
  BY <1>4 DEF Console!Teardown, Console!AwaitReconnect, Console!AwaitSettled,
    Console!DropChannel, OneAtATime
<1>5. CASE Console!ReadTakes
  <2>1. /\ read = "waiting" /\ read' = "done" /\ buf # <<>> /\ got' = Head(buf)
        /\ buf' = (IF Head(buf) = "end" THEN buf ELSE Tail(buf))
        /\ UNCHANGED <<acq, condition, rel, teardown, told>>
    BY <1>5 DEF Console!ReadTakes
  <2>2. ASSUME NEW i \in DOMAIN buf, buf[i] = "lost"
        PROVE  got' = "lost" \/ \E j \in DOMAIN buf' : buf'[j] = "lost"
    <3>1. CASE i = 1
      BY <2>1, <2>2, <3>1
    <3>2. CASE i # 1 /\ Head(buf) # "end"
      <4>1. i - 1 \in DOMAIN buf' /\ buf'[i - 1] = "lost"
        BY <2>1, <2>2, <3>2
      <4> QED
        BY <4>1
    <3>3. CASE Head(buf) = "end"
      BY <2>1, <2>2, <3>3
    <3> QED
      BY <3>1, <3>2, <3>3
  <2> QED
    BY <2>1, <2>2
<1>6. CASE Console!ReadReturns
  <2>1. /\ read = "done" /\ read' = "none" /\ UNCHANGED <<acq, rel, teardown, told>>
        /\ \/ condition' = "dropped"
           \/ buf' = buf /\ condition' = Console!Watched(got)
    BY <1>6 DEF Console!ReadReturns
  <2>2. condition \in {"held", "suspending"} /\ rel \in {"none", "scan"} /\ acq = "none"
    BY <2>1 DEF OneAtATime, ReadsHeld
  <2> QED
    BY <2>1, <2>2 DEF Console!Watched, Console!Releasable
<1>7. CASE Console!Caller
  BY <1>7 DEF Console!Caller, Console!Open, Console!Resume, Console!Cancel, Console!StartRead,
    Console!ReadTimesOut, Console!ReadOutcome, Console!HandOver, Console!GiveBack,
    Console!GiveChannel, Console!Suspend, Console!Close, Console!Collecting, OneAtATime
<1>8. CASE Console!Outside
  <2>1. UNCHANGED <<acq, rel, condition, teardown, read, got>>
    BY <1>8 DEF Console!Outside, Console!Prints, Console!AnswersEof, Console!RemoteCloses,
      Console!ConnectionDrops, Console!OtherOpens, Console!OtherRemoves, Console!ReportArrives
  <2>2. CASE Console!ReportArrives
    <3>1. buf' = Append(buf, "lost") /\ (rel = "remove" => ~told')
      BY <2>2 DEF Console!ReportArrives
    <3>2. Len(buf) + 1 \in DOMAIN buf' /\ buf'[Len(buf) + 1] = "lost"
      BY <3>1
    <3> QED
      BY <2>1, <3>1, <3>2
  <2>3. CASE ~Console!ReportArrives
    <3>1. told' = told /\ (buf' = buf \/ \E c \in Chunk : buf' = Append(buf, c))
      BY <1>8, <2>3 DEF Console!Outside, Console!Prints, Console!AnswersEof, Console!RemoteCloses,
        Console!ConnectionDrops, Console!OtherOpens, Console!OtherRemoves, Chunk
    <3>2. LostAhead => LostAhead'
      BY <2>1, <3>1
    <3> QED
      BY <2>1, <3>1, <3>2
  <2> QED
    BY <2>2, <2>3
<1> QED
  BY <1>1, <1>2, <1>3, <1>4, <1>5, <1>6, <1>7, <1>8 DEF Console!Next

ConsoleInv == ConsoleBase /\ Ordered /\ Counted /\ Proven /\ Heeded

LEMMA ConsoleStarts == ASSUME Console!Init PROVE ConsoleInv
<1>1. ConsoleBase
  BY BaseStarts
<1>2. DataFirst(0) /\ 0 \in 0..Len(buf) /\ DOMAIN buf = {}
  BY DEF Console!Init, DataFirst
<1>3. Ordered
  BY <1>2 DEF Console!Init, Ordered
<1>4. Counted /\ Proven /\ Heeded
  BY DEF Console!Init, Counted, Proven, Heeded
<1> QED
  BY <1>1, <1>3, <1>4 DEF ConsoleInv

LEMMA ConsoleKept == ASSUME ConsoleInv, [Console!Next]_Console!vars PROVE ConsoleInv'
<1> USE DEF ConsoleInv
<1>1. buf \in Seq(Chunk)
  BY DEF ConsoleBase, ConsoleTypes
<1>2. ConsoleBase' /\ Counted' /\ Proven' /\ Heeded'
  BY BaseKept, CountedKept, ProvenKept, HeededKept
<1>3. Ordered'
  BY <1>1, ChannelSteps, OrderedKept
<1> QED
  BY <1>2, <1>3

\* What holds of the console session in every state of the process.
LEMMA ConsoleAlways == ClientSpec => [](which = "console" => ConsoleInv)
<1> DEFINE P == which = "console" => ConsoleInv
<1>1. ClientInit => P
  BY ConsoleStarts DEF ClientInit
<1>2. P /\ [ClientNext]_clientVars => P'
  <2> SUFFICES ASSUME P, [ClientNext]_clientVars, which' = "console" PROVE ConsoleInv'
    OBVIOUS
  <2>1. which = "console" /\ [Console!Next]_Console!vars
    BY DEF ClientNext, clientVars, consoleVars, Console!vars, Console!session, Console!reading,
      Console!terminal, Console!history
  <2> QED
    BY <2>1, ConsoleKept
<1> QED
  BY <1>1, <1>2, PTL DEF ClientSpec

(* A release never answers with rmvterm a loss that was reported before it stopped *)
(* reading, read or unread, and the session reports a proved release only with     *)
(* nothing of its own left in the slot: not its stream, not a dropped one, not the *)
(* probe (close, _teardown, _release_hold, _scan_unread, _probe_released).         *)
THEOREM ReleaseSafeAlways == ClientSpec => []ReleaseSafe
<1>1. (which = "console" => ConsoleInv) => ReleaseSafe
  BY DEF ConsoleInv, Proven, Spared, Heeded, ReleaseSafe, Console!KnownLossSpared,
    Console!ReleasedProven
<1> QED
  BY <1>1, ConsoleAlways, PTL

(* While the session is held, every chunk printed was handed to a reader, is being *)
(* handed to one or is unread, over all pauses; and acquisition, release and the   *)
(* end of close() exclude each other (_read_for, _give_channel, suspend, resume,   *)
(* hand_over).                                                                     *)
THEOREM BytesKeptAlways == ClientSpec => []BytesKept
<1>1. (which = "console" => ConsoleInv) => BytesKept
  BY DEF ConsoleInv, ConsoleBase, OneAtATime, Counted, InFlight, BytesKept, Console!BytesKept,
    Console!OneTask
<1> QED
  BY <1>1, ConsoleAlways, PTL

\* Nobody is handed a chunk while a gap is untold.
LEMMA GapUntold ==
  ASSUME ConsoleInv, [Console!Next]_Console!vars PROVE given' > given => ~gap
<1> USE DEF ConsoleInv, ConsoleBase, ConsoleTypes
<1>1. CASE Console!ReadReturns
  BY <1>1 DEF Console!ReadReturns, ReadsHeld
<1>2. CASE Console!AcqOk
  BY <1>2, AcqReads
<1>3. CASE Console!AcqStart
  BY <1>3 DEF Console!AcqStart
<1>4. CASE given' = given
  BY <1>4
<1>5. Console!ReadReturns \/ Console!AcqOk \/ Console!AcqStart \/ given' = given
  BY DEF Console!Next, Console!vars, Console!history, Console!Acquire, Console!ReconnectStarts,
    Console!AcqRemove, Console!AcqFails, Console!AcqGivesUp, Console!AcqHeld, Console!AcqDies,
    Console!Release, Console!ScanPreempts, Console!Scan, Console!EofReads, Console!EofTimesOut,
    Console!Remove, Console!Probe, Console!ProbeReads, Console!ProbeEof, Console!ProbeRemove,
    Console!Ends, Console!EndsLost, Console!Goes, Console!Skips, Console!SendEof,
    Console!Teardown, Console!AwaitReconnect, Console!AwaitSettled, Console!ReadTakes,
    Console!Caller, Console!Open, Console!Resume, Console!Cancel, Console!StartRead,
    Console!ReadTimesOut, Console!ReadOutcome, Console!HandOver, Console!GiveBack,
    Console!Suspend, Console!Close, Console!Outside, Console!Prints, Console!AnswersEof,
    Console!RemoteCloses, Console!ConnectionDrops, Console!OtherOpens, Console!OtherRemoves,
    Console!ReportArrives
<1> QED
  BY <1>1, <1>2, <1>3, <1>4, <1>5

-----------------------------------------------------------------------------
(* The audit sink (AuditSink): it implements AuditTrail.                     *)

SinkTypes ==
  /\ queue \in Seq(0..lines) /\ lines \in 0..Lines /\ item \in 0..lines
  /\ pending \in Nat /\ dropped \in Nat /\ owed \in Nat /\ marked \in Nat
  /\ shut \in BOOLEAN /\ writer \in BOOLEAN /\ landed \in BOOLEAN /\ failed \in BOOLEAN
  /\ writerPc \in {"unborn", "get", "report", "mark", "restore", "write", "settle", "done"}
  /\ asked \in [Thread -> 0..lines]
  /\ asks \in [Thread -> {"idle", "draining", "drained", "undrained", "joining", "closed",
                          "raised"}]
  /\ before \in [1..Lines -> Nat]

\* The writer holds an item that is not settled.
Busy == writerPc \in {"report", "mark", "restore", "write", "settle"}

\* The sentinel is behind every line, nothing is behind it, and the writer ends with it.
SentinelLast ==
  /\ \A i \in DOMAIN queue : queue[i] = 0 => shut /\ i = Len(queue)
  /\ writerPc \in {"write", "settle"} => item # 0
  /\ Busy /\ item = 0 => shut /\ queue = <<>>
  /\ writerPc = "done" => shut /\ queue = <<>>
  /\ ~shut /\ ~writer => writerPc = "unborn"

\* pending counts the lines that are neither written nor counted lost.
PendingCounts ==
  pending = Len(Sink!Queued) + (IF Busy /\ item # 0 THEN 1 ELSE 0)

\* Every drop a line was accepted behind is told, in the writer's hand or still counted.
DropsFollowed ==
  /\ owed # 0 <=> writerPc \in {"mark", "restore"}
  /\ \A i \in DOMAIN queue : queue[i] # 0 => before[queue[i]] <= marked + owed + dropped
  /\ writerPc = "report" /\ item # 0 => before[item] <= marked + dropped
  /\ writerPc = "mark" /\ item # 0 => before[item] <= marked + owed
  /\ writerPc \in {"restore", "write"} /\ item # 0 /\ ~failed => before[item] <= marked
  /\ writerPc = "restore" => failed

\* Who was told that the sink is drained is ahead of every line still waiting.
DrainedAhead ==
  \A c \in Thread : asks[c] = "drained" =>
    /\ \A i \in DOMAIN queue : queue[i] # 0 => queue[i] > asked[c]
    /\ Sink!InHand => item > asked[c]

SinkInv == SinkTypes /\ SentinelLast /\ PendingCounts /\ DropsFollowed /\ DrainedAhead

LEMMA SinkStarts == ASSUME Sink!Init, Lines \in Nat PROVE SinkInv
<1> USE DEF Sink!Init, Sink!Line, Sink!Sentinel
<1>1. SinkTypes
  <2>1. queue \in Seq(0..lines) /\ lines \in 0..Lines /\ item \in 0..lines
    OBVIOUS
  <2>2. before \in [1..Lines -> Nat]
    OBVIOUS
  <2>3. asked \in [Thread -> 0..lines]
    OBVIOUS
  <2>4. asks \in [Thread -> {"idle", "draining", "drained", "undrained", "joining", "closed",
                           "raised"}]
    OBVIOUS
  <2> QED
    BY <2>1, <2>2, <2>3, <2>4 DEF SinkTypes
<1>2. SentinelLast
  BY DEF SentinelLast, Busy
<1>3. PendingCounts
  BY DEF PendingCounts, Busy, Sink!Queued
<1>4. DropsFollowed /\ DrainedAhead
  BY DEF DropsFollowed, DrainedAhead
<1> QED
  BY <1>1, <1>2, <1>3, <1>4 DEF SinkInv

\* What is queued, as a sequence of lines.
LEMMA QueuedIs ==
  ASSUME SinkTypes, SentinelLast
  PROVE  /\ Sink!Queued \in Seq(1..lines) /\ Len(Sink!Queued) <= Len(queue)
         /\ \A i \in DOMAIN Sink!Queued : i \in DOMAIN queue /\ Sink!Queued[i] = queue[i]
         /\ \A i \in DOMAIN queue : queue[i] # 0 => i \in DOMAIN Sink!Queued
         /\ Len(Sink!Queued) = Len(queue) \/ (queue # <<>> /\ queue[Len(queue)] = 0)
<1> USE DEF SinkTypes, SentinelLast
<1>1. CASE queue # <<>> /\ queue[Len(queue)] = 0
  <2> DEFINE q == SubSeq(queue, 1, Len(queue) - 1)
  <2>1. Sink!Queued = q
    BY <1>1 DEF Sink!Queued, Sink!Front, Sink!Last, Sink!Sentinel
  <2>a. Len(queue) \in Nat \ {0} /\ DOMAIN queue = 1..Len(queue)
    BY <1>1
  <2>b. Len(q) = Len(queue) - 1 /\ DOMAIN q = 1..(Len(queue) - 1)
    BY <2>a
  <2>c. ASSUME NEW i \in DOMAIN q
        PROVE  i \in DOMAIN queue /\ q[i] = queue[i] /\ queue[i] # 0 /\ queue[i] \in 1..lines
    <3>1. i \in DOMAIN queue /\ i # Len(queue) /\ q[i] = queue[i]
      BY <2>a, <2>b
    <3>2. queue[i] \in 0..lines /\ queue[i] # 0
      BY <3>1
    <3> QED
      BY <3>1, <3>2
  <2>2. Len(q) = Len(queue) - 1 /\ DOMAIN q = 1..(Len(queue) - 1)
        /\ \A i \in DOMAIN q : i \in DOMAIN queue /\ q[i] = queue[i] /\ queue[i] # 0 /\ queue[i] \in 1..lines
    BY <2>b, <2>c
  <2>3. q \in Seq(1..lines)
    BY <1>1, <2>2
  <2> QED
    BY <1>1, <2>1, <2>2, <2>3
<1>2. CASE ~(queue # <<>> /\ queue[Len(queue)] = 0)
  <2>1. Sink!Queued = queue
    BY <1>2 DEF Sink!Queued, Sink!Front, Sink!Last, Sink!Sentinel
  <2>2. \A i \in DOMAIN queue : queue[i] \in 1..lines
    BY <1>2
  <2> QED
    BY <1>2, <2>1, <2>2
<1> QED
  BY <1>1, <1>2

\* Sequences without their first and without their last element.
LEMMA Ends ==
  ASSUME NEW s \in Seq(Nat), s # <<>>
  PROVE  /\ Len(s) \in Nat \ {0} /\ s[1] = Head(s) /\ s = <<Head(s)>> \o Tail(s)
         /\ Tail(s) \in Seq(Nat) /\ Len(Tail(s)) = Len(s) - 1
         /\ \A i \in 1..(Len(s) - 1) : Tail(s)[i] = s[i + 1]
         /\ SubSeq(s, 1, Len(s) - 1) \in Seq(Nat) /\ Len(SubSeq(s, 1, Len(s) - 1)) = Len(s) - 1
         /\ Len(s) = 1 => SubSeq(s, 1, Len(s) - 1) = <<>> /\ Tail(s) = <<>>
         /\ Len(s) # 1 => /\ Tail(s) # <<>> /\ Tail(s)[Len(s) - 1] = s[Len(s)]
                          /\ SubSeq(s, 1, Len(s) - 1) = <<Head(s)>> \o SubSeq(Tail(s), 1, Len(s) - 2)
<1>1. Len(s) \in Nat \ {0} /\ DOMAIN s = 1..Len(s) /\ s[1] = Head(s)
  OBVIOUS
<1>2. /\ Tail(s) \in Seq(Nat) /\ Len(Tail(s)) = Len(s) - 1
      /\ \A i \in 1..(Len(s) - 1) : Tail(s)[i] = s[i + 1]
  BY <1>1
<1>3. s = <<Head(s)>> \o Tail(s)
  BY <1>1, <1>2
<1>4. SubSeq(s, 1, Len(s) - 1) \in Seq(Nat) /\ Len(SubSeq(s, 1, Len(s) - 1)) = Len(s) - 1
  <2>1. \A i \in 1..(Len(s) - 1) : s[i] \in Nat
    BY <1>1
  <2> QED
    BY <1>1, <2>1, SubSeqProperties
<1>5. ASSUME Len(s) = 1 PROVE SubSeq(s, 1, Len(s) - 1) = <<>> /\ Tail(s) = <<>>
  <2>1. Len(SubSeq(s, 1, Len(s) - 1)) = 0 /\ Len(Tail(s)) = 0
    BY <1>2, <1>4, <1>5
  <2> QED
    BY <1>2, <1>4, <2>1, EmptySeq
<1>6. ASSUME Len(s) # 1
      PROVE  /\ Tail(s) # <<>> /\ Tail(s)[Len(s) - 1] = s[Len(s)]
             /\ SubSeq(s, 1, Len(s) - 1) = <<Head(s)>> \o SubSeq(Tail(s), 1, Len(s) - 2)
  <2>1. Len(s) - 1 \in 1..(Len(s) - 1) /\ Len(Tail(s)) # 0
    BY <1>1, <1>2, <1>6
  <2>a. Tail(s) # <<>>
    BY <1>2, <2>1, EmptySeq
  <2>b. Tail(s)[Len(s) - 1] = s[(Len(s) - 1) + 1] /\ (Len(s) - 1) + 1 = Len(s)
    BY <1>1, <1>2, <2>1
  <2>2. Tail(s) # <<>> /\ Tail(s)[Len(s) - 1] = s[Len(s)]
    BY <2>a, <2>b
  <2>3. SubSeq(s, 1, Len(s) - 1) = <<Head(s)>> \o SubSeq(Tail(s), 1, Len(s) - 2)
    BY <1>1, <1>2, <1>6
  <2> QED
    BY <2>2, <2>3
<1> QED
  BY <1>1, <1>2, <1>3, <1>4, <1>5, <1>6

LEMMA Appended ==
  ASSUME NEW s \in Seq(Nat), NEW n \in Nat
  PROVE  /\ Append(s, n) \in Seq(Nat) /\ Append(s, n) # <<>> /\ Len(Append(s, n)) = Len(s) + 1
         /\ Append(s, n)[Len(s) + 1] = n
         /\ SubSeq(Append(s, n), 1, Len(s)) = s
  OBVIOUS

\* What is queued of a queue.
Behind(s) == IF s # <<>> /\ s[Len(s)] = 0 THEN SubSeq(s, 1, Len(s) - 1) ELSE s

LEMMA BehindTail ==
  ASSUME NEW s \in Seq(Nat), s # <<>>, Head(s) # 0
  PROVE  /\ Behind(s) = <<Head(s)>> \o Behind(Tail(s))
         /\ Behind(Tail(s)) \in Seq(Nat) /\ Len(Behind(s)) = Len(Behind(Tail(s))) + 1
<1> DEFINE t == Tail(s)
<1>1. /\ Len(s) \in Nat \ {0} /\ s[1] = Head(s) /\ s = <<Head(s)>> \o t
      /\ t \in Seq(Nat) /\ Len(t) = Len(s) - 1 /\ Head(s) \in Nat
  BY Ends
<1>2. CASE s[Len(s)] = 0
  <2>1. Len(s) # 1
    BY <1>1, <1>2
  <2>2. t # <<>> /\ t[Len(t)] = 0
    BY <1>1, <1>2, <2>1, Ends
  <2>3. Behind(s) = SubSeq(s, 1, Len(s) - 1) /\ Behind(t) = SubSeq(t, 1, Len(t) - 1)
    BY <1>2, <2>2 DEF Behind
  <2>4. SubSeq(s, 1, Len(s) - 1) = <<Head(s)>> \o SubSeq(t, 1, Len(s) - 2)
    BY <2>1, Ends
  <2>5. Len(t) - 1 = Len(s) - 2
    BY <1>1
  <2>6. Behind(s) = <<Head(s)>> \o Behind(t)
    BY <2>3, <2>4, <2>5
  <2>7. Behind(t) \in Seq(Nat) /\ Len(Behind(t)) = Len(s) - 2
    BY <1>1, <2>2, <2>3, <2>5, Ends
  <2>8. Len(Behind(s)) = Len(s) - 1
    BY <2>3, Ends
  <2> QED
    BY <1>1, <2>6, <2>7, <2>8
<1>3. CASE s[Len(s)] # 0
  <2>1. t # <<>> => t[Len(t)] # 0
    BY <1>1, <1>3, Ends
  <2>2. Behind(s) = s /\ Behind(t) = t
    BY <1>3, <2>1 DEF Behind
  <2>3. Len(s) = Len(t) + 1
    BY <1>1
  <2>4. Behind(s) = <<Head(s)>> \o Behind(t)
    BY <1>1, <2>2
  <2>5. Behind(t) \in Seq(Nat) /\ Len(Behind(s)) = Len(Behind(t)) + 1
    BY <1>1, <2>2, <2>3
  <2> QED
    BY <2>4, <2>5
<1> QED
  BY <1>2, <1>3

LEMMA QueueSteps ==
  ASSUME SinkTypes, SentinelLast
  PROVE  /\ queue' = queue => Sink!Queued' = Sink!Queued
         /\ \A n \in Nat \ {0} : ~shut /\ queue' = Append(queue, n) =>
              Sink!Queued = queue /\ Sink!Queued' = Append(queue, n)
         /\ ~shut /\ queue' = Append(queue, 0) => Sink!Queued = queue /\ Sink!Queued' = queue
         /\ queue # <<>> /\ Head(queue) # 0 /\ queue' = Tail(queue) =>
              /\ Sink!Queued = <<Head(queue)>> \o Sink!Queued'
              /\ Sink!Queued' \in Seq(Nat) /\ Len(Sink!Queued) = Len(Sink!Queued') + 1
         /\ queue # <<>> /\ Head(queue) = 0 /\ queue' = Tail(queue) =>
              queue' = <<>> /\ Sink!Queued = <<>> /\ Sink!Queued' = <<>>
<1>0. queue \in Seq(Nat) /\ Len(queue) \in Nat /\ DOMAIN queue = 1..Len(queue)
  BY DEF SinkTypes
<1>1. Sink!Queued = Behind(queue) /\ Sink!Queued' = Behind(queue')
  BY DEF Sink!Queued, Behind, Sink!Front, Sink!Last, Sink!Sentinel
<1>2. ASSUME ~shut PROVE Behind(queue) = queue
  <2>1. queue # <<>> => Len(queue) \in DOMAIN queue
    BY <1>0
  <2>2. queue # <<>> => queue[Len(queue)] # 0
    BY <1>2, <2>1 DEF SentinelLast
  <2> QED
    BY <2>2 DEF Behind
<1>4. ASSUME NEW n \in Nat \ {0}, queue' = Append(queue, n) PROVE Behind(queue') = Append(queue, n)
  <2>1. queue' # <<>> /\ Len(queue') = Len(queue) + 1 /\ queue'[Len(queue')] = n
    BY <1>0, <1>4, Appended
  <2> QED
    BY <1>4, <2>1 DEF Behind
<1>5. ASSUME queue' = Append(queue, 0) PROVE Behind(queue') = queue
  <2>1. /\ queue' # <<>> /\ Len(queue') = Len(queue) + 1 /\ queue'[Len(queue')] = 0
        /\ SubSeq(queue', 1, Len(queue)) = queue
    BY <1>0, <1>5, Appended
  <2>2. Len(queue') - 1 = Len(queue)
    BY <1>0, <2>1
  <2> QED
    BY <2>1, <2>2 DEF Behind
<1>6. ASSUME queue # <<>>, Head(queue) # 0, queue' = Tail(queue)
      PROVE  /\ Behind(queue) = <<Head(queue)>> \o Behind(queue')
             /\ Behind(queue') \in Seq(Nat) /\ Len(Behind(queue)) = Len(Behind(queue')) + 1
  BY <1>0, <1>6, BehindTail
<1>7. ASSUME queue # <<>>, Head(queue) = 0, queue' = Tail(queue)
      PROVE  queue' = <<>> /\ Behind(queue) = <<>> /\ Behind(queue') = <<>>
  <2>1. Len(queue) = 1 /\ queue[1] = 0
    BY <1>0, <1>7 DEF SentinelLast
  <2>2. queue' = <<>> /\ SubSeq(queue, 1, Len(queue) - 1) = <<>>
    BY <1>0, <1>7, <2>1, Ends
  <2> QED
    BY <1>7, <2>1, <2>2 DEF Behind
<1> QED
  BY <1>1, <1>2, <1>4, <1>5, <1>6, <1>7

\* The steps of AuditTrail, in the words of the sink.
LEMMA TrailSteps ==
  ASSUME \/ Sink!Waiting' = Sink!Waiting /\ Sink!Lost' = Sink!Lost /\ lines' = lines /\ stream' = stream
         \/ /\ lines < Lines /\ lines' = lines + 1 /\ Sink!Waiting' = Append(Sink!Waiting, lines + 1)
            /\ Sink!Lost' = Sink!Lost /\ stream' = stream
         \/ /\ lines < Lines /\ lines' = lines + 1 /\ Sink!Waiting' = Sink!Waiting
            /\ Sink!Lost' = Sink!Lost + 1 /\ stream' = stream
         \/ /\ Sink!Waiting # <<>> /\ Sink!Waiting' = Tail(Sink!Waiting) /\ lines' = lines
            /\ \/ stream' = Append(stream, Sink!LineEntry(Head(Sink!Waiting))) /\ Sink!Lost' = Sink!Lost
               \/ stream' = stream /\ Sink!Lost' = Sink!Lost + 1
         \/ /\ Sink!Waiting' = Sink!Waiting /\ lines' = lines
            /\ \E n \in 1..Sink!Lost : stream' = Append(stream, Sink!DropMarker(n)) /\ Sink!Lost' = Sink!Lost - n
  PROVE  Sink!TrailStep
BY DEF Sink!TrailStep, Sink!Trail!Next, Sink!Trail!Accept, Sink!Trail!Lose, Sink!Trail!Land,
       Sink!Trail!Miss, Sink!Trail!Report, Sink!Trail!trail, Sink!Trail!LineEntry,
       Sink!Trail!DropMarker, Sink!LineEntry, Sink!DropMarker

\* A line of the queue or in hand is one of those submitted.
LEMMA Numbered ==
  ASSUME SinkTypes
  PROVE  /\ Lines \in Nat /\ lines \in Nat
         /\ \A i \in DOMAIN queue : queue[i] # 0 => queue[i] \in 1..Lines /\ before[queue[i]] \in Nat
         /\ item # 0 => item \in 1..Lines /\ before[item] \in Nat
<1>1. Lines \in Nat
  BY ClientAssumption DEF Sink!SinkAssumption
<1>2. lines \in Nat /\ lines <= Lines
  BY <1>1 DEF SinkTypes
<1>3. \A n \in 1..Lines : before[n] \in Nat
  BY DEF SinkTypes
<1>4. \A i \in DOMAIN queue : queue[i] \in 0..lines
  BY DEF SinkTypes
<1>5. item \in 0..lines
  BY DEF SinkTypes
<1> QED
  BY <1>1, <1>2, <1>3, <1>4, <1>5

\* submit keeps the invariant and is a step of AuditTrail, or none.
LEMMA Submits ==
  ASSUME SinkInv, Sink!Submit PROVE SinkInv' /\ Sink!TrailStep
<1> DEFINE n == lines + 1
<1>1. /\ lines \in Nat /\ lines < Lines /\ n \in 1..Lines /\ n \in Nat \ {0} /\ ~shut /\ lines' = n
      /\ queue' = Append(queue, n) /\ queue \in Seq(0..lines) /\ pending' = pending + 1
      /\ dropped' = dropped /\ shut' = shut /\ item' = item /\ owed' = owed /\ landed' = landed
      /\ failed' = failed /\ asks' = asks /\ asked' = asked /\ marked' = marked /\ stream' = stream
      /\ writer' = TRUE /\ before' = [before EXCEPT ![n] = marked + owed + dropped]
  BY Numbered DEF SinkInv, SinkTypes, Sink!Submit, Sink!thread, Sink!calls
<1>2. writerPc' = writerPc \/ (writerPc = "unborn" /\ writerPc' = "get")
  BY DEF SinkInv, SentinelLast, Sink!Submit
<1>3. Sink!Queued = queue /\ Sink!Queued' = Append(queue, n)
  BY <1>1, QueueSteps DEF SinkInv
<1>4. /\ DOMAIN queue = 1..Len(queue) /\ Len(queue) \in Nat /\ DOMAIN queue' = 1..(Len(queue) + 1)
      /\ Len(queue') = Len(queue) + 1 /\ queue'[Len(queue) + 1] = n
      /\ \A i \in DOMAIN queue : queue'[i] = queue[i] /\ queue[i] \in 0..lines
  BY <1>1
<1>5. SinkTypes'
  <2>1. queue' \in Seq(0..n) /\ n \in 0..Lines /\ item \in 0..n
    BY <1>1 DEF SinkInv, SinkTypes
  <2>2. before' \in [1..Lines -> Nat]
    BY <1>1 DEF SinkInv, SinkTypes
  <2>3. asked \in [Thread -> 0..n]
    BY <1>1 DEF SinkInv, SinkTypes
  <2>4. writerPc' \in {"unborn", "get", "report", "mark", "restore", "write", "settle", "done"}
    BY <1>2 DEF SinkInv, SinkTypes
  <2>5. pending' \in Nat
    BY <1>1 DEF SinkInv, SinkTypes
  <2> QED
    BY <1>1, <2>1, <2>2, <2>3, <2>4, <2>5 DEF SinkInv, SinkTypes
<1>6. Busy' <=> Busy
  BY <1>2 DEF Busy
<1>7. SentinelLast'
  <2>1. \A i \in DOMAIN queue' : queue'[i] # 0
    BY <1>1, <1>4 DEF SinkInv, SentinelLast
  <2> QED
    BY <1>1, <1>2, <1>6, <2>1 DEF SinkInv, SentinelLast
<1>8. PendingCounts'
  <2>1. Len(Sink!Queued') = Len(Sink!Queued) + 1
    BY <1>3, <1>4, <1>1
  <2>2. Len(Sink!Queued) \in Nat
    BY <1>3, <1>4
  <2> QED
    BY <1>1, <1>6, <2>1, <2>2 DEF SinkInv, PendingCounts
<1>9. DropsFollowed'
  <2>1. ASSUME NEW i \in DOMAIN queue', queue'[i] # 0
        PROVE  before'[queue'[i]] <= marked + owed + dropped
    <3>1. CASE i = Len(queue) + 1
      BY <1>1, <1>4, <3>1 DEF SinkInv, SinkTypes
    <3>2. CASE i # Len(queue) + 1
      <4>1. i \in DOMAIN queue /\ queue'[i] = queue[i] /\ queue[i] # n
        BY <1>1, <1>4, <3>2
      <4>2. before'[queue[i]] = before[queue[i]]
        BY <1>1, <4>1 DEF SinkInv, SinkTypes
      <4> QED
        BY <2>1, <4>1, <4>2 DEF SinkInv, DropsFollowed
    <3> QED
      BY <3>1, <3>2
  <2>2. before'[item] = before[item] \/ item = 0
    BY <1>1 DEF SinkInv, SinkTypes
  <2> QED
    BY <1>1, <1>2, <2>1, <2>2 DEF SinkInv, DropsFollowed
<1>10. Sink!InHand' <=> Sink!InHand
  BY <1>1, <1>2 DEF Sink!InHand, Sink!Sentinel
<1>11. DrainedAhead'
  <2> SUFFICES ASSUME NEW c \in Thread, asks[c] = "drained"
               PROVE  /\ \A i \in DOMAIN queue' : queue'[i] # 0 => queue'[i] > asked[c]
                      /\ Sink!InHand => item > asked[c]
    BY <1>1, <1>10 DEF DrainedAhead
  <2>1. asked[c] \in 0..lines
    BY DEF SinkInv, SinkTypes
  <2>2. n > asked[c]
    BY <1>1, <2>1
  <2> QED
    BY <1>4, <2>2 DEF SinkInv, DrainedAhead
<1>12. Sink!Waiting' = Append(Sink!Waiting, n)
  <2>1. CASE Sink!InHand
    <3>1. <<item>> \o Append(queue, n) = Append(<<item>> \o queue, n)
      BY <1>1 DEF SinkInv, SinkTypes
    <3> QED
      BY <1>1, <1>3, <1>10, <2>1, <3>1 DEF Sink!Waiting
  <2>2. CASE ~Sink!InHand
    BY <1>3, <1>10, <2>2 DEF Sink!Waiting
  <2> QED
    BY <2>1, <2>2
<1>13. Sink!Lost' = Sink!Lost
  BY <1>1, <1>2 DEF Sink!Lost
<1> QED
  BY <1>1, <1>5, <1>7, <1>8, <1>9, <1>11, <1>12, <1>13, TrailSteps DEF SinkInv

\* A step that leaves the queue, the item and the writer's place alone.
LEMMA Aside ==
  ASSUME SinkInv, UNCHANGED <<queue, item, writerPc, landed, pending, shut, failed, marked, owed>>
  PROVE  /\ Busy' = Busy /\ Sink!Queued' = Sink!Queued /\ Sink!InHand' = Sink!InHand
         /\ Sink!Waiting' = Sink!Waiting /\ PendingCounts'
<1>1. Sink!Queued' = Sink!Queued
  BY QueueSteps DEF SinkInv
<1>2. Sink!InHand' = Sink!InHand /\ Busy' = Busy
  BY DEF Sink!InHand, Busy
<1>3. Sink!Waiting' = Sink!Waiting
  BY <1>1, <1>2 DEF Sink!Waiting
<1>4. PendingCounts'
  BY <1>1, <1>2 DEF SinkInv, PendingCounts
<1> QED
  BY <1>1, <1>2, <1>3, <1>4

\* A line refused or handed back.
LEMMA Refuses ==
  ASSUME SinkInv, Sink!Refuse \/ Sink!SubmitRaises PROVE SinkInv' /\ Sink!TrailStep
<1>1. CASE Sink!Refuse
  <2>1. /\ lines < Lines /\ lines' = lines + 1 /\ dropped' = dropped + 1
        /\ UNCHANGED <<queue, pending, shut, writer, writerPc, item, owed, landed, failed, asks, asked,
                       marked, before, stream>>
    BY <1>1 DEF Sink!Refuse, Sink!thread, Sink!calls
  <2>2. /\ Busy' = Busy /\ Sink!InHand' = Sink!InHand /\ Sink!Waiting' = Sink!Waiting /\ PendingCounts'
    BY <2>1, Aside
  <2>3. SinkTypes'
    <3>1. queue \in Seq(0..(lines + 1)) /\ lines + 1 \in 0..Lines /\ item \in 0..(lines + 1)
      BY <2>1, Numbered DEF SinkInv, SinkTypes
    <3>2. asked \in [Thread -> 0..(lines + 1)]
      BY <2>1, Numbered DEF SinkInv, SinkTypes
    <3> QED
      BY <2>1, <3>1, <3>2 DEF SinkInv, SinkTypes
  <2>4. SentinelLast' /\ DrainedAhead'
    BY <2>1, <2>2 DEF SinkInv, SentinelLast, DrainedAhead
  <2>5. DropsFollowed'
    <3>1. \A i \in DOMAIN queue : queue[i] # 0 => before[queue[i]] \in Nat
      BY Numbered DEF SinkInv
    <3>2. item # 0 => before[item] \in Nat
      BY Numbered DEF SinkInv
    <3> QED
      BY <2>1, <3>1, <3>2 DEF SinkInv, SinkTypes, DropsFollowed
  <2>6. Sink!Lost' = Sink!Lost + 1
    BY <2>1 DEF SinkInv, SinkTypes, Sink!Lost
  <2> QED
    BY <2>1, <2>2, <2>3, <2>4, <2>5, <2>6, TrailSteps DEF SinkInv
<1>2. CASE Sink!SubmitRaises
  <2>1. /\ writer' = TRUE
        /\ UNCHANGED <<queue, pending, dropped, shut, writerPc, item, owed, landed, failed, asks, asked,
                       lines, marked, before, stream>>
    BY <1>2 DEF Sink!SubmitRaises, Sink!thread, Sink!calls, Sink!past
  <2>2. /\ Busy' = Busy /\ Sink!InHand' = Sink!InHand /\ Sink!Waiting' = Sink!Waiting /\ PendingCounts'
    BY <2>1, Aside
  <2>3. SinkTypes' /\ DropsFollowed'
    BY <2>1 DEF SinkInv, SinkTypes, DropsFollowed
  <2>4. SentinelLast' /\ DrainedAhead'
    BY <2>1, <2>2 DEF SinkInv, SentinelLast, DrainedAhead
  <2>5. Sink!Lost' = Sink!Lost
    BY <2>1 DEF Sink!Lost
  <2> QED
    BY <2>1, <2>2, <2>3, <2>4, <2>5, TrailSteps DEF SinkInv
<1> QED
  BY <1>1, <1>2

\* The writer takes an item.
LEMMA Takes ==
  ASSUME SinkInv, Sink!Get PROVE SinkInv' /\ Sink!TrailStep
<1>1. /\ writerPc = "get" /\ writerPc' = "report" /\ queue # <<>> /\ item' = Head(queue) /\ queue' = Tail(queue)
      /\ failed' = FALSE /\ ~Busy /\ Busy' /\ ~Sink!InHand /\ owed = 0 /\ (Sink!InHand' <=> item' # 0)
      /\ UNCHANGED <<pending, dropped, shut, writer, owed, landed, asks, asked, lines, marked, before, stream>>
  BY DEF SinkInv, DropsFollowed, Sink!Get, Sink!calls, Sink!past, Busy, Sink!InHand, Sink!Sentinel
<1>2. /\ queue \in Seq(Nat) /\ Len(queue) \in Nat \ {0} /\ DOMAIN queue = 1..Len(queue)
      /\ \A i \in DOMAIN queue : queue[i] \in 0..lines
  BY <1>1 DEF SinkInv, SinkTypes
<1>3. /\ queue[1] = Head(queue) /\ Len(queue') = Len(queue) - 1 /\ DOMAIN queue' = 1..(Len(queue) - 1)
      /\ \A i \in DOMAIN queue' : i + 1 \in DOMAIN queue /\ queue'[i] = queue[i + 1]
      /\ 1 \in DOMAIN queue
  BY <1>1, <1>2, Ends
<1>4. SinkTypes'
  <2>1. queue' \in Seq(0..lines) /\ item' \in 0..lines
    BY <1>1, <1>2, <1>3 DEF SinkInv, SinkTypes
  <2> QED
    BY <1>1, <2>1 DEF SinkInv, SinkTypes
<1>5. item' = 0 => queue' = <<>> /\ Sink!Queued = <<>> /\ Sink!Queued' = <<>> /\ shut
  <2>1. item' = 0 => shut
    BY <1>1, <1>3 DEF SinkInv, SentinelLast
  <2> QED
    BY <1>1, <2>1, QueueSteps DEF SinkInv
<1>6. item' # 0 => /\ Sink!Queued = <<item'>> \o Sink!Queued' /\ Sink!Queued' \in Seq(Nat)
                   /\ Len(Sink!Queued) = Len(Sink!Queued') + 1
  BY <1>1, QueueSteps DEF SinkInv
<1>7. SentinelLast'
  <2>1. \A i \in DOMAIN queue' : queue'[i] = 0 => shut /\ i = Len(queue')
    BY <1>2, <1>3 DEF SinkInv, SentinelLast
  <2> QED
    BY <1>1, <1>5, <2>1 DEF SinkInv, SentinelLast
<1>8. PendingCounts'
  <2>1. pending = Len(Sink!Queued)
    BY <1>1 DEF SinkInv, PendingCounts, SinkTypes
  <2>2. CASE item' = 0
    BY <1>1, <1>5, <2>1, <2>2 DEF PendingCounts
  <2>3. CASE item' # 0
    BY <1>1, <1>6, <2>1, <2>3 DEF PendingCounts
  <2> QED
    BY <2>2, <2>3
<1>9. DropsFollowed'
  <2>1. \A i \in DOMAIN queue' : queue'[i] # 0 => before[queue'[i]] <= marked + owed + dropped
    BY <1>3 DEF SinkInv, DropsFollowed
  <2>2. item' # 0 => before[item'] <= marked + owed + dropped
    BY <1>1, <1>3 DEF SinkInv, DropsFollowed
  <2>3. marked + owed + dropped = marked + dropped
    BY <1>1 DEF SinkInv, SinkTypes
  <2> QED
    BY <1>1, <2>1, <2>2, <2>3 DEF DropsFollowed
<1>10. DrainedAhead'
  BY <1>1, <1>3 DEF SinkInv, DrainedAhead
<1>11. Sink!Waiting' = Sink!Waiting
  BY <1>1, <1>5, <1>6 DEF Sink!Waiting
<1>12. Sink!Lost' = Sink!Lost
  BY <1>1 DEF Sink!Lost
<1> QED
  BY <1>1, <1>4, <1>7, <1>8, <1>9, <1>10, <1>11, <1>12, TrailSteps DEF SinkInv

\* A step of the writer that keeps its item and leaves the queue alone.
LEMMA Onwards ==
  ASSUME SinkInv, UNCHANGED <<queue, item, pending, shut, writer, landed, asks, asked, lines, before>>,
         writerPc \in {"report", "mark", "restore"},
         writerPc' \in {"mark", "restore"} \/ (item = 0 /\ writerPc' = "done") \/ (item # 0 /\ writerPc' = "write"),
         dropped' \in Nat, owed' \in Nat, marked' \in Nat, failed' \in BOOLEAN
  PROVE  /\ SinkTypes' /\ SentinelLast' /\ PendingCounts' /\ DrainedAhead'
         /\ Sink!Waiting' = Sink!Waiting
<1>1. Sink!Queued' = Sink!Queued
  BY QueueSteps DEF SinkInv
<1>2. SinkTypes'
  BY DEF SinkInv, SinkTypes
<1>3. Busy /\ (Busy' \/ (item = 0 /\ writerPc' = "done"))
  BY DEF Busy
<1>4. Sink!InHand' = Sink!InHand
  BY DEF Sink!InHand, Sink!Sentinel
<1>5. SentinelLast'
  BY <1>3 DEF SinkInv, SentinelLast
<1>6. PendingCounts'
  BY <1>1, <1>3 DEF SinkInv, PendingCounts
<1>7. DrainedAhead'
  BY <1>4 DEF SinkInv, DrainedAhead
<1>8. Sink!Waiting' = Sink!Waiting
  BY <1>1, <1>4 DEF Sink!Waiting
<1> QED
  BY <1>2, <1>5, <1>6, <1>7, <1>8

\* The writer reports the drops it finds counted, or puts them back.
LEMMA TellsDrops ==
  ASSUME SinkInv, Sink!TakeOwed \/ Sink!MarkLands \/ Sink!MarkFails \/ Sink!RestoreOwed
  PROVE  SinkInv' /\ Sink!TrailStep
<1>0. /\ dropped \in Nat /\ owed \in Nat /\ marked \in Nat /\ failed \in BOOLEAN
      /\ \A i \in DOMAIN queue : queue[i] # 0 => before[queue[i]] \in Nat
      /\ item # 0 => before[item] \in Nat
  <2>1. dropped \in Nat /\ owed \in Nat /\ marked \in Nat /\ failed \in BOOLEAN
    BY DEF SinkInv, SinkTypes
  <2> QED
    BY <2>1, Numbered DEF SinkInv
<1>1. CASE Sink!TakeOwed
  <2>1. /\ writerPc = "report" /\ owed' = dropped /\ dropped' = 0 /\ owed = 0 /\ writerPc # "settle" /\ writerPc' # "settle"
        /\ IF dropped = 0 THEN (item = 0 /\ writerPc' = "done") \/ (item # 0 /\ writerPc' = "write")
           ELSE writerPc' = "mark"
        /\ UNCHANGED <<queue, item, pending, shut, writer, landed, asks, asked, lines, before, failed, marked, stream>>
    BY <1>1 DEF SinkInv, DropsFollowed, Sink!TakeOwed, Sink!Onward, Sink!Sentinel, Sink!calls, Sink!past
  <2>2. SinkTypes' /\ SentinelLast' /\ PendingCounts' /\ DrainedAhead' /\ Sink!Waiting' = Sink!Waiting
    BY <1>0, <2>1, Onwards
  <2>3. DropsFollowed'
    BY <1>0, <2>1 DEF SinkInv, DropsFollowed
  <2>4. Sink!Lost' = Sink!Lost
    BY <1>0, <2>1 DEF Sink!Lost
  <2> QED
    BY <2>1, <2>2, <2>3, <2>4, TrailSteps DEF SinkInv
<1>2. CASE Sink!MarkLands
  <2>1. /\ writerPc = "mark" /\ owed # 0 /\ owed' = 0 /\ marked' = marked + owed /\ writerPc # "settle" /\ writerPc' # "settle"
        /\ (item = 0 /\ writerPc' = "done") \/ (item # 0 /\ writerPc' = "write")
        /\ stream' = Append(stream, Sink!DropMarker(owed))
        /\ UNCHANGED <<queue, item, pending, shut, writer, landed, asks, asked, lines, before, failed, dropped>>
    BY <1>2 DEF SinkInv, DropsFollowed, Sink!MarkLands, Sink!Onward, Sink!Sentinel, Sink!calls
  <2>2. SinkTypes' /\ SentinelLast' /\ PendingCounts' /\ DrainedAhead' /\ Sink!Waiting' = Sink!Waiting
    BY <1>0, <2>1, Onwards
  <2>3. DropsFollowed'
    BY <1>0, <2>1 DEF SinkInv, DropsFollowed
  <2>4. Sink!Lost = dropped + owed /\ Sink!Lost' = dropped
    BY <1>0, <2>1 DEF Sink!Lost
  <2>5. owed \in 1..Sink!Lost /\ Sink!Lost' = Sink!Lost - owed
    BY <1>0, <2>1, <2>4
  <2> QED
    BY <2>1, <2>2, <2>3, <2>5, TrailSteps DEF SinkInv
<1>3. CASE Sink!MarkFails
  <2>1. /\ writerPc = "mark" /\ writerPc' = "restore" /\ failed' = TRUE
        /\ UNCHANGED <<queue, item, pending, shut, writer, landed, asks, asked, lines, before, dropped, owed,
                       marked, stream>>
    BY <1>3 DEF Sink!MarkFails, Sink!calls, Sink!past
  <2>2. SinkTypes' /\ SentinelLast' /\ PendingCounts' /\ DrainedAhead' /\ Sink!Waiting' = Sink!Waiting
    BY <1>0, <2>1, Onwards
  <2>3. DropsFollowed' /\ Sink!Lost' = Sink!Lost
    BY <1>0, <2>1 DEF SinkInv, DropsFollowed, Sink!Lost
  <2> QED
    BY <2>1, <2>2, <2>3, TrailSteps DEF SinkInv
<1>4. CASE Sink!RestoreOwed
  <2>1. /\ writerPc = "restore" /\ failed /\ dropped' = dropped + owed /\ owed' = 0 /\ writerPc' # "settle"
        /\ (item = 0 /\ writerPc' = "done") \/ (item # 0 /\ writerPc' = "write")
        /\ UNCHANGED <<queue, item, pending, shut, writer, landed, asks, asked, lines, before, failed, marked, stream>>
    BY <1>4 DEF SinkInv, DropsFollowed, Sink!RestoreOwed, Sink!Onward, Sink!Sentinel, Sink!calls, Sink!past
  <2>2. SinkTypes' /\ SentinelLast' /\ PendingCounts' /\ DrainedAhead' /\ Sink!Waiting' = Sink!Waiting
    BY <1>0, <2>1, Onwards
  <2>3. DropsFollowed' /\ Sink!Lost' = Sink!Lost
    BY <1>0, <2>1 DEF SinkInv, DropsFollowed, Sink!Lost
  <2> QED
    BY <2>1, <2>2, <2>3, TrailSteps DEF SinkInv
<1> QED
  BY <1>1, <1>2, <1>3, <1>4

\* The writer writes its line and settles it.
LEMMA Writes ==
  ASSUME SinkInv, Sink!Write \/ Sink!Settle PROVE SinkInv' /\ Sink!TrailStep
<1>1. CASE Sink!Write
  <2>1. /\ writerPc = "write" /\ writerPc' = "settle" /\ item # 0 /\ landed' \in BOOLEAN
        /\ stream' = IF landed' THEN Append(stream, Sink!LineEntry(item)) ELSE stream
        /\ UNCHANGED <<queue, item, pending, dropped, shut, writer, owed, failed, asks, asked, lines, marked, before>>
    BY <1>1 DEF SinkInv, SentinelLast, Sink!Write, Sink!calls
  <2>2. Sink!Queued' = Sink!Queued /\ Sink!Queued \in Seq(1..lines)
    BY <2>1, QueueSteps, QueuedIs DEF SinkInv
  <2>3. SinkTypes' /\ SentinelLast' /\ DropsFollowed'
    BY <2>1 DEF SinkInv, SinkTypes, SentinelLast, DropsFollowed, Busy
  <2>4. PendingCounts'
    BY <2>1, <2>2 DEF SinkInv, PendingCounts, Busy
  <2>5. Sink!InHand /\ ~Sink!InHand'
    BY <2>1 DEF Sink!InHand, Sink!Sentinel
  <2>6. DrainedAhead'
    BY <2>1, <2>5 DEF SinkInv, DrainedAhead
  <2>7. Sink!Waiting = <<item>> \o Sink!Queued /\ Sink!Waiting' = Sink!Queued
    BY <2>2, <2>5 DEF Sink!Waiting
  <2>8. Sink!Waiting # <<>> /\ Sink!Waiting' = Tail(Sink!Waiting) /\ Head(Sink!Waiting) = item
    BY <2>2, <2>7 DEF SinkInv, SinkTypes
  <2>9. Sink!Lost' = IF landed' THEN Sink!Lost ELSE Sink!Lost + 1
    BY <2>1 DEF SinkInv, SinkTypes, Sink!Lost
  <2> QED
    BY <2>1, <2>3, <2>4, <2>6, <2>8, <2>9, TrailSteps DEF SinkInv
<1>2. CASE Sink!Settle
  <2>1. /\ writerPc = "settle" /\ writerPc' = "get" /\ item # 0 /\ pending' = pending - 1
        /\ dropped' = IF landed THEN dropped ELSE dropped + 1
        /\ UNCHANGED <<queue, item, landed, shut, writer, owed, failed, asks, asked, lines, marked, before, stream>>
    BY <1>2 DEF SinkInv, SentinelLast, Sink!Settle, Sink!calls, Sink!past
  <2>2. Sink!Queued' = Sink!Queued /\ Len(Sink!Queued) \in Nat
    BY <2>1, QueueSteps, QueuedIs DEF SinkInv
  <2>3. Busy /\ ~Busy' /\ ~Sink!InHand /\ ~Sink!InHand'
    BY <2>1 DEF Busy, Sink!InHand
  <2>4. pending = Len(Sink!Queued) + 1 /\ pending' = Len(Sink!Queued)
    BY <2>1, <2>2, <2>3 DEF SinkInv, PendingCounts
  <2>5. PendingCounts'
    BY <2>2, <2>3, <2>4 DEF PendingCounts
  <2>6. dropped' \in Nat /\ dropped' >= dropped
    BY <2>1 DEF SinkInv, SinkTypes
  <2>7. SinkTypes'
    BY <2>1, <2>2, <2>4, <2>6 DEF SinkInv, SinkTypes
  <2>8. SentinelLast' /\ DrainedAhead'
    BY <2>1, <2>3 DEF SinkInv, SentinelLast, DrainedAhead
  <2>9. DropsFollowed'
    <3>1. \A i \in DOMAIN queue : queue[i] # 0 => before[queue[i]] \in Nat
      BY Numbered DEF SinkInv
    <3>2. item # 0 => before[item] \in Nat
      BY Numbered DEF SinkInv
    <3>3. marked \in Nat /\ owed \in Nat /\ dropped \in Nat
      BY DEF SinkInv, SinkTypes
    <3> QED
      BY <2>1, <2>6, <3>1, <3>2, <3>3 DEF SinkInv, DropsFollowed
  <2>10. Sink!Waiting' = Sink!Waiting
    BY <2>2, <2>3 DEF Sink!Waiting
  <2>11. Sink!Lost' = Sink!Lost
    BY <2>1 DEF SinkInv, SinkTypes, Sink!Lost
  <2> QED
    BY <2>1, <2>5, <2>7, <2>8, <2>9, <2>10, <2>11, TrailSteps DEF SinkInv
<1> QED
  BY <1>1, <1>2

\* drain answers True only when nothing is pending, and then nothing is waiting.
LEMMA NothingPending ==
  ASSUME SinkInv, pending = 0
  PROVE  (\A i \in DOMAIN queue : queue[i] = 0) /\ ~Sink!InHand
<1>1. Sink!Queued \in Seq(1..lines) /\ Len(Sink!Queued) \in Nat
  BY QueuedIs DEF SinkInv
<1>2. Len(Sink!Queued) = 0 /\ ~(Busy /\ item # 0)
  BY <1>1 DEF SinkInv, PendingCounts
<1>3. ~Sink!InHand
  BY <1>2 DEF Sink!InHand, Busy, Sink!Sentinel
<1>4. DOMAIN Sink!Queued = {}
  BY <1>1, <1>2
<1> QED
  BY <1>3, <1>4, QueuedIs DEF SinkInv

\* The callers of drain and close, and the reader of stderr.
LEMMA Calls ==
  ASSUME SinkInv, NEW c \in Thread,
         \/ Sink!Drain(c) \/ Sink!DrainEnds(c) \/ Sink!Close(c) \/ Sink!CloseEnds(c) \/ Sink!CloseRaises(c)
  PROVE  SinkInv' /\ Sink!TrailStep
<1>1. CASE Sink!Drain(c) \/ Sink!DrainEnds(c)
  <2>1. /\ UNCHANGED <<queue, item, pending, dropped, shut, writer, writerPc, owed, landed, failed, lines, marked,
                       before, stream>>
        /\ \E v \in {"draining", Sink!Drained} : asks' = [asks EXCEPT ![c] = v]
        /\ asked' = asked \/ asked' = [asked EXCEPT ![c] = lines]
    BY <1>1 DEF Sink!Drain, Sink!DrainEnds, Sink!thread, Sink!past
  <2>2. /\ Busy' = Busy /\ Sink!InHand' = Sink!InHand /\ Sink!Waiting' = Sink!Waiting /\ PendingCounts'
    BY <2>1, Aside
  <2>3. SinkTypes'
    <3>1. asks' \in [Thread -> {"idle", "draining", "drained", "undrained", "joining", "closed", "raised"}]
      BY <2>1 DEF SinkInv, SinkTypes, Sink!Drained
    <3>2. asked' \in [Thread -> 0..lines]
      <4>1. lines \in 0..lines /\ asked \in [Thread -> 0..lines]
        BY Numbered DEF SinkInv, SinkTypes
      <4> QED
        BY <2>1, <4>1
    <3> QED
      BY <2>1, <3>1, <3>2 DEF SinkInv, SinkTypes
  <2>4. SentinelLast' /\ DropsFollowed' /\ Sink!Lost' = Sink!Lost
    BY <2>1, <2>2 DEF SinkInv, SentinelLast, DropsFollowed, Sink!Lost
  <2>5. DrainedAhead'
    <3> SUFFICES ASSUME NEW d \in Thread, asks'[d] = "drained"
                 PROVE  /\ \A i \in DOMAIN queue : queue[i] # 0 => queue[i] > asked'[d]
                        /\ Sink!InHand => item > asked'[d]
      BY <2>1, <2>2 DEF DrainedAhead
    <3>1. CASE d = c
      <4>1. pending = 0
        BY <2>1, <3>1 DEF SinkInv, SinkTypes, Sink!Drained
      <4> QED
        BY <4>1, NothingPending
    <3>2. CASE d # c
      <4>1. asks[d] = "drained" /\ asked'[d] = asked[d]
        BY <2>1, <3>2 DEF SinkInv, SinkTypes
      <4> QED
        BY <4>1 DEF SinkInv, DrainedAhead
    <3> QED
      BY <3>1, <3>2
  <2> QED
    BY <2>1, <2>2, <2>3, <2>4, <2>5, TrailSteps DEF SinkInv
<1>2. CASE Sink!Close(c)
  <2>1. /\ UNCHANGED <<item, pending, dropped, writer, writerPc, owed, landed, failed, asked, lines, marked,
                       before, stream>>
        /\ shut' = TRUE
        /\ (queue' = queue /\ (writer => shut)) \/ (queue' = Append(queue, 0) /\ writer /\ ~shut)
        /\ \E v \in {"joining", "closed"} : asks' = [asks EXCEPT ![c] = v]
    <3>1. shut' = TRUE /\ ((queue' = queue /\ (writer => shut)) \/ (queue' = Append(queue, 0) /\ writer /\ ~shut))
      BY <1>2 DEF SinkInv, SinkTypes, Sink!Close, Sink!Sentinel
    <3>2. \E v \in {"joining", "closed"} : asks' = [asks EXCEPT ![c] = v]
      BY <1>2 DEF Sink!Close
    <3>3. UNCHANGED <<item, pending, dropped, writer, writerPc, owed, landed, failed, asked, lines, marked,
                      before, stream>>
      BY <1>2 DEF Sink!Close, Sink!thread, Sink!past
    <3> QED
      BY <3>1, <3>2, <3>3
  <2>2. Sink!Queued' = Sink!Queued
    BY <2>1, QueueSteps DEF SinkInv
  <2>3. Busy' = Busy /\ Sink!InHand' = Sink!InHand /\ Sink!Waiting' = Sink!Waiting /\ Sink!Lost' = Sink!Lost
    BY <2>1, <2>2 DEF Busy, Sink!InHand, Sink!Waiting, Sink!Lost
  <2>4. PendingCounts'
    BY <2>1, <2>2, <2>3 DEF SinkInv, PendingCounts
  <2>a. /\ Len(queue) \in Nat /\ DOMAIN queue = 1..Len(queue) /\ queue \in Seq(0..lines) /\ 0 \in 0..lines
    BY Numbered DEF SinkInv, SinkTypes
  <2>b. queue' = Append(queue, 0) =>
          /\ queue' \in Seq(0..lines) /\ Len(queue') = Len(queue) + 1 /\ DOMAIN queue' = 1..(Len(queue) + 1)
          /\ queue'[Len(queue) + 1] = 0 /\ \A i \in 1..Len(queue) : queue'[i] = queue[i]
    BY <2>a
  <2>5. /\ queue' \in Seq(0..lines)
        /\ \A i \in DOMAIN queue' : queue'[i] # 0 => i \in DOMAIN queue /\ queue'[i] = queue[i]
    BY <2>1, <2>a, <2>b
  <2>6. SinkTypes'
    <3>1. asks' \in [Thread -> {"idle", "draining", "drained", "undrained", "joining", "closed", "raised"}]
      BY <2>1 DEF SinkInv, SinkTypes
    <3> QED
      BY <2>1, <2>5, <3>1 DEF SinkInv, SinkTypes
  <2>7. SentinelLast'
    <3>1. CASE queue' = queue
      BY <2>1, <2>3, <3>1 DEF SinkInv, SentinelLast
    <3>2. CASE queue' = Append(queue, 0) /\ ~shut
      <4>1. \A i \in 1..Len(queue) : queue[i] # 0
        BY <2>a, <3>2 DEF SinkInv, SentinelLast
      <4>2. \A i \in DOMAIN queue' : queue'[i] = 0 => i = Len(queue')
        BY <2>a, <2>b, <3>2, <4>1
      <4> QED
        BY <2>1, <2>3, <3>2, <4>2 DEF SinkInv, SentinelLast
    <3> QED
      BY <2>1, <3>1, <3>2
  <2>8. DropsFollowed'
    BY <2>1, <2>5 DEF SinkInv, DropsFollowed
  <2>9. DrainedAhead'
    <3>1. \A d \in Thread : asks'[d] = "drained" => asks[d] = "drained"
      BY <2>1 DEF SinkInv, SinkTypes
    <3> QED
      BY <2>1, <2>3, <2>5, <3>1 DEF SinkInv, DrainedAhead
  <2> QED
    BY <2>1, <2>3, <2>4, <2>6, <2>7, <2>8, <2>9, TrailSteps DEF SinkInv
<1>3. CASE Sink!CloseEnds(c) \/ Sink!CloseRaises(c)
  <2>1. /\ UNCHANGED <<queue, item, pending, dropped, shut, writerPc, owed, landed, failed, asked, lines, marked,
                       before, stream>>
        /\ writer' \in BOOLEAN /\ (writer' = writer \/ writerPc = "done" \/ ~writer)
        /\ \E v \in {"closed", "raised"} : asks' = [asks EXCEPT ![c] = v]
    BY <1>3 DEF SinkInv, SinkTypes, Sink!CloseEnds, Sink!CloseRaises, Sink!thread, Sink!past
  <2>2. /\ Busy' = Busy /\ Sink!InHand' = Sink!InHand /\ Sink!Waiting' = Sink!Waiting /\ PendingCounts'
    BY <2>1, Aside
  <2>3. SinkTypes'
    <3>1. asks' \in [Thread -> {"idle", "draining", "drained", "undrained", "joining", "closed", "raised"}]
      BY <2>1 DEF SinkInv, SinkTypes
    <3> QED
      BY <2>1, <3>1 DEF SinkInv, SinkTypes
  <2>4. SentinelLast'
    BY <1>3, <2>1, <2>2 DEF SinkInv, SinkTypes, SentinelLast, Sink!CloseEnds, Sink!CloseRaises
  <2>5. DropsFollowed' /\ Sink!Lost' = Sink!Lost
    BY <2>1 DEF SinkInv, DropsFollowed, Sink!Lost
  <2>6. DrainedAhead'
    <3>1. \A d \in Thread : asks'[d] = "drained" => asks[d] = "drained"
      BY <2>1 DEF SinkInv, SinkTypes
    <3> QED
      BY <2>1, <2>2, <3>1 DEF SinkInv, DrainedAhead
  <2> QED
    BY <2>1, <2>2, <2>3, <2>4, <2>5, <2>6, TrailSteps DEF SinkInv
<1> QED
  BY <1>1, <1>2, <1>3

LEMMA SinkKept ==
  ASSUME SinkInv, [Sink!Next]_Sink!vars PROVE SinkInv' /\ Sink!TrailStep
<1>1. CASE Sink!Submit \/ Sink!Refuse \/ Sink!SubmitRaises
  BY <1>1, Submits, Refuses
<1>2. CASE Sink!Run
  BY <1>2, Takes, TellsDrops, Writes DEF Sink!Run
<1>3. CASE \E c \in Thread : \/ Sink!Drain(c) \/ Sink!DrainEnds(c) \/ Sink!Close(c)
                             \/ Sink!CloseEnds(c) \/ Sink!CloseRaises(c)
  BY <1>3, Calls
<1>4. CASE UNCHANGED <<queue, pending, dropped, shut, writer, writerPc, item, owed, landed, asks,
                       asked, lines, marked, before, failed, stream>>
  <2>1. /\ Busy' = Busy /\ Sink!InHand' = Sink!InHand /\ Sink!Waiting' = Sink!Waiting
        /\ PendingCounts'
    BY <1>4, Aside
  <2>2. SinkTypes' /\ SentinelLast' /\ DropsFollowed' /\ DrainedAhead' /\ Sink!Lost' = Sink!Lost
    BY <1>4, <2>1 DEF SinkInv, SinkTypes, SentinelLast, DropsFollowed, DrainedAhead, Sink!Lost
  <2> QED
    BY <1>4, <2>1, <2>2, TrailSteps DEF SinkInv
<1>5. CASE Sink!Stall \/ Sink!Resume \/ Sink!Break \/ Sink!Mend
  BY <1>4, <1>5 DEF Sink!Stall, Sink!Resume, Sink!Break, Sink!Mend, Sink!Stderr, Sink!thread,
    Sink!calls, Sink!past
<1>6. CASE UNCHANGED Sink!vars
  BY <1>4, <1>6 DEF Sink!vars
<1> QED
  BY <1>1, <1>2, <1>3, <1>5, <1>6 DEF Sink!Next

LEMMA SinkAlways == ClientSpec => [](which = "sink" => SinkInv)
<1> DEFINE P == which = "sink" => SinkInv
<1>1. ClientInit => P
  BY SinkStarts, ClientAssumption DEF ClientInit, Sink!SinkAssumption
<1>2. P /\ [ClientNext]_clientVars => P'
  <2> SUFFICES ASSUME P, [ClientNext]_clientVars, which' = "sink" PROVE SinkInv'
    OBVIOUS
  <2>1. which = "sink" /\ [Sink!Next]_Sink!vars
    BY DEF ClientNext, clientVars, sinkVars, Sink!vars
  <2> QED
    BY <2>1, SinkKept
<1> QED
  BY <1>1, <1>2, PTL DEF ClientSpec

LEMMA Elements == ASSUME NEW S, NEW s \in Seq(S), NEW j \in DOMAIN s PROVE s[j] \in S
  OBVIOUS

(* Who was told that the sink is drained has nothing submitted before the call left *)
(* in it, and its thread ends with nothing accepted and unwritten: no line is       *)
(* evicted by the sentinel of close or queued behind it (drain, close, _run).       *)
THEOREM DrainSoundAlways == ClientSpec => [](which = "sink" => Sink!DrainSound)
<1>1. SinkInv => Sink!DrainHonest
  <2> SUFFICES ASSUME SinkInv, NEW c \in Thread, asks[c] = "drained",
                      NEW i \in DOMAIN Sink!Waiting
               PROVE  Sink!Waiting[i] > asked[c]
    BY DEF Sink!DrainHonest
  <2>1. /\ Sink!Queued \in Seq(1..lines) /\ Len(Sink!Queued) \in Nat
        /\ \A j \in DOMAIN Sink!Queued : Sink!Queued[j] > asked[c]
    <3>1. ASSUME NEW j \in DOMAIN Sink!Queued PROVE Sink!Queued[j] > asked[c]
      <4>1. /\ Sink!Queued \in Seq(1..lines)
            /\ \A k \in DOMAIN Sink!Queued : k \in DOMAIN queue /\ Sink!Queued[k] = queue[k]
        BY QueuedIs DEF SinkInv
      <4>2. j \in DOMAIN queue /\ Sink!Queued[j] = queue[j]
        BY <4>1
      <4>3. queue[j] # 0
        <5>1. Sink!Queued[j] \in 1..lines
          BY <4>1, Elements
        <5> QED
          BY <4>2, <5>1
      <4> QED
        BY <4>2, <4>3 DEF SinkInv, DrainedAhead
    <3> QED
      BY <3>1, QueuedIs DEF SinkInv
  <2>2. CASE Sink!InHand
    <3>1. item > asked[c] /\ Sink!Waiting = <<item>> \o Sink!Queued
      BY <2>2 DEF SinkInv, DrainedAhead, Sink!Waiting
    <3>2. i \in 1..(Len(Sink!Queued) + 1)
      BY <2>1, <3>1
    <3>3. i = 1 => Sink!Waiting[i] = item
      BY <2>1, <3>1
    <3>4. i # 1 => i - 1 \in DOMAIN Sink!Queued /\ Sink!Waiting[i] = Sink!Queued[i - 1]
      BY <2>1, <3>1, <3>2
    <3> QED
      BY <2>1, <3>1, <3>3, <3>4
  <2>3. CASE ~Sink!InHand
    BY <2>1, <2>3 DEF Sink!Waiting
  <2> QED
    BY <2>2, <2>3
<1>2. SinkInv => Sink!StopsLast
  <2> SUFFICES ASSUME SinkInv, writerPc = "done" PROVE queue = <<>> /\ pending = 0
    BY DEF Sink!StopsLast
  <2>1. queue = <<>> /\ ~Busy
    BY DEF SinkInv, SentinelLast, Busy
  <2>2. Sink!Queued = <<>>
    BY <2>1 DEF Sink!Queued
  <2> QED
    BY <2>1, <2>2 DEF SinkInv, PendingCounts
<1>3. (which = "sink" => SinkInv) => (which = "sink" => Sink!DrainSound)
  BY <1>1, <1>2 DEF Sink!DrainSound
<1> QED
  BY <1>3, SinkAlways, PTL

(* A loss is told before what follows it.  Nobody gets a byte of the console across *)
(* a gap before the gap's marker (_read_for, stream_gap); every step of the sink is *)
(* a step of AuditTrail or none, so lines reach stderr in the order of submission,  *)
(* each at most once, and each loss is reported or still owed; and no line lands    *)
(* above a marker for a loss that preceded it unless that marker failed (_run,      *)
(* _report_drops).                                                                  *)
THEOREM GapFirstAlways == ClientSpec => GapFirst
<1> DEFINE I == (which = "console" => ConsoleInv) /\ (which = "sink" => SinkInv)
<1>1. I /\ I' /\ [ClientNext]_clientVars =>
        [/\ (which = "console" /\ given' > given => ~gap)
         /\ (which = "sink" => Sink!TrailStep /\ Sink!MarkerAhead')]_<<given, sinkVars>>
  <2> SUFFICES ASSUME I, I', [ClientNext]_clientVars
               PROVE  /\ (which = "console" /\ given' > given => ~gap)
                      /\ (which = "sink" => Sink!TrailStep /\ Sink!MarkerAhead')
    OBVIOUS
  <2>1. ASSUME which = "console" PROVE given' > given => ~gap
    <3>1. [Console!Next]_Console!vars
      BY <2>1 DEF ClientNext, clientVars, consoleVars, Console!vars, Console!session,
        Console!reading, Console!terminal, Console!history
    <3> QED
      BY <2>1, <3>1, GapUntold
  <2>2. ASSUME which = "sink" PROVE Sink!TrailStep /\ Sink!MarkerAhead'
    <3>1. [Sink!Next]_Sink!vars /\ which' = "sink"
      BY <2>2 DEF ClientNext, clientVars, sinkVars, Sink!vars
    <3>2. SinkInv' => Sink!MarkerAhead'
      BY DEF SinkInv, SentinelLast, DropsFollowed, SinkTypes, Sink!MarkerAhead
    <3> QED
      BY <2>2, <3>1, <3>2, SinkKept
  <2> QED
    BY <2>1, <2>2
<1> QED
  BY <1>1, ConsoleAlways, SinkAlways, PTL DEF ClientSpec, GapFirst

-----------------------------------------------------------------------------
(* The access policy of a server (Authorization).  The proofs ask of the tools, the   *)
(* policies and the files what SecurityAssumption and NamesAssumption say, no more.   *)

Sentinels == {"none", "unresolved", "error"}
GrantFields == {"effects", "tools", "connections", "all", "table"}

\* A document whose grants are grants, and name no sentinel.
Authored(d) ==
  \A i \in DOMAIN d.selected :
    DOMAIN d.selected[i] = GrantFields /\ d.selected[i].connections \cap Sentinels = {}

Compiled(d) == [i \in DOMAIN d.selected |-> Server!CompileGrant(d.selected[i])]

\* The connections of a grant, in the terms of the policy.
Terms(g) == {IF c = "<default>" THEN "none" ELSE c : c \in g.connections}

LEMMA CompiledGrant ==
  ASSUME NEW g, DOMAIN g = GrantFields
  PROVE  LET h == Server!CompileGrant(g)
         IN /\ h.tools = Server!ResolveTools(g) /\ h.connections = Terms(g)
            /\ h.effects = g.effects /\ h.all = g.all /\ h.table = g.table
  BY DEF Server!CompileGrant, GrantFields, Terms, Server!Ambient

LEMMA FilesNamed ==
  ASSUME NEW f \in Configs
  PROVE  /\ f.profiles \cap (Sentinels \cup {"<default>"}) = {}
         /\ f.state \in {"absent", "unreadable"} => f.profiles = {}
  BY ClientAssumption DEF Server!NamesAssumption, Sentinels, Server!Ambient, Server!UNRESOLVED,
    Server!Failed

LEMMA PoliciesAuthored == ASSUME NEW d \in Policies PROVE Authored(d)
  BY ClientAssumption DEF Server!NamesAssumption, Sentinels, Server!Ambient, Server!UNRESOLVED,
    Server!Failed, Authored, GrantFields

\* The generated policy is well formed, whatever the profiles.
LEMMA LegacyCompiles ==
  ASSUME NEW f \in Configs
  PROVE  LET d == Server!legacy_document(f) IN Authored(d) /\ Server!Compiles(d)
<1> DEFINE d == Server!legacy_document(f)
           g == [effects |-> {}, tools |-> Server!legacy_tools, all |-> TRUE, table |-> <<>>,
                 connections |-> Server!legacy_connections(f)]
<1>1. d.selected = <<g>> /\ d.others = {}
  BY DEF Server!legacy_document
<1>2. /\ DOMAIN g = GrantFields /\ g.effects = {} /\ g.tools = Server!Tools \ {"hmc_run_command"}
      /\ g.all = TRUE /\ g.connections = {"<default>"} \cup f.profiles
  BY DEF GrantFields, Server!legacy_tools, Server!legacy_connections, Server!Command
<1> HIDE DEF d, g
<1>0. DOMAIN d.selected = {1} /\ d.selected[1] = g
  BY <1>1
<1>3. Authored(d)
  BY <1>0, <1>2, FilesNamed DEF Authored, Sentinels
<1>4. Server!Shaped(d)
  <2>1. "hmc_invoke_tool" \in g.tools
    BY <1>2, ClientAssumption DEF Server!SecurityAssumption
  <2>2. Server!WellShaped(g)
    BY <1>2, <2>1 DEF Server!WellShaped
  <2> QED
    BY <1>0, <1>1, <2>2 DEF Server!Shaped
<1>5. Server!Compiles(d)
  BY <1>0, <1>2, <1>4 DEF Server!Compiles, Server!ValidTargets
<1> QED
  BY <1>3, <1>5 DEF d

-----------------------------------------------------------------------------
\* The decision and the handler take a token for the same connection, if for any.
LEMMA ConnectionMeant ==
  ASSUME config \in Configs, ambient \in BOOLEAN, NEW g, g.connections \cap Sentinels = {},
         NEW t, Server!selected_connection(t) # "error"
  PROVE  LET meant == IF t = "" THEN "none" ELSE Server!Term(config, t)
         IN Server!selected_connection(t) \in Terms(g) <=> Server!Allows(g, meant)
<1> USE DEF Server!Ambient, Server!Failed, Server!UNRESOLVED
<1>1. CASE ambient \/ t = ""
  <2>1. Server!selected_connection(t) = "none"
    BY <1>1 DEF Server!selected_connection
  <2>2. t # "" => Server!Term(config, t) = "none"
    BY <1>1 DEF Server!Term, Server!build_config
  <2> QED
    BY <2>1, <2>2 DEF Terms, Server!Allows, Sentinels
<1>2. CASE ~ambient /\ t # ""
  <2>1. config.state # "unreadable" /\ Server!selected_connection(t) = Server!Select(config, t)
    BY <1>2 DEF Server!selected_connection
  <2>2. Server!Select(config, t) \in config.profiles \/ Server!Select(config, t) = "unresolved"
    BY DEF Server!Select
  <2>3. CASE config.state = "absent"
    <3>1. Server!Term(config, t) = "error" /\ Server!Select(config, t) = "unresolved"
      BY <1>2, <2>2, <2>3, FilesNamed DEF Server!Term, Server!build_config
    <3> QED
      BY <1>2, <2>1, <3>1 DEF Terms, Server!Allows, Sentinels
  <2>4. CASE config.state # "absent"
    <3>1. Server!Term(config, t) = IF Server!Select(config, t) = "unresolved" THEN "error"
                                   ELSE Server!Select(config, t)
      BY <1>2, <2>1, <2>4 DEF Server!Term, Server!build_config, Server!Profile
    <3> QED
      BY <1>2, <2>1, <2>2, <3>1, FilesNamed DEF Terms, Server!Allows, Sentinels
  <2> QED
    BY <2>3, <2>4
<1> QED
  BY <1>1, <1>2

\* What a handler's grant permits, the authored one bounds, and what no grant permits for
\* reasons of the targets alone, none bounds.
LEMMA PermittedBound ==
  ASSUME NEW g, NEW h, h.all = g.all, h.table = g.table, NEW t, NEW values
  PROVE  /\ Server!targets_permitted(h, t, values) => Server!Bounds(g, t, values)
         /\ /\ ~Server!targets_permitted(h, t, values)
            /\ Server!denial_reason(t, values) \in {"target-not-granted", "target-unboundable"}
            => ~Server!Bounds(g, t, values)
         /\ Server!denial_reason(t, values) = "target-unboundable" =>
              ~Declarations[t].exhaustive
         /\ /\ Server!denial_reason(t, values) = "target-unboundable"
            /\ ~Server!targets_permitted(h, t, values)
            => ~h.all
         /\ h.all /\ ~Server!targets_permitted(h, t, values) =>
              Server!denial_reason(t, values) = "target-selector-unreadable"
         /\ Server!denial_reason(t, values) \in
              {"target-selector-unreadable", "target-unboundable", "target-selector-absent",
               "target-not-granted"}
<1>1. Server!targets_permitted(h, t, values) => Server!Bounds(g, t, values)
  BY DEF Server!targets_permitted, Server!Bounds
<1> DEFINE unreadable == \E s \in Declarations[t].selectors : values[s.path] = "unreadable"
           unnamed == \E s \in Declarations[t].selectors : values[s.path] = "absent"
<1>2. Server!denial_reason(t, values) =
        IF unreadable THEN "target-selector-unreadable"
        ELSE IF ~Declarations[t].exhaustive THEN "target-unboundable"
        ELSE IF unnamed THEN "target-selector-absent" ELSE "target-not-granted"
  BY DEF Server!denial_reason
<1>3. Server!targets_permitted(h, t, values) <=>
        /\ ~unreadable
        /\ \/ h.all
           \/ Declarations[t].exhaustive /\ ~unnamed /\ Server!Bounds(h, t, values)
  BY DEF Server!targets_permitted, Server!Bounds
<1>4. Server!Bounds(g, t, values) <=> Server!Bounds(h, t, values)
  BY DEF Server!Bounds
<1>5. Server!Bounds(h, t, values) /\ ~h.all => Declarations[t].exhaustive
  BY DEF Server!Bounds
<1> HIDE DEF unreadable, unnamed
<1> QED
  BY <1>1, <1>2, <1>3, <1>4, <1>5

-----------------------------------------------------------------------------
\* What a server serves is what its policy compiles to.
PolicyServed ==
  /\ Authored(document)
  /\ callPc \in {"load", "refused"} => grants = <<>> /\ exposed = {} /\ unbound = {}
  /\ callPc = "refused" => ~Server!Compiles(document)
  /\ callPc \notin {"load", "refused"} =>
       /\ Server!Compiles(document) /\ grants = Compiled(document)
       /\ unbound = Server!unboundable_effect_tools(grants)
       /\ exposed = {t \in Server!Tools : /\ \E i \in DOMAIN grants : t \in grants[i].tools
                                          /\ t = "hmc_run_command" => enabled}

Reasons == {"permitted", "configuration-unreadable", "connection-not-granted",
            "target-selector-unreadable", "target-unboundable", "target-selector-absent",
            "target-not-granted"}
Decisions == [tool : Server!Tools, decision : {"allow", "deny"}, reason : Reasons]

\* Where a call stands: who exposed its tool, and what was recorded of it so far.
CallStands ==
  /\ trail \in Seq(Decisions)
  /\ callPc = "invoke" => trail = <<>>
  /\ callPc = "named" => Len(trail) = 1
  /\ callPc = "authorize" => Len(trail) = IF call.invoked THEN 1 ELSE 0
  /\ callPc \in {"invoke", "named"} => call.invoked /\ "hmc_invoke_tool" \in exposed
  /\ callPc = "authorize" \/ Server!Ran =>
       call.tool \in exposed /\ (call.tool = "hmc_run_command" => ~call.invoked)
  /\ callPc \in {"invoke", "named", "authorize", "handler"} => reached = "nothing"

\* The file of the decision, and the one the report read, are among those there were.
FilesSeen ==
  /\ versions # {} => config \in versions
  /\ Server!Ran => decided \in versions
  /\ callPc \in {"rows", "reported"} =>
       snap \in versions /\ \A c \in DOMAIN rows : rows[c] = Server!Guard(snap, c)
  /\ callPc \notin {"rows", "reported"} => DOMAIN rows = {}
  /\ callPc = "reported" => DOMAIN rows = Server!Connections

ServerInv ==
  /\ Server!AuthorizationTypeOK /\ PolicyServed /\ CallStands /\ FilesSeen
  /\ Server!CallsAuthorized

LEMMA ServerStarts == ASSUME Server!Init PROVE ServerInv
<1> USE DEF Server!Init
<1>1. Server!AuthorizationTypeOK
  <2>1. DOMAIN trail = {} /\ DOMAIN rows = {}
    OBVIOUS
  <2>2. call.tool \in Server!Tools /\ call.token = "" /\ call.invoked = FALSE
    BY ClientAssumption DEF Server!SecurityAssumption, Server!NoCall
  <2>3. callPc = "load" /\ exposed = {} /\ unbound = {} /\ edits \in 0..Edits /\ versions = {}
        /\ ambient \in BOOLEAN /\ enabled \in BOOLEAN /\ config \in Configs /\ decided \in Configs
    BY ClientAssumption DEF Server!SecurityAssumption
  <2> QED
    BY ONLY <2>1, <2>2, <2>3 DEF Server!AuthorizationTypeOK
<1>2. PolicyServed
  BY PoliciesAuthored, LegacyCompiles DEF PolicyServed
<1>3. CallStands /\ FilesSeen /\ Server!CallsAuthorized
  <2>1. callPc = "load" /\ trail = <<>> /\ DOMAIN rows = {} /\ versions = {}
    OBVIOUS
  <2> QED
    BY <2>1 DEF CallStands, FilesSeen, Server!OneGrantCovers, Server!DecisionRecorded, Server!Ran,
      Server!LegacyWide, Server!CallsAuthorized
<1> QED
  BY <1>1, <1>2, <1>3 DEF ServerInv

\* Of a grant that matches the tool and the connection of a call, in both spellings.
LEMMA Matches ==
  ASSUME ServerInv, callPc = "authorize", NEW i \in DOMAIN document.selected,
         LET s == Declarations[call.tool]
         IN s.connection => Server!selected_connection(call.token) # "error"
  PROVE  LET t == call.tool
             c == IF Declarations[t].connection THEN Server!selected_connection(call.token) ELSE "none"
             meant == IF call.token = "" THEN "none" ELSE Server!Term(config, call.token)
             g == document.selected[i]
         IN /\ i \in DOMAIN grants /\ grants[i].all = g.all /\ grants[i].table = g.table
            /\ t \in grants[i].tools <=> Server!Selects(g, t)
            /\ i \in Server!Matching(t, c) <=>
                 Server!Selects(g, t) /\ (Declarations[t].connection => Server!Allows(g, meant))
<1> DEFINE t == call.tool
           c == IF Declarations[t].connection THEN Server!selected_connection(call.token) ELSE "none"
           meant == IF call.token = "" THEN "none" ELSE Server!Term(config, call.token)
           g == document.selected[i]
<1>1. /\ DOMAIN g = GrantFields /\ g.connections \cap Sentinels = {}
      /\ DOMAIN grants = DOMAIN document.selected /\ grants[i] = Server!CompileGrant(g)
  BY DEF ServerInv, PolicyServed, Authored, Compiled
<1>2. /\ grants[i].tools = Server!ResolveTools(g) /\ grants[i].connections = Terms(g)
      /\ grants[i].all = g.all /\ grants[i].table = g.table
  BY <1>1, CompiledGrant
<1>3. t \in Server!Tools /\ config \in Configs /\ ambient \in BOOLEAN
  BY DEF ServerInv, Server!AuthorizationTypeOK
<1>4. t \in Server!ResolveTools(g) <=> Server!Selects(g, t)
  BY <1>3 DEF Server!ResolveTools, Server!Selects
<1>5. Declarations[t].connection => (c \in Terms(g) <=> Server!Allows(g, meant))
  BY <1>1, <1>3, ConnectionMeant
<1>6. i \in Server!Matching(t, c) <=>
        t \in grants[i].tools /\ (Declarations[t].connection => c \in grants[i].connections)
  BY <1>1 DEF Server!Matching, Server!grants_for
<1> HIDE DEF t, c, meant, g
<1>7. /\ i \in DOMAIN grants /\ grants[i].all = g.all /\ grants[i].table = g.table
      /\ t \in grants[i].tools <=> Server!Selects(g, t)
      /\ i \in Server!Matching(t, c) <=>
           Server!Selects(g, t) /\ (Declarations[t].connection => Server!Allows(g, meant))
  BY <1>1, <1>2, <1>4, <1>5, <1>6 DEF g
<1> QED
  BY <1>7 DEF t, c, meant, g

-----------------------------------------------------------------------------
\* What the policy says of a connection depends on the environment, which stands.
LEMMA PolicyStands ==
  ASSUME ambient' = ambient, decided' = decided, call' = call
  PROVE  /\ Server!Term(decided, call.token)' = Server!Term(decided, call.token)
         /\ Server!Meant' = Server!Meant
         /\ \A f : Server!Term(f, call.token)' = Server!Term(f, call.token)
  BY DEF Server!Term, Server!build_config, Server!Meant

\* What only moves within a handler that was permitted, or ends it, answers for it as before.
LEMMA Onward ==
  ASSUME ServerInv, UNCHANGED <<ambient, enabled, document, unbound, call, trail, decided>>,
         callPc' = callPc \/ (Server!Ran /\ Server!Ran'), versions \subseteq versions',
         reached' = reached \/ \E f \in versions : reached' = Server!Term(f, call.token)
  PROVE  Server!CallsAuthorized'
<1> USE PolicyStands
<1>1. Server!OneGrantCovers'
  <2> SUFFICES ASSUME Server!Ran' PROVE Server!OneGrantCovers'
    BY DEF Server!OneGrantCovers
  <2>1. Server!Ran
    BY DEF Server!Ran
  <2>2. PICK i \in DOMAIN document.selected :
           LET g == document.selected[i]  t == call.tool  c == Server!Term(decided, call.token)
           IN /\ Server!Selects(g, t) /\ Server!Bounds(g, t, call.values)
              /\ Declarations[t].connection => Server!Allows(g, c) \/ c = Server!Failed
              /\ reached \in {"nothing"} \cup {Server!Term(f, call.token) : f \in versions}
              /\ t = Server!Command => t \in g.tools /\ enabled /\ ~call.invoked
    BY <2>1 DEF ServerInv, Server!CallsAuthorized, Server!OneGrantCovers
  <2>3. reached' \in {"nothing"} \cup {Server!Term(f, call.token) : f \in versions'}
    BY <2>2
  <2>4. {Server!Term(f, call.token) : f \in versions'} = {Server!Term(f, call.token) : f \in versions}'
    BY DEF Server!Term, Server!build_config
  <2> QED
    BY <2>2, <2>3, <2>4 DEF Server!OneGrantCovers, Server!Selects, Server!Bounds, Server!Allows
<1>2. Server!DecisionRecorded'
  BY DEF ServerInv, Server!CallsAuthorized, Server!DecisionRecorded, Server!Ran
<1>3. Server!LegacyWide'
  BY DEF ServerInv, Server!CallsAuthorized, Server!LegacyWide, Server!Ran, PolicyServed
<1> QED
  BY <1>1, <1>2, <1>3 DEF Server!CallsAuthorized

LEMMA Loads == ASSUME ServerInv, Server!Load PROVE ServerInv'
<1>1. /\ callPc = "load" /\ callPc' = IF Server!Compiles(document) THEN "serving" ELSE "refused"
      /\ UNCHANGED <<ambient, enabled, document, config, edits, call, trail, decided, reached,
                     snap, rows, versions>>
  BY DEF Server!Load, Server!callVars, Server!reportVars
<1>2. DOMAIN rows = {} /\ DOMAIN rows' = {}
  BY <1>1 DEF ServerInv, FilesSeen
<1>3. PolicyServed'
  <2>1. CASE Server!Compiles(document)
    <3>1. grants' = Compiled(document) /\ callPc' = "serving"
      BY <1>1, <2>1 DEF Server!Load, Compiled
    <3>2. unbound' = Server!unboundable_effect_tools(grants')
      BY <2>1, <3>1 DEF Server!Load, Server!Warns, Compiled
    <3>3. exposed' = {t \in Server!Tools : /\ \E i \in DOMAIN grants' : t \in grants'[i].tools
                                           /\ t = "hmc_run_command" => enabled}
      BY <2>1, <3>1 DEF Server!Load, Server!Registers, Compiled, Server!Command
    <3> QED
      BY <1>1, <2>1, <3>1, <3>2, <3>3 DEF ServerInv, PolicyServed, Authored, Server!Compiles,
        Server!Shaped, Server!unboundable_effect_tools, Compiled
  <2>2. CASE ~Server!Compiles(document)
    BY <1>1, <2>2 DEF ServerInv, PolicyServed, Server!Load
  <2> QED
    BY <2>1, <2>2
<1>4. Server!AuthorizationTypeOK'
  <2>1. exposed' \subseteq Server!Tools /\ unbound' \subseteq Server!Tools
    <3>1. CASE Server!Compiles(document)
      BY <3>1 DEF Server!Load, Server!Warns, Server!Registers, Server!unboundable_effect_tools
    <3>2. CASE ~Server!Compiles(document)
      BY <3>2 DEF ServerInv, Server!AuthorizationTypeOK, Server!Load
    <3> QED
      BY <3>1, <3>2
  <2> QED
    BY <1>1, <1>2, <2>1 DEF ServerInv, Server!AuthorizationTypeOK
<1>5. CallStands' /\ FilesSeen'
  BY <1>1, <1>2 DEF ServerInv, CallStands, FilesSeen, Server!Ran
<1>6. Server!CallsAuthorized'
  <2>1. Server!LegacyWide'
    BY <1>1, LegacyCompiles DEF ServerInv, Server!AuthorizationTypeOK, Server!LegacyWide
  <2> QED
    BY <1>1, <2>1 DEF Server!CallsAuthorized, Server!OneGrantCovers, Server!DecisionRecorded,
      Server!Ran
<1> QED
  BY <1>3, <1>4, <1>5, <1>6 DEF ServerInv

\* A step of a served policy leaves it, and the bounds of what there is.
LEMMA Serves ==
  ASSUME ServerInv, UNCHANGED <<ambient, enabled, document, grants, exposed, unbound>>,
         callPc' \notin {"load", "refused"}, callPc \notin {"load", "refused"}
  PROVE  PolicyServed' /\ Server!Connections' = Server!Connections
  BY DEF ServerInv, PolicyServed, Server!Connections

LEMMA CallStarts == ASSUME ServerInv, Server!Call PROVE ServerInv'
<1>1. /\ callPc = "serving" /\ callPc' = IF call'.invoked THEN "invoke" ELSE "authorize"
      /\ call'.tool \in Server!Tools /\ call'.token \in {"", "lab", "nick"}
      /\ call'.invoked \in BOOLEAN
      /\ IF call'.invoked THEN "hmc_invoke_tool" \in exposed ELSE call'.tool \in exposed
  <2>1. PICK t \in Server!Tools, tok \in {"", "lab", "nick"}, invoked \in BOOLEAN :
          /\ IF invoked THEN "hmc_invoke_tool" \in exposed ELSE t \in exposed
          /\ \E values \in [Server!Paths(t) -> {"s1", "absent", "unreadable"}] :
               call' = [tool |-> t, token |-> tok, values |-> values, invoked |-> invoked]
          /\ callPc' = IF invoked THEN "invoke" ELSE "authorize"
    BY DEF Server!Call
  <2>2. call'.tool = t /\ call'.token = tok /\ call'.invoked = invoked
    <3>1. PICK values \in [Server!Paths(t) -> {"s1", "absent", "unreadable"}] :
            call' = [tool |-> t, token |-> tok, values |-> values, invoked |-> invoked]
      BY ONLY <2>1
    <3> QED
      BY ONLY <3>1
  <2>3. callPc = "serving"
    BY DEF Server!Call
  <2> QED
    BY ONLY <2>1, <2>2, <2>3
<1>2. /\ trail' = <<>> /\ reached' = "nothing" /\ decided' = config
      /\ UNCHANGED <<ambient, enabled, document, grants, exposed, unbound, config, edits, snap,
                     rows, versions>>
  BY DEF Server!Call, Server!policyVars, Server!reportVars
<1>3. trail' \in Seq(Decisions) /\ Len(trail') = 0 /\ DOMAIN trail' = {} /\ DOMAIN rows' = {}
  <2>1. DOMAIN rows' = {}
    BY <1>1, <1>2 DEF ServerInv, FilesSeen
  <2> QED
    BY ONLY <1>2, <2>1
<1>4. PolicyServed'
  BY <1>1, <1>2, Serves
<1>5. Server!AuthorizationTypeOK'
  BY <1>1, <1>2, <1>3 DEF ServerInv, Server!AuthorizationTypeOK
<1>6. CallStands' /\ FilesSeen'
  <2>1. \/ callPc' = "invoke" /\ call'.invoked /\ "hmc_invoke_tool" \in exposed'
        \/ callPc' = "authorize" /\ ~call'.invoked /\ call'.tool \in exposed'
    BY ONLY <1>1, <1>2
  <2>2. CallStands'
    BY ONLY <1>2, <1>3, <2>1 DEF CallStands, Server!Ran
  <2>3. FilesSeen'
    BY <1>2, <1>3, <2>1 DEF ServerInv, FilesSeen, Server!Ran
  <2> QED
    BY <2>2, <2>3
<1>7. Server!CallsAuthorized'
  BY <1>1 DEF Server!CallsAuthorized, Server!OneGrantCovers, Server!DecisionRecorded,
    Server!LegacyWide, Server!Ran
<1> QED
  BY <1>4, <1>5, <1>6, <1>7 DEF ServerInv

\* A decision is the last of the trail.
LEMMA Recorded ==
  ASSUME trail \in Seq(Decisions), NEW t \in Server!Tools, NEW d \in {"allow", "deny"},
         NEW r \in Reasons, Server!Records(t, d, r)
  PROVE  /\ trail' \in Seq(Decisions) /\ Len(trail') = Len(trail) + 1
         /\ trail'[Len(trail')] = [tool |-> t, decision |-> d, reason |-> r]
         /\ \A i \in DOMAIN trail' : trail'[i].tool \in Server!Tools
                                     /\ trail'[i].decision \in {"allow", "deny"}
<1>1. [tool |-> t, decision |-> d, reason |-> r] \in Decisions
  BY DEF Decisions
<1>2. trail' = Append(trail, [tool |-> t, decision |-> d, reason |-> r])
  BY DEF Server!Records
<1>3. trail' \in Seq(Decisions) /\ Len(trail') = Len(trail) + 1
      /\ trail'[Len(trail')] = [tool |-> t, decision |-> d, reason |-> r]
  BY <1>1, <1>2
<1>4. \A i \in DOMAIN trail' : trail'[i] \in Decisions
  BY <1>3
<1> QED
  BY <1>3, <1>4 DEF Decisions

\* What an invocation of the gateway is refused for: its tool has no selector to bind.
LEMMA GatewayUnbound ==
  ASSUME NEW values
  PROVE  LET t == "hmc_invoke_tool"
         IN /\ t \in Server!Tools /\ ~Declarations[t].connection
            /\ Server!denial_reason(t, values) = "target-unboundable"
            /\ ~Declarations[t].exhaustive
            /\ \A h : Server!targets_permitted(h, t, values) <=> h.all
            /\ \A g, vs : Server!Bounds(g, t, vs) <=> g.all
<1>1. /\ "hmc_invoke_tool" \in Server!Tools /\ Declarations["hmc_invoke_tool"].selectors = {}
      /\ ~Declarations["hmc_invoke_tool"].connection /\ ~Declarations["hmc_invoke_tool"].exhaustive
  BY ClientAssumption DEF Server!SecurityAssumption
<1> QED
  BY <1>1 DEF Server!denial_reason, Server!targets_permitted, Server!Bounds

LEMMA Invokes == ASSUME ServerInv, Server!Invoke PROVE ServerInv'
<1> DEFINE t == "hmc_invoke_tool"
           allowed == \E i \in Server!grants_for(t) : Server!targets_permitted(grants[i], t, <<>>)
<1>1. /\ callPc = "invoke" /\ callPc' = IF allowed THEN "named" ELSE "denied"
      /\ Server!Records(t, IF allowed THEN "allow" ELSE "deny",
                        IF allowed THEN "permitted" ELSE "target-unboundable")
      /\ UNCHANGED <<ambient, enabled, document, grants, exposed, unbound, config, edits, call,
                     decided, reached, snap, rows, versions>>
  BY GatewayUnbound DEF Server!Invoke, Server!policyVars, Server!reportVars
<1>2. t \in Server!Tools /\ trail \in Seq(Decisions) /\ Len(trail) = 0
  BY <1>1, GatewayUnbound DEF ServerInv, CallStands
<1>3. /\ trail' \in Seq(Decisions) /\ Len(trail') = 1
      /\ trail'[1] = [tool |-> t, decision |-> IF allowed THEN "allow" ELSE "deny",
                      reason |-> IF allowed THEN "permitted" ELSE "target-unboundable"]
      /\ \A i \in DOMAIN trail' : trail'[i].tool \in Server!Tools
                                  /\ trail'[i].decision \in {"allow", "deny"}
  <2> HIDE DEF allowed
  <2>1. (IF allowed THEN "allow" ELSE "deny") \in {"allow", "deny"}
        /\ (IF allowed THEN "permitted" ELSE "target-unboundable") \in Reasons
    BY DEF Reasons
  <2> QED
    BY <1>1, <1>2, <2>1, Recorded
<1>4. PolicyServed' /\ Server!Connections' = Server!Connections
  BY <1>1, Serves
<1>5. Server!AuthorizationTypeOK'
  BY <1>1, <1>3, <1>4 DEF ServerInv, Server!AuthorizationTypeOK
<1>6. CallStands' /\ FilesSeen'
  <2> HIDE DEF allowed
  <2>1. CallStands'
    BY <1>1, <1>3 DEF ServerInv, CallStands, Server!Ran
  <2>2. FilesSeen'
    BY <1>1 DEF ServerInv, FilesSeen, Server!Ran
  <2> QED
    BY <2>1, <2>2
<1>7. CASE allowed
  <2>1. Server!CallsAuthorized'
    BY <1>1, <1>7 DEF Server!CallsAuthorized, Server!OneGrantCovers, Server!DecisionRecorded,
      Server!LegacyWide, Server!Ran
  <2> QED
    BY <1>4, <1>5, <1>6, <2>1 DEF ServerInv
<1>8. CASE ~allowed
  <2>1. /\ DOMAIN grants = DOMAIN document.selected
        /\ unbound = Server!unboundable_effect_tools(grants) /\ t \in exposed
        /\ \E i \in DOMAIN grants : t \in grants[i].tools
    BY <1>1 DEF ServerInv, PolicyServed, CallStands, Compiled
  <2>2. ASSUME NEW i \in DOMAIN document.selected
        PROVE  /\ grants[i].all = document.selected[i].all
               /\ t \in grants[i].tools <=> Server!Selects(document.selected[i], t)
    <3>1. grants[i] = Server!CompileGrant(document.selected[i])
          /\ DOMAIN document.selected[i] = GrantFields
      BY <1>1 DEF ServerInv, PolicyServed, Authored, Compiled
    <3> QED
      BY <1>2, <3>1, CompiledGrant DEF Server!ResolveTools, Server!Selects
  <2>3. \A i \in DOMAIN grants : t \in grants[i].tools => ~grants[i].all
    BY <1>8, GatewayUnbound DEF Server!grants_for
  <2>4. t \in unbound
    BY <2>1, <2>3, GatewayUnbound DEF Server!unboundable_effect_tools
  <2>5. Server!DecisionRecorded'
    <3> SUFFICES ASSUME call.tool = t
                 PROVE  LET open == {i \in DOMAIN document.selected :
                                       /\ Server!Selects(document.selected[i], t)
                                       /\ Declarations[t].connection =>
                                            Server!Allows(document.selected[i], Server!Meant')}
                        IN /\ open # {}
                           /\ \A i \in open : ~Server!Bounds(document.selected[i], t, call.values)
      BY <1>1, <1>3, <1>8, <2>4 DEF Server!DecisionRecorded, Server!Ran
    <3> QED
      BY <2>1, <2>2, <2>3, GatewayUnbound
  <2>6. Server!LegacyWide'
    <3> SUFFICES ASSUME document = Server!legacy_document(decided) PROVE FALSE
      BY <1>1 DEF Server!LegacyWide
    <3>1. 1 \in DOMAIN document.selected /\ document.selected[1].all = TRUE
          /\ t \in document.selected[1].tools
      <4>1. t \in Server!legacy_tools
        BY <1>2 DEF Server!legacy_tools, Server!Command
      <4> QED
        BY <4>1 DEF Server!legacy_document
    <3>2. t \in grants[1].tools
      BY <2>2, <3>1 DEF Server!Selects
    <3> QED
      BY <2>1, <2>2, <2>3, <3>1, <3>2
  <2>7. Server!OneGrantCovers'
    BY <1>1, <1>8 DEF Server!OneGrantCovers, Server!Ran
  <2> QED
    BY <1>4, <1>5, <1>6, <2>5, <2>6, <2>7 DEF ServerInv, Server!CallsAuthorized
<1> QED
  BY <1>7, <1>8

LEMMA GatewayNames == ASSUME ServerInv, Server!Named PROVE ServerInv'
<1>1. /\ callPc = "named"
      /\ callPc' \in {"withheld", "authorize"}
      /\ callPc' = "authorize" =>
           call.tool \in exposed /\ Declarations[call.tool].effect # "arbitrary-command"
      /\ UNCHANGED <<ambient, enabled, document, grants, exposed, unbound, config, edits, call,
                     trail, decided, reached, snap, rows, versions>>
  BY DEF Server!Named, Server!policyVars, Server!callVars, Server!reportVars
<1>2. PolicyServed' /\ Server!Connections' = Server!Connections
  BY <1>1, Serves
<1>3. Server!AuthorizationTypeOK'
  BY <1>1, <1>2 DEF ServerInv, Server!AuthorizationTypeOK
<1>4. call.tool = "hmc_run_command" => Declarations[call.tool].effect = "arbitrary-command"
  BY ClientAssumption DEF Server!SecurityAssumption, Server!Command
<1>5. CallStands'
  BY <1>1, <1>4 DEF ServerInv, CallStands, Server!Ran
<1>6. FilesSeen'
  BY <1>1 DEF ServerInv, FilesSeen, Server!Ran
<1>7. Server!CallsAuthorized'
  BY <1>1 DEF Server!CallsAuthorized, Server!OneGrantCovers, Server!DecisionRecorded,
    Server!LegacyWide, Server!Ran
<1> QED
  BY <1>2, <1>3, <1>5, <1>6, <1>7 DEF ServerInv

LEMMA Authorizes == ASSUME ServerInv, Server!Authorize PROVE ServerInv'
<1> DEFINE t == call.tool
           s == Declarations[t]
           c == IF s.connection THEN Server!selected_connection(call.token) ELSE "none"
           meant == IF call.token = "" THEN "none" ELSE Server!Term(config, call.token)
           matching == Server!Matching(t, c)
           permitting == {i \in matching : Server!targets_permitted(grants[i], t, call.values)}
           why == IF s.connection /\ matching = {} THEN "connection-not-granted"
                  ELSE Server!denial_reason(t, call.values)
           reason == IF c = "error" THEN "configuration-unreadable"
                     ELSE IF permitting # {} THEN "permitted" ELSE why
           permits == c # "error" /\ permitting # {}
<1>1. /\ callPc = "authorize" /\ decided' = config /\ versions' = {config}
      /\ callPc' = IF permits THEN "handler" ELSE "denied"
      /\ Server!Records(t, IF permits THEN "allow" ELSE "deny", reason)
      /\ UNCHANGED <<ambient, enabled, document, grants, exposed, unbound, config, edits, call,
                     reached, snap, rows>>
  BY DEF Server!Authorize, Server!policyVars, Server!Ambient, Server!Failed
<1>2. /\ t \in Server!Tools /\ t \in exposed /\ (t = "hmc_run_command" => ~call.invoked /\ enabled)
      /\ trail \in Seq(Decisions) /\ Len(trail) = IF call.invoked THEN 1 ELSE 0
      /\ reached = "nothing" /\ config \in Configs /\ ambient \in BOOLEAN
      /\ call.invoked \in BOOLEAN /\ DOMAIN rows = {}
      /\ DOMAIN grants = DOMAIN document.selected
      /\ unbound = Server!unboundable_effect_tools(grants)
      /\ \E i \in DOMAIN grants : t \in grants[i].tools
  BY <1>1 DEF ServerInv, PolicyServed, CallStands, FilesSeen, Compiled, Server!AuthorizationTypeOK
<1>3. reason \in Reasons
  <2>1. why \in Reasons
    BY PermittedBound DEF Reasons
  <2> HIDE DEF why, permitting, c
  <2> QED
    BY <2>1 DEF Reasons
<1>4. ASSUME NEW i \in DOMAIN document.selected, c # "error"
      PROVE  LET g == document.selected[i]
             IN /\ i \in DOMAIN grants /\ grants[i].all = g.all /\ grants[i].table = g.table
                /\ t \in grants[i].tools <=> Server!Selects(g, t)
                /\ i \in matching <=> Server!Selects(g, t) /\ (s.connection => Server!Allows(g, meant))
  BY <1>1, <1>4, Matches
<1>5. Server!Term(decided, call.token)' = Server!Term(config, call.token) /\ Server!Meant' = meant
  BY <1>1 DEF Server!Term, Server!build_config, Server!Meant, Server!Ambient
<1>6. /\ trail' \in Seq(Decisions) /\ Len(trail') = IF call.invoked THEN 2 ELSE 1
      /\ trail'[Len(trail')] = [tool |-> t, decision |-> IF permits THEN "allow" ELSE "deny",
                                reason |-> reason]
      /\ \A i \in DOMAIN trail' : trail'[i].tool \in Server!Tools
                                  /\ trail'[i].decision \in {"allow", "deny"}
  <2> HIDE DEF t, reason, permits
  <2>1. (IF permits THEN "allow" ELSE "deny") \in {"allow", "deny"}
    OBVIOUS
  <2>2. /\ trail' \in Seq(Decisions) /\ Len(trail') = Len(trail) + 1
        /\ trail'[Len(trail')] = [tool |-> t, decision |-> IF permits THEN "allow" ELSE "deny",
                                  reason |-> reason]
        /\ \A i \in DOMAIN trail' : trail'[i].tool \in Server!Tools
                                    /\ trail'[i].decision \in {"allow", "deny"}
    BY <1>1, <1>2, <1>3, <2>1, Recorded
  <2> QED
    BY ONLY <1>2, <2>2
<1>7. PolicyServed' /\ Server!Connections' = Server!Connections
  BY <1>1, Serves
<1>8. Server!AuthorizationTypeOK'
  <2> HIDE DEF reason, permits
  <2> QED
    BY <1>1, <1>2, <1>6, <1>7 DEF ServerInv, Server!AuthorizationTypeOK
<1>9. CallStands' /\ FilesSeen'
  <2> HIDE DEF t, reason, permits
  <2>1. CallStands'
    BY <1>1, <1>2, <1>6 DEF CallStands, Server!Ran, t
  <2>2. FilesSeen'
    BY <1>1, <1>2 DEF FilesSeen, Server!Ran
  <2> QED
    BY <2>1, <2>2
<1>11. Server!OneGrantCovers'
  <2> SUFFICES ASSUME permits
               PROVE \E i \in DOMAIN document.selected :
                       LET g == document.selected[i]
                       IN /\ Server!Selects(g, t) /\ Server!Bounds(g, t, call.values)
                          /\ s.connection => \/ Server!Allows(g, Server!Term(config, call.token))
                                             \/ Server!Term(config, call.token) = "error"
                          /\ t = "hmc_run_command" => t \in g.tools
    BY <1>1, <1>2, <1>5 DEF Server!OneGrantCovers, Server!Ran, Server!Selects, Server!Bounds,
      Server!Allows, Server!Failed, Server!Command
  <2>1. PICK i \in matching : Server!targets_permitted(grants[i], t, call.values)
    OBVIOUS
  <2>2. i \in DOMAIN document.selected
    BY <1>2 DEF Server!Matching, Server!grants_for
  <2>3. /\ grants[i].all = document.selected[i].all /\ grants[i].table = document.selected[i].table
        /\ Server!Selects(document.selected[i], t)
        /\ s.connection => Server!Allows(document.selected[i], meant)
    BY <1>4, <2>1, <2>2
  <2>4. Server!Bounds(document.selected[i], t, call.values)
    BY <2>1, <2>3, PermittedBound
  <2>5. call.token = "" => Server!Term(config, call.token) \in {"none", "error"}
    BY DEF Server!Term, Server!Ambient, Server!Failed
  <2>6. t = "hmc_run_command" => t \in document.selected[i].tools
    <3>1. document.selected[i].effects \subseteq Server!GrantEffects
      <4>1. Server!Compiles(document)
        BY <1>1 DEF ServerInv, PolicyServed
      <4> QED
        BY <2>2, <4>1 DEF Server!Compiles, Server!Shaped, Server!WellShaped
    <3>2. t = "hmc_run_command" => s.effect = "arbitrary-command"
      BY ClientAssumption DEF Server!SecurityAssumption, Server!Command
    <3> QED
      BY <2>3, <3>1, <3>2 DEF Server!Selects, Server!GrantEffects
  <2>7. s.connection => \/ Server!Allows(document.selected[i], Server!Term(config, call.token))
                        \/ Server!Term(config, call.token) = "error"
    BY <2>3, <2>5
  <2> QED
    BY <2>2, <2>3, <2>4, <2>6, <2>7
<1>12. Server!DecisionRecorded'
  <2> DEFINE open == {i \in DOMAIN document.selected :
                        /\ Server!Selects(document.selected[i], t)
                        /\ s.connection => Server!Allows(document.selected[i], meant)}
  <2>1. CASE permits
    BY <1>1, <1>6, <2>1 DEF Server!DecisionRecorded, Server!Ran
  <2>2. CASE ~permits
    <3>1. matching \subseteq DOMAIN document.selected
      BY <1>2 DEF Server!Matching, Server!grants_for
    <3>2. c # "error" => open = matching
      BY <1>4, <3>1
    <3>3. ~s.connection => matching # {}
      BY <1>2 DEF Server!Matching, Server!grants_for
    <3>4. Server!denial_reason(t, call.values) # "connection-not-granted"
      BY PermittedBound
    <3>5. reason = "connection-not-granted" => open = {}
      <4> HIDE DEF open, matching
      <4> QED
        BY <2>2, <3>2, <3>4
    <3>6. ASSUME reason \in {"target-not-granted", "target-unboundable"}
          PROVE  /\ c # "error" /\ permitting = {} /\ matching # {} /\ open = matching
                 /\ reason = Server!denial_reason(t, call.values)
      <4> HIDE DEF open, matching, permitting, c
      <4> QED
        BY <2>2, <3>2, <3>3, <3>6
    <3>7. ASSUME reason \in {"target-not-granted", "target-unboundable"}, NEW i \in open
          PROVE  /\ ~Server!Bounds(document.selected[i], t, call.values)
                 /\ reason = "target-unboundable" => t \in unbound
      <4>1. /\ i \in DOMAIN grants /\ grants[i].all = document.selected[i].all
            /\ grants[i].table = document.selected[i].table /\ t \in grants[i].tools
        BY <1>4, <3>6, <3>7
      <4>2. ~Server!targets_permitted(grants[i], t, call.values)
        BY <3>6, <3>7
      <4>3. reason = Server!denial_reason(t, call.values)
        BY <3>6, <3>7
      <4>4. ~Server!Bounds(document.selected[i], t, call.values)
        BY <3>7, <4>1, <4>2, <4>3, PermittedBound
      <4>5. reason = "target-unboundable" => ~Declarations[t].exhaustive /\ ~grants[i].all
        BY <4>2, <4>3, PermittedBound
      <4>6. reason = "target-unboundable" => t \in unbound
        BY <1>2, <4>1, <4>5 DEF Server!unboundable_effect_tools
      <4> QED
        BY <4>4, <4>6
    <3>8. reason \in {"target-not-granted", "target-unboundable"} =>
            /\ open # {} /\ \A i \in open : ~Server!Bounds(document.selected[i], t, call.values)
            /\ reason = "target-unboundable" => t \in unbound
      BY <3>6, <3>7
    <3>9. open = {i \in DOMAIN document.selected :
                    /\ Server!Selects(document.selected[i], t)
                    /\ s.connection => Server!Allows(document.selected[i], Server!Meant')}
      BY <1>5
    <3> HIDE DEF reason, open
    <3>10. trail'[Len(trail')].reason = reason /\ trail'[Len(trail')].tool = t
           /\ trail'[Len(trail')].decision = "deny"
      BY <1>6, <2>2
    <3>11. callPc' = "denied" /\ document' = document /\ call' = call /\ unbound' = unbound
      BY <1>1, <2>2
    <3>12. \A g, v : (Server!Selects(g, t)' <=> Server!Selects(g, t))
                     /\ (Server!Bounds(g, t, v)' <=> Server!Bounds(g, t, v))
      BY <3>11 DEF Server!Selects, Server!Bounds
    <3> QED
      BY <3>5, <3>8, <3>9, <3>10, <3>11, <3>12 DEF Server!DecisionRecorded, Server!Ran
  <2> QED
    BY <2>1, <2>2
<1>13. Server!LegacyWide'
  <2> SUFFICES ASSUME document = Server!legacy_document(config), ~permits, c # "error",
                      reason # "target-selector-unreadable",
                      Server!Select(config, call.token) # "unresolved"
               PROVE  FALSE
    BY <1>1, <1>6 DEF Server!LegacyWide, Server!UNRESOLVED
  <2> DEFINE g == document.selected[1]
  <2>1. /\ 1 \in DOMAIN document.selected /\ g.all = TRUE
        /\ g.tools = Server!Tools \ {"hmc_run_command"} /\ g.effects = {}
        /\ g.connections = {"<default>"} \cup config.profiles
        /\ DOMAIN document.selected = {1}
    <3>1. document.selected = <<[effects |-> {}, tools |-> Server!legacy_tools, all |-> TRUE,
                                 table |-> <<>>, connections |-> Server!legacy_connections(config)]>>
      BY DEF Server!legacy_document
    <3> QED
      BY <3>1 DEF Server!legacy_tools, Server!legacy_connections, Server!Command
  <2>2. 1 \in DOMAIN grants /\ grants[1].all = TRUE /\ t \in grants[1].tools
    BY <1>2, <1>4, <2>1
  <2>3. s.connection => c \in Terms(g)
    <3>1. c = "none" \/ c \in config.profiles
      BY <1>2 DEF Server!selected_connection, Server!Ambient, Server!Failed, Server!UNRESOLVED,
        Server!Select
    <3>2. "none" \in Terms(g)
      BY <2>1 DEF Terms
    <3>3. c \in config.profiles => c \in Terms(g)
      BY <1>2, <2>1, FilesNamed DEF Terms
    <3> QED
      BY <3>1, <3>2, <3>3
  <2>4. 1 \in matching
    <3>1. grants[1] = Server!CompileGrant(g) /\ DOMAIN g = GrantFields
      BY <1>1, <2>1 DEF ServerInv, PolicyServed, Authored, Compiled
    <3>2. grants[1].connections = Terms(g)
      BY <3>1, CompiledGrant
    <3> QED
      BY <2>2, <2>3, <3>2 DEF Server!Matching, Server!grants_for
  <2>5. ~Server!targets_permitted(grants[1], t, call.values)
    BY <2>4
  <2>6. Server!denial_reason(t, call.values) = "target-selector-unreadable"
    BY <2>2, <2>5, PermittedBound
  <2> QED
    BY <2>4, <2>6
<1> QED
  BY <1>7, <1>8, <1>9, <1>11, <1>12, <1>13 DEF ServerInv, Server!CallsAuthorized

LEMMA Handles == ASSUME ServerInv, Server!Handler PROVE ServerInv'
<1>1. /\ callPc = "handler" /\ callPc' \in {"report", "done"}
      /\ reached' = IF Declarations[call.tool].connection THEN Server!Term(config, call.token)
                    ELSE "nothing"
      /\ UNCHANGED <<ambient, enabled, document, grants, exposed, unbound, config, edits, call,
                     trail, decided, snap, rows, versions>>
  BY DEF Server!Handler, Server!Goes, Server!policyVars, Server!reportVars
<1>2. Server!Ran /\ Server!Ran' /\ config \in versions /\ reached = "nothing"
  BY <1>1 DEF ServerInv, CallStands, FilesSeen, Server!Ran
<1>3. PolicyServed' /\ Server!Connections' = Server!Connections
  BY <1>1, Serves
<1>4. Server!AuthorizationTypeOK'
  BY <1>1, <1>3 DEF ServerInv, Server!AuthorizationTypeOK
<1>5. CallStands'
  BY <1>1 DEF ServerInv, CallStands, Server!Ran
<1>6. FilesSeen'
  BY <1>1, <1>2 DEF ServerInv, FilesSeen
<1>7. Server!CallsAuthorized'
  BY <1>1, <1>2, Onward
<1> QED
  BY <1>3, <1>4, <1>5, <1>6, <1>7 DEF ServerInv

\* The guards that are reported depend on the environment and the file alone.
LEMMA GuardStands ==
  ASSUME ambient' = ambient PROVE \A f, c : Server!Guard(f, c)' = Server!Guard(f, c)
  BY DEF Server!Guard, Server!build_config

LEMMA RowsReported ==
  ASSUME ServerInv, Server!Snapshot \/ Server!Row \/ Server!Reported PROVE ServerInv'
<1>1. /\ UNCHANGED <<ambient, enabled, document, grants, exposed, unbound, config, edits, call,
                     trail, decided, reached, versions>>
      /\ callPc \in {"report", "rows"} /\ callPc' \in {"rows", "reported"}
  BY DEF Server!Snapshot, Server!Row, Server!Reported, Server!Goes, Server!policyVars,
    Server!callVars, Server!reportVars
<1>2. Server!Ran /\ Server!Ran'
  BY <1>1 DEF Server!Ran
<1>3. PolicyServed' /\ Server!Connections' = Server!Connections
  BY <1>1, Serves
<1>4. CallStands'
  BY <1>1, <1>2 DEF ServerInv, CallStands
<1>5. Server!CallsAuthorized'
  BY <1>1, <1>2, Onward
<1>6. FilesSeen' /\ DOMAIN rows' \subseteq Server!Connections
  <2>1. CASE Server!Snapshot
    BY <1>1, <1>2, <2>1 DEF ServerInv, FilesSeen, Server!Snapshot, Server!Goes
  <2>2. CASE Server!Row
    <3>1. PICK c \in Server!Connections \ DOMAIN rows :
            rows' = [d \in DOMAIN rows \cup {c} |->
                       IF d = c THEN Server!Guard(snap, c) ELSE rows[d]]
      BY <2>2 DEF Server!Row
    <3>2. callPc = "rows" /\ callPc' = "rows" /\ snap' = snap
      BY <2>2 DEF Server!Row
    <3>3. DOMAIN rows \subseteq Server!Connections
      BY DEF ServerInv, Server!AuthorizationTypeOK
    <3>4. \A d \in DOMAIN rows' : rows'[d] = Server!Guard(snap, d)
      BY <3>1, <3>2 DEF ServerInv, FilesSeen
    <3>5. \A d \in DOMAIN rows' : rows'[d] = Server!Guard(snap, d)'
      BY <1>1, <3>2, <3>4, GuardStands
    <3> QED
      BY <1>1, <1>2, <3>1, <3>2, <3>3, <3>5 DEF ServerInv, FilesSeen
  <2>3. CASE Server!Reported
    <3>1. callPc = "rows" /\ callPc' = "reported" /\ Server!Connections = DOMAIN rows
          /\ UNCHANGED <<snap, rows>>
      BY <2>3 DEF Server!Reported, Server!Goes, Server!reportVars
    <3>2. \A c \in DOMAIN rows' : rows'[c] = Server!Guard(snap, c)'
      BY <1>1, <3>1, GuardStands DEF ServerInv, FilesSeen
    <3> QED
      BY <1>1, <1>2, <1>3, <3>1, <3>2 DEF ServerInv, FilesSeen
  <2> QED
    BY <2>1, <2>2, <2>3
<1>7. Server!AuthorizationTypeOK'
  BY <1>1, <1>3, <1>6 DEF ServerInv, Server!AuthorizationTypeOK
<1> QED
  BY <1>3, <1>4, <1>5, <1>6, <1>7 DEF ServerInv

LEMMA CallEnds == ASSUME ServerInv, Server!Ends PROVE ServerInv'
<1>1. /\ callPc \in {"denied", "withheld", "done", "reported"} /\ callPc' = "serving"
      /\ call' = Server!NoCall /\ trail' = <<>> /\ decided' = config /\ rows' = <<>>
      /\ versions' = {}
      /\ UNCHANGED <<ambient, enabled, document, grants, exposed, unbound, config, edits>>
  BY DEF Server!Ends, Server!policyVars
<1>2. DOMAIN trail' = {} /\ DOMAIN rows' = {} /\ trail' \in Seq(Decisions)
  BY ONLY <1>1
<1>3. call'.tool \in Server!Tools /\ call'.token = "" /\ call'.invoked \in BOOLEAN
  BY <1>1, ClientAssumption DEF Server!SecurityAssumption, Server!NoCall
<1>4. PolicyServed' /\ Server!Connections' = Server!Connections
  BY <1>1, Serves
<1>5. Server!AuthorizationTypeOK'
  BY <1>1, <1>2, <1>3 DEF ServerInv, Server!AuthorizationTypeOK
<1>6. CallStands' /\ FilesSeen'
  BY <1>1, <1>2 DEF CallStands, FilesSeen, Server!Ran
<1>7. Server!CallsAuthorized'
  BY <1>1 DEF Server!CallsAuthorized, Server!OneGrantCovers, Server!DecisionRecorded,
    Server!LegacyWide, Server!Ran
<1> QED
  BY <1>4, <1>5, <1>6, <1>7 DEF ServerInv

LEMMA FileEdited == ASSUME ServerInv, Server!Edit PROVE ServerInv'
<1>1. /\ edits' = edits + 1 /\ edits < Edits /\ config' \in Configs
      /\ versions' = IF versions = {} THEN {} ELSE versions \cup {config'}
      /\ UNCHANGED <<ambient, enabled, document, grants, exposed, unbound, callPc, call, trail,
                     decided, reached, snap, rows>>
  BY DEF Server!Edit, Server!policyVars, Server!callVars
<1>2. PolicyServed' /\ Server!Connections' = Server!Connections
  BY <1>1 DEF ServerInv, PolicyServed, Server!Connections
<1>3. Server!AuthorizationTypeOK'
  <2>1. edits \in 0..Edits
    BY DEF ServerInv, Server!AuthorizationTypeOK
  <2>2. edits' \in 0..Edits
    <3>1. Edits \in Nat
      BY ClientAssumption DEF Server!SecurityAssumption
    <3> QED
      BY ONLY <1>1, <2>1, <3>1
  <2> QED
    BY <1>1, <1>2, <2>2 DEF ServerInv, Server!AuthorizationTypeOK
<1>4. CallStands'
  BY <1>1 DEF ServerInv, CallStands, Server!Ran
<1>5. FilesSeen'
  BY <1>1, <1>2, GuardStands DEF ServerInv, FilesSeen, Server!Ran
<1>6. Server!CallsAuthorized'
  BY <1>1, Onward
<1> QED
  BY <1>2, <1>3, <1>4, <1>5, <1>6 DEF ServerInv

LEMMA ServerKept == ASSUME ServerInv, [Server!Next]_Server!vars PROVE ServerInv'
<1>1. CASE UNCHANGED Server!vars
  <2>1. UNCHANGED <<ambient, enabled, document, grants, exposed, unbound, config, edits, callPc,
                    call, trail, decided, reached, snap, rows, versions>>
    BY <1>1 DEF Server!vars, Server!policyVars, Server!callVars, Server!reportVars
  <2>2. PolicyServed' /\ Server!Connections' = Server!Connections
    BY <2>1 DEF ServerInv, PolicyServed, Server!Connections
  <2>3. Server!CallsAuthorized'
    BY <2>1, Onward
  <2>4. CallStands' /\ Server!AuthorizationTypeOK'
    BY <2>1, <2>2 DEF ServerInv, CallStands, Server!AuthorizationTypeOK, Server!Ran
  <2>5. FilesSeen'
    BY <2>1, <2>2, GuardStands DEF ServerInv, FilesSeen, Server!Ran
  <2> QED
    BY <2>2, <2>3, <2>4, <2>5 DEF ServerInv
<1> QED
  BY <1>1, Loads, CallStarts, Invokes, GatewayNames, Authorizes, Handles, RowsReported, CallEnds,
    FileEdited DEF Server!Next

LEMMA ServerAlways == ClientSpec => [](which = "server" => ServerInv)
<1> DEFINE P == which = "server" => ServerInv
<1>1. ClientInit => P
  BY ServerStarts DEF ClientInit
<1>2. P /\ [ClientNext]_clientVars => P'
  <2> SUFFICES ASSUME P, [ClientNext]_clientVars, which' = "server" PROVE ServerInv'
    OBVIOUS
  <2>1. which = "server" /\ [Server!Next]_Server!vars
    BY DEF ClientNext, clientVars, policyVars, Server!vars, Server!policyVars, Server!callVars,
      Server!reportVars
  <2> QED
    BY <2>1, ServerKept
<1> QED
  BY <1>1, <1>2, PTL DEF ClientSpec

(* A handler runs only where one authored grant covers its tool, its connection and  *)
(* every target; the record of a call precedes and says what came of it; and the     *)
(* generated policy loads and denies nothing an edit could repair                    *)
(* (compile_access_policy, dispatch_authorizer, hmc_invoke_tool, legacy_document).   *)
THEOREM CallsAuthorizedAlways == ClientSpec => []CallsAuthorized
<1>1. (which = "server" => ServerInv) => CallsAuthorized
  BY DEF ServerInv, CallsAuthorized
<1> QED
  BY <1>1, ServerAlways, PTL

-----------------------------------------------------------------------------
(* The plan of a partition (LparPlan).                                       *)

Whys == {"unavailable", "system_not_operating", "denied", "insufficient_memory", "name_exists",
         "vlan_missing", "vios_not_running", "storage_unplaceable", "ambiguous",
         "storage_mapped"}
Looks == {"name", "vlan", "vios", "groups", "mapping"}

PlanTypes ==
  /\ sys \in [Plan!Systems -> [operating : BOOLEAN, mem : Nat, named : BOOLEAN, vlan : BOOLEAN,
                               vios : [Plan!Vioses -> Plan!States]]]
  /\ shot \in [Plan!Systems -> [operating : BOOLEAN, mem : Nat, known : BOOLEAN]]
  /\ speaks \in [Plan!Systems -> SUBSET Whys]
  /\ request \in Plan!Requests /\ planAt \in 1..(NSystems + 1)
  /\ planPc \in {"resolve", "capacity", "end"} \cup Looks
  /\ left \subseteq Plan!Vioses /\ selected \in Plan!Systems \cup {0}
  /\ touched \subseteq Plan!Systems /\ faults \in Nat
  /\ stalled \in BOOLEAN /\ complete \in BOOLEAN /\ digest \in BOOLEAN /\ after \in BOOLEAN

\* An entry is of the system as it was, unless that was changed since.
ShotsTrue ==
  \A s \in Plan!Systems :
    /\ s \notin touched /\ shot[s].known =>
         shot[s].operating = sys[s].operating /\ shot[s].mem = sys[s].mem
    /\ planPc = "resolve" /\ s >= planAt => ~shot[s].known
    /\ planPc = "resolve" \/ s > planAt \/ (planPc = "capacity" /\ s = planAt) => speaks[s] = {}

\* The pairs are of the VIOSes that were read.
Collected(s) ==
  pairs = {<<v, Plan!Groups(sys[s].vios[v])>> :
             v \in {w \in Plan!Running(s) \ left : Plan!Groups(sys[s].vios[w]) # 0}}

\* The one VIOS the mapping is looked up of.
Chosen(s) ==
  IF request.kind = "pv" THEN request.vios \in Plan!Running(s) /\ pairs = {<<request.vios, 1>>}
  ELSE \E v \in Plan!Running(s) :
         /\ Plan!Groups(sys[s].vios[v]) = 1 /\ pairs = {<<v, 1>>}
         /\ \A w \in Plan!Running(s) \ {v} : Plan!Groups(sys[s].vios[w]) = 0

\* What the checks so far have shown of a system, when none speaks against it.
Passed(s) ==
  /\ sys[s].operating /\ sys[s].mem >= 2
  /\ planPc # "name" => ~sys[s].named
  /\ planPc \notin {"name", "vlan"} => sys[s].vlan

InHand ==
  planPc \in Looks =>
    /\ planAt \in Plan!Systems /\ shot[planAt].known /\ ~stalled
    /\ complete \/ speaks[planAt] # {}
    /\ planPc = "groups" => request.kind # "pv"
    /\ planPc \in {"name", "vlan", "vios"} => pairs = {}
    /\ planAt \notin touched =>
         /\ speaks[planAt] = {} => Passed(planAt)
         /\ planPc = "groups" => left \subseteq Plan!Running(planAt)
         /\ planPc = "groups" /\ complete => Collected(planAt)
         /\ planPc = "mapping" => Chosen(planAt)

\* The systems that were looked at.
Judged ==
  \A s \in Plan!Systems :
    planPc # "resolve" /\ s < planAt /\ shot[s].known /\ speaks[s] = {} =>
      s \in touched \/ Plan!Fits(s)

\* Where nothing failed and nothing changed, nothing speaks against a system that fits.
Undisturbed ==
  /\ \A s \in Plan!Systems : "denied" \in speaks[s] => faults # 0
  /\ faults = 0 /\ touched = {} =>
       /\ ~stalled /\ complete
       /\ \A s \in Plan!Systems : /\ shot[s].known \/ (planPc = "resolve" /\ s >= planAt)
                                  /\ Plan!Fits(s) => speaks[s] = {}

Settled ==
  planPc = "end" =>
    /\ planAt > NSystems
    /\ selected = IF Plan!Unblocked = {} THEN 0 ELSE Plan!Tightest(Plan!Unblocked)
    /\ digest => Plan!Unblocked # {}

PlanInv ==
  /\ PlanTypes /\ ShotsTrue /\ InHand /\ Judged /\ Undisturbed /\ Settled /\ ~after

LEMMA PlanBounds == NSystems \in Nat /\ NVios \in Nat /\ MaxFaults \in Nat /\ MaxTouches \in Nat
  BY ClientAssumption DEF Plan!PlanAssumption

\* What a system is like depends on it and the request alone.
LEMMA FitsStand ==
  ASSUME NEW s, sys'[s] = sys[s], request' = request
  PROVE  /\ Plan!Fits(s)' <=> Plan!Fits(s)
         /\ Plan!Running(s)' = Plan!Running(s)
         /\ \A st : Plan!Groups(st)' = Plan!Groups(st)
  BY DEF Plan!Fits, Plan!Running, Plan!Groups

LEMMA PlanStarts == ASSUME Plan!Init PROVE PlanInv
<1> USE DEF Plan!Init
<1>1. PlanTypes
  <2>1. Plan!Good \in [operating : BOOLEAN, mem : Nat, named : BOOLEAN, vlan : BOOLEAN,
                       vios : [Plan!Vioses -> Plan!States]]
    BY DEF Plan!Good, Plan!States, Plan!Need
  <2>2. Plan!NoShot \in [operating : BOOLEAN, mem : Nat, known : BOOLEAN]
    BY DEF Plan!NoShot
  <2>3. planAt \in 1..(NSystems + 1) /\ faults \in Nat
    BY PlanBounds
  <2>4. speaks \in [Plan!Systems -> SUBSET Whys]
    OBVIOUS
  <2>5. /\ sys \in [Plan!Systems -> [operating : BOOLEAN, mem : Nat, named : BOOLEAN, vlan : BOOLEAN,
                                     vios : [Plan!Vioses -> Plan!States]]]
        /\ shot \in [Plan!Systems -> [operating : BOOLEAN, mem : Nat, known : BOOLEAN]]
    BY <2>1, <2>2
  <2> QED
    BY <2>3, <2>4, <2>5 DEF PlanTypes
<1>2. ShotsTrue
  BY DEF ShotsTrue, Plan!NoShot
<1>3. InHand /\ Judged /\ Settled /\ ~after
  BY DEF InHand, Looks, Judged, Settled
<1>4. Undisturbed
  BY PlanBounds DEF Undisturbed, Plan!Systems
<1> QED
  BY <1>1, <1>2, <1>3, <1>4 DEF PlanInv

-----------------------------------------------------------------------------
\* A step of the evaluation of one system, and what it says against that.
Tells(why) ==
  /\ planAt \in Plan!Systems /\ why \in SUBSET Whys
  /\ speaks' = [speaks EXCEPT ![planAt] = @ \cup why]
  /\ UNCHANGED <<sys, request, selected, digest, touched, shot>>
  /\ left' \subseteq Plan!Vioses /\ faults' \in Nat /\ faults' >= faults /\ after' = FALSE
  /\ stalled' \in BOOLEAN /\ complete' \in BOOLEAN
  /\ "denied" \in why => faults' # 0
  /\ faults' = 0 /\ touched = {} => ~stalled' /\ complete' /\ (Plan!Fits(planAt) => why = {})

\* The judgement of a system is kept, whatever is found of the next one.
LEMMA JudgedBefore ==
  ASSUME PlanInv, planPc \in {"capacity"} \cup Looks, NEW why, Tells(why), planPc' # "resolve",
         planAt' = planAt \/ planAt' = planAt + 1
  PROVE
         /\ \A s \in Plan!Systems : s # planAt => speaks'[s] = speaks[s]
         /\ speaks'[planAt] = speaks[planAt] \cup why
         /\ Undisturbed'
         /\ \A s \in Plan!Systems :
              /\ Plan!Fits(s)' <=> Plan!Fits(s)
              /\ s < planAt /\ shot'[s].known /\ speaks'[s] = {} => s \in touched \/ Plan!Fits(s)'
<1>1. /\ \A s \in Plan!Systems : s # planAt => speaks'[s] = speaks[s]
      /\ speaks'[planAt] = speaks[planAt] \cup why
  BY DEF PlanInv, PlanTypes, Tells
<1>2. \A s \in Plan!Systems : Plan!Fits(s)' <=> Plan!Fits(s)
  BY FitsStand DEF Tells
<1>3. ASSUME NEW s \in Plan!Systems, s < planAt, shot'[s].known, speaks'[s] = {}
      PROVE  s \in touched \/ Plan!Fits(s)'
  <2>1. shot[s].known /\ speaks[s] = {} /\ s # planAt
    BY <1>1, <1>3 DEF Tells, Plan!Systems, PlanInv, PlanTypes
  <2> QED
    BY <1>2, <1>3, <2>1 DEF PlanInv, Judged, Looks
<1>4. Undisturbed'
  <2>1. ASSUME NEW s \in Plan!Systems, "denied" \in speaks'[s] PROVE faults' # 0
    BY <1>1, <2>1 DEF PlanInv, PlanTypes, Undisturbed, Tells
  <2>2. ASSUME faults' = 0, touched' = {} PROVE faults = 0 /\ touched = {}
    BY <2>2 DEF Tells, PlanInv, PlanTypes
  <2>3. ASSUME faults' = 0, touched' = {}, NEW s \in Plan!Systems
        PROVE  shot'[s].known /\ (Plan!Fits(s)' => speaks'[s] = {})
    BY <1>1, <1>2, <2>2, <2>3 DEF PlanInv, Undisturbed, Tells, Looks
  <2> QED
    BY <2>1, <2>2, <2>3 DEF Undisturbed, Tells
<1> QED
  BY <1>1, <1>2, <1>3, <1>4

\* On to the next system, with this one judged.
LEMMA Judges ==
  ASSUME PlanInv, planPc \in {"capacity"} \cup Looks, NEW why, Tells(why), Plan!NextSystem,
         planAt \notin touched /\ shot[planAt].known /\ speaks'[planAt] = {} =>
           Plan!Fits(planAt)
  PROVE  PlanInv'
<1>1. /\ planPc' = "capacity" /\ planAt' = planAt + 1 /\ planAt \in 1..NSystems
      /\ NSystems \in Nat
  BY PlanBounds DEF Plan!NextSystem, Tells, Plan!Systems
<1>2. /\ \A s \in Plan!Systems : s # planAt => speaks'[s] = speaks[s]
      /\ speaks'[planAt] = speaks[planAt] \cup why
      /\ Undisturbed'
      /\ \A s \in Plan!Systems :
           /\ Plan!Fits(s)' <=> Plan!Fits(s)
           /\ s < planAt /\ shot'[s].known /\ speaks'[s] = {} => s \in touched \/ Plan!Fits(s)'
  BY <1>1, JudgedBefore
<1>3. PlanTypes'
  <2>1. planAt' \in 1..(NSystems + 1)
    BY ONLY <1>1
  <2>2. speaks' \in [Plan!Systems -> SUBSET Whys]
    BY DEF PlanInv, PlanTypes, Tells
  <2> QED
    BY <1>1, <2>1, <2>2 DEF PlanInv, PlanTypes, Tells
<1>4. ShotsTrue'
  <2> SUFFICES ASSUME NEW s \in Plan!Systems
               PROVE  /\ s \notin touched' /\ shot'[s].known =>
                           shot'[s].operating = sys'[s].operating /\ shot'[s].mem = sys'[s].mem
                      /\ s > planAt' \/ s = planAt' => speaks'[s] = {}
    BY <1>1 DEF ShotsTrue
  <2>1. s > planAt' \/ s = planAt' => s > planAt /\ s # planAt
    BY <1>1 DEF Plan!Systems
  <2> QED
    BY <1>2, <2>1 DEF PlanInv, ShotsTrue, Tells
<1>5. Judged'
  <2> SUFFICES ASSUME NEW s \in Plan!Systems, s < planAt', shot'[s].known, speaks'[s] = {}
               PROVE  s \in touched \/ Plan!Fits(s)'
    BY DEF Judged, Tells
  <2>1. s < planAt \/ s = planAt
    BY <1>1 DEF Plan!Systems
  <2> QED
    BY <1>2, <2>1 DEF Tells
<1> QED
  BY <1>1, <1>2, <1>3, <1>4, <1>5 DEF PlanInv, InHand, Looks, Settled, Tells

\* On to the next check of the system.
LEMMA Continues ==
  ASSUME PlanInv, planPc \in {"capacity"} \cup Looks, NEW why, Tells(why),
         planPc' \in Looks, planAt' = planAt, InHand'
  PROVE  PlanInv'
<1>1. /\ \A s \in Plan!Systems : s # planAt => speaks'[s] = speaks[s]
      /\ Undisturbed'
      /\ \A s \in Plan!Systems :
           /\ Plan!Fits(s)' <=> Plan!Fits(s)
           /\ s < planAt /\ shot'[s].known /\ speaks'[s] = {} => s \in touched \/ Plan!Fits(s)'
  BY JudgedBefore DEF Looks
<1>2. PlanTypes'
  <2>1. speaks' \in [Plan!Systems -> SUBSET Whys]
    BY DEF PlanInv, PlanTypes, Tells
  <2> QED
    BY <2>1 DEF PlanInv, PlanTypes, Tells
<1>3. planAt \in 1..NSystems /\ NSystems \in Nat
  BY PlanBounds DEF Tells, Plan!Systems
<1>4. ShotsTrue'
  <2> SUFFICES ASSUME NEW s \in Plan!Systems
               PROVE  /\ s \notin touched' /\ shot'[s].known =>
                           shot'[s].operating = sys'[s].operating /\ shot'[s].mem = sys'[s].mem
                      /\ s > planAt => speaks'[s] = {}
    BY DEF ShotsTrue, Looks
  <2>1. s > planAt => s # planAt
    BY <1>3 DEF Plan!Systems
  <2> QED
    BY <1>1, <2>1 DEF PlanInv, ShotsTrue, Tells
<1>5. Judged'
  BY <1>1 DEF Judged, Tells
<1> QED
  BY <1>1, <1>2, <1>4, <1>5 DEF PlanInv, Settled, Tells, Looks

LEMMA Faulted ==
  ASSUME NEW c, c \in BOOLEAN, Plan!Fault(c), faults \in Nat
  PROVE  faults' \in Nat /\ faults' >= faults /\ (faults' = 0 => ~c /\ faults = 0)
  BY DEF Plan!Fault

\* Nobody is asked after the HMC stopped answering.
LEMMA ReadsOn ==
  ASSUME PlanTypes, ~stalled, ~after, NEW o, Plan!Reads(o)
  PROVE  /\ o \in Plan!Outcomes /\ after' = FALSE /\ stalled' = (o = "stalled")
         /\ faults' \in Nat /\ faults' >= faults
         /\ faults' = 0 => o = "ok" /\ faults = 0
<1>1. o \in Plan!Outcomes /\ Plan!Fault(Plan!Fails(o)) /\ Plan!Fails(o) \in BOOLEAN
  BY DEF Plan!Reads, Plan!Fails
<1>2. faults' \in Nat /\ faults' >= faults /\ (faults' = 0 => ~Plan!Fails(o) /\ faults = 0)
  BY <1>1, Faulted DEF PlanTypes
<1>3. ~Plan!Fails(o) => o = "ok"
  BY <1>1 DEF Plan!Fails, Plan!Outcomes
<1>4. after' = FALSE /\ stalled' = (o = "stalled")
  BY DEF PlanTypes, Plan!Reads
<1> QED
  BY <1>1, <1>2, <1>3, <1>4

LEMMA Said ==
  ASSUME PlanTypes, NEW why, Plan!Speaks(planAt, why)
  PROVE  speaks' = [speaks EXCEPT ![planAt] = @ \cup why]
  BY DEF Plan!Speaks

LEMMA Unsaid ==
  ASSUME PlanTypes, planAt \in Plan!Systems, speaks' = speaks
  PROVE  speaks' = [speaks EXCEPT ![planAt] = @ \cup {}]
  BY DEF PlanTypes

LEMMA ChecksCapacity == ASSUME PlanInv, Plan!CheckCapacity PROVE PlanInv'
<1>1. /\ planPc = "capacity" /\ planAt \in Plan!Systems /\ pairs' = {} /\ complete' = TRUE
      /\ UNCHANGED <<sys, request, selected, digest, touched, touches, shot, stalled, left, after>>
  BY DEF Plan!CheckCapacity, Plan!Looking, Plan!Keep
<1>2. PlanTypes /\ ~after /\ speaks[planAt] = {}
  BY <1>1 DEF PlanInv, ShotsTrue
<1>3. /\ planAt \notin touched /\ shot[planAt].known =>
           shot[planAt].operating = sys[planAt].operating /\ shot[planAt].mem = sys[planAt].mem
      /\ faults = 0 /\ touched = {} => ~stalled /\ shot[planAt].known
  BY <1>1 DEF PlanInv, ShotsTrue, Undisturbed
<1>4. Plan!Fits(planAt) => sys[planAt].operating /\ sys[planAt].mem >= 2
  BY DEF Plan!Fits, Plan!Need
<1>9. shot[planAt].mem \in Nat
  BY <1>1, <1>2 DEF PlanTypes
<1>5. CASE ~shot[planAt].known
  <2>1. Plan!NextSystem /\ faults' = faults /\ speaks' = [speaks EXCEPT ![planAt] = @ \cup {}]
    BY <1>1, <1>2, <1>5, Unsaid DEF Plan!CheckCapacity
  <2>2. Tells({})
    BY <1>1, <1>2, <1>3, <2>1 DEF Tells, PlanTypes
  <2> QED
    BY <1>1, <1>5, <2>1, <2>2, Judges
<1>6. CASE shot[planAt].known /\ stalled
  <2>1. Plan!NextSystem /\ faults' = faults
        /\ speaks' = [speaks EXCEPT ![planAt] = @ \cup {"unavailable"}]
    BY <1>2, <1>6, Said DEF Plan!CheckCapacity
  <2>2. Tells({"unavailable"})
    BY <1>1, <1>2, <1>3, <1>6, <2>1 DEF Tells, PlanTypes, Whys
  <2>3. speaks'[planAt] # {}
    BY <1>1, <1>2, <2>1 DEF PlanTypes
  <2> QED
    BY <1>1, <2>1, <2>2, <2>3, Judges
<1>7. CASE shot[planAt].known /\ ~stalled /\ ~shot[planAt].operating
  <2>1. Plan!NextSystem /\ faults' = faults
        /\ speaks' = [speaks EXCEPT ![planAt] = @ \cup {"system_not_operating"}]
    BY <1>2, <1>7, Said DEF Plan!CheckCapacity
  <2>2. Tells({"system_not_operating"})
    BY <1>1, <1>2, <1>3, <1>4, <1>7, <2>1 DEF Tells, PlanTypes, Whys
  <2>3. speaks'[planAt] # {}
    BY <1>1, <1>2, <2>1 DEF PlanTypes
  <2> QED
    BY <1>1, <2>1, <2>2, <2>3, Judges
<1>8. CASE shot[planAt].known /\ ~stalled /\ shot[planAt].operating
  <2>1. PICK denied \in BOOLEAN :
          /\ Plan!Granted(denied) /\ Plan!Fault(denied /\ ~Plan!DeniedBefore) /\ Plan!Next1("name")
          /\ Plan!Speaks(planAt, IF denied THEN {"denied"}
                                 ELSE IF shot[planAt].mem < 2 THEN {"insufficient_memory"} ELSE {})
    BY <1>8 DEF Plan!CheckCapacity, Plan!Need
  <2> DEFINE why == IF denied THEN {"denied"}
                    ELSE IF shot[planAt].mem < 2 THEN {"insufficient_memory"} ELSE {}
  <2>2. speaks' = [speaks EXCEPT ![planAt] = @ \cup why] /\ planPc' = "name" /\ planAt' = planAt
    BY <1>2, <2>1, Said DEF Plan!Next1
  <2>3. Plan!DeniedBefore => faults # 0
    BY <1>1, PlanBounds DEF PlanInv, PlanTypes, Undisturbed, Plan!DeniedBefore, Plan!Systems
  <2>4. (denied /\ ~Plan!DeniedBefore) \in BOOLEAN
    BY DEF Plan!DeniedBefore
  <2>5. faults' \in Nat /\ faults' >= faults
        /\ (faults' = 0 => ~(denied /\ ~Plan!DeniedBefore) /\ faults = 0)
    BY <1>2, <2>1, <2>4, Faulted DEF PlanTypes
  <2>6. faults' = 0 => ~denied /\ faults = 0
    BY <2>3, <2>5
  <2>7. Tells(why)
    <3>1. why \in SUBSET Whys /\ ("denied" \in why => faults' # 0)
      BY <2>6 DEF Whys
    <3>2. faults' = 0 /\ touched = {} => (Plan!Fits(planAt) => why = {})
      BY <1>1, <1>2, <1>3, <1>4, <1>8, <2>6 DEF PlanTypes
    <3> QED
      BY <1>1, <1>2, <1>3, <1>8, <2>2, <2>5, <3>1, <3>2 DEF Tells, PlanTypes
  <2>8. InHand'
    <3>1. speaks'[planAt] = why
      BY <1>1, <1>2, <2>2 DEF PlanTypes
    <3>2. why = {} /\ planAt \notin touched => sys[planAt].operating /\ sys[planAt].mem >= 2
      <4>1. planAt \notin touched => sys[planAt].operating /\ sys[planAt].mem = shot[planAt].mem
        BY <1>3, <1>8
      <4>2. why = {} => shot[planAt].mem >= 2
        BY ONLY <1>9
      <4> QED
        BY <4>1, <4>2
    <3> HIDE DEF why
    <3> QED
      BY <1>1, <1>8, <2>2, <3>1, <3>2 DEF InHand, Passed, Looks
  <2> QED
    BY <1>1, <2>2, <2>7, <2>8, Continues DEF Looks
<1> QED
  BY <1>5, <1>6, <1>7, <1>8

\* The checks of the name and of the network.
LEMMA Checks == ASSUME PlanInv, Plan!Name \/ Plan!Vlan PROVE PlanInv'
<1> DEFINE step == IF Plan!Name THEN "name" ELSE "vlan"
           next == IF Plan!Name THEN "vlan" ELSE "vios"
           bad == IF Plan!Name THEN sys[planAt].named ELSE ~sys[planAt].vlan
           what == IF Plan!Name THEN "name_exists" ELSE "vlan_missing"
<1>1. PICK o \in Plan!Outcomes :
        /\ planPc = step /\ planAt \in Plan!Systems /\ Plan!Keep
        /\ UNCHANGED <<shot, left, pairs, complete>> /\ Plan!Reads(o)
        /\ Plan!Speaks(planAt, IF Plan!Fails(o) THEN {"unavailable"}
                               ELSE IF bad THEN {what} ELSE {})
        /\ IF o = "stalled" THEN Plan!NextSystem ELSE Plan!Next1(next)
  BY DEF Plan!Name, Plan!Vlan, Plan!Check, Plan!Looking
<1> DEFINE why == IF Plan!Fails(o) THEN {"unavailable"} ELSE IF bad THEN {what} ELSE {}
<1> HIDE DEF step, next, bad, what
<1>2. /\ step \in {"name", "vlan"} /\ next = (IF step = "name" THEN "vlan" ELSE "vios")
      /\ bad = (IF step = "name" THEN sys[planAt].named ELSE ~sys[planAt].vlan)
      /\ what \in {"name_exists", "vlan_missing"}
  BY DEF step, next, bad, what
<1>3. /\ PlanTypes /\ ~after /\ ~stalled /\ shot[planAt].known
      /\ complete \/ speaks[planAt] # {}
      /\ pairs = {}
      /\ planAt \notin touched /\ speaks[planAt] = {} => Passed(planAt)
  BY <1>1, <1>2 DEF PlanInv, InHand, Looks
<1>4. /\ after' = FALSE /\ stalled' = (o = "stalled") /\ faults' \in Nat /\ faults' >= faults
      /\ faults' = 0 => o = "ok" /\ faults = 0
  BY <1>1, <1>3, ReadsOn
<1>5. UNCHANGED <<sys, request, selected, digest, touched, touches>>
  BY <1>1 DEF Plan!Keep
<1>6. speaks' = [speaks EXCEPT ![planAt] = @ \cup why] /\ speaks'[planAt] = speaks[planAt] \cup why
  BY <1>1, <1>3, Said DEF PlanTypes
<1>7. why = {} => ~bad /\ o = "ok"
  BY <1>1 DEF Plan!Fails, Plan!Outcomes
<1>8. o = "ok" /\ Plan!Fits(planAt) => why = {}
  BY <1>2 DEF Plan!Fails, Plan!Fits
<1>9. Tells(why)
  <2>1. why \in SUBSET Whys /\ "denied" \notin why
    BY <1>2 DEF Whys
  <2>2. faults' = 0 /\ touched = {} => ~stalled' /\ complete'
    BY <1>1, <1>4 DEF PlanInv, Undisturbed
  <2> HIDE DEF why
  <2> QED
    BY <1>1, <1>3, <1>4, <1>5, <1>6, <1>8, <2>1, <2>2 DEF Tells, PlanTypes
<1>10. CASE o = "stalled"
  <2>1. speaks'[planAt] # {}
    BY <1>6, <1>10 DEF Plan!Fails
  <2> HIDE DEF why
  <2> QED
    BY <1>1, <1>2, <1>9, <1>10, <2>1, Judges DEF Looks
<1>11. CASE o # "stalled"
  <2>1. planPc' = next /\ planAt' = planAt
    BY <1>1, <1>11 DEF Plan!Next1
  <2> HIDE DEF why
  <2>2. speaks'[planAt] = {} /\ planAt \notin touched => Passed(planAt) /\ ~bad
    BY <1>3, <1>6, <1>7
  <2>3. Passed(planAt) /\ ~bad => Passed(planAt)'
    BY <1>1, <1>2, <1>5, <2>1 DEF Passed
  <2>4. complete' \/ speaks'[planAt] # {}
    BY <1>1, <1>3, <1>6
  <2>5. InHand'
    BY <1>1, <1>2, <1>3, <1>4, <1>5, <1>11, <2>1, <2>2, <2>3, <2>4 DEF InHand, Looks
  <2> QED
    BY <1>1, <1>2, <1>9, <2>1, <2>5, Continues DEF Looks
<1> QED
  BY <1>10, <1>11

LEMMA Least == ASSUME NEW S \in SUBSET Nat, S # {} PROVE \E x \in S : \A y \in S : x <= y
<1> DEFINE R == {ss \in Nat \X Nat : ss[1] < ss[2]}
<1>1. IsWellFoundedOn(R, Nat)
  BY NatLessThanWellFounded DEF OpToRel
<1>2. PICK x \in S : \A y \in S : ~(<<y, x>> \in R)
  BY <1>1, WFMin
<1>3. ASSUME NEW y \in S PROVE x <= y
  <2>1. x \in Nat /\ y \in Nat /\ ~(<<y, x>> \in R)
    BY <1>2
  <2>2. y < x => <<y, x>> \in R
    BY <2>1
  <2> QED
    BY <2>1, <2>2
<1> QED
  BY <1>3

LEMMA GroupCount ==
  ASSUME NEW st
  PROVE  /\ Plan!Groups(st) \in {0, 1, 2}
         /\ Plan!Groups(st) = 1 /\ request.kind # "disk" => st # "mapped"
  BY DEF Plan!Groups

\* What a check that reads leaves of the answers.
Answered(o, why) ==
  /\ UNCHANGED <<sys, request, selected, digest, touched, touches, shot>>
  /\ o \in Plan!Outcomes /\ after' = FALSE /\ stalled' = (o = "stalled")
  /\ faults' \in Nat /\ faults' >= faults /\ (faults' = 0 => o = "ok" /\ faults = 0)
  /\ speaks' = [speaks EXCEPT ![planAt] = @ \cup why]
  /\ speaks'[planAt] = speaks[planAt] \cup why

\* An answer speaks against no system that fits.
LEMMA AnswerTells ==
  ASSUME PlanInv, planPc \in Looks, NEW o, NEW why, Answered(o, why), why \in SUBSET Whys,
         "denied" \notin why, left' \subseteq Plan!Vioses, complete' \in BOOLEAN,
         complete /\ o = "ok" => complete' = TRUE,
         o = "ok" /\ complete /\ touched = {} /\ Plan!Fits(planAt) => why = {}
  PROVE  Tells(why)
<1>1. planAt \in Plan!Systems /\ (faults = 0 /\ touched = {} => complete)
  BY DEF PlanInv, InHand, Undisturbed
<1> QED
  BY <1>1 DEF Tells, Answered

\* What is at hand of a system that is looked at.
LEMMA AtHand ==
  ASSUME PlanInv, planPc \in Looks
  PROVE  /\ PlanTypes /\ ~after /\ ~stalled /\ planAt \in Plan!Systems /\ shot[planAt].known
         /\ complete \/ speaks[planAt] # {}
         /\ planPc = "groups" => request.kind # "pv"
         /\ planPc \in {"name", "vlan", "vios"} => pairs = {}
         /\ planAt \notin touched =>
              /\ speaks[planAt] = {} => Passed(planAt)
              /\ planPc = "groups" => left \subseteq Plan!Running(planAt)
              /\ planPc = "groups" /\ complete => Collected(planAt)
              /\ planPc = "mapping" => Chosen(planAt)
         /\ Plan!Running(planAt) \subseteq Plan!Vioses
  BY DEF PlanInv, InHand, Plan!Running

LEMMA Answers ==
  ASSUME PlanInv, planPc \in Looks, NEW o, Plan!Reads(o), Plan!Keep, UNCHANGED shot, NEW why,
         Plan!Speaks(planAt, why)
  PROVE  Answered(o, why)
<1>1. PlanTypes /\ ~stalled /\ ~after /\ planAt \in Plan!Systems
  BY AtHand
<1>2. speaks' = [speaks EXCEPT ![planAt] = @ \cup why] /\ speaks'[planAt] = speaks[planAt] \cup why
  BY <1>1, Said DEF PlanTypes
<1> QED
  BY <1>1, <1>2, ReadsOn DEF Answered, Plan!Keep

LEMMA ReadsVios == ASSUME PlanInv, Plan!VioStates PROVE PlanInv'
<1>1. /\ planPc = "vios" /\ planPc \in Looks /\ Plan!Keep /\ UNCHANGED <<shot, complete>>
  BY DEF Plan!VioStates, Plan!Looking, Looks
<1>2. PICK o \in Plan!Outcomes :
       /\ Plan!Reads(o)
       /\ IF Plan!Fails(o)
          THEN Plan!NextSystem /\ Plan!Speaks(planAt, {"unavailable"}) /\ UNCHANGED <<left, pairs>>
          ELSE IF Plan!Running(planAt) = {}
          THEN Plan!NextSystem /\ Plan!Speaks(planAt, {"vios_not_running"}) /\ UNCHANGED <<left, pairs>>
          ELSE IF request.kind # "pv"
          THEN Plan!Next1("groups") /\ left' = Plan!Running(planAt) /\ UNCHANGED <<pairs, speaks>>
          ELSE IF request.vios = 0
          THEN Plan!NextSystem /\ Plan!Speaks(planAt, {"storage_unplaceable"}) /\ UNCHANGED <<left, pairs>>
          ELSE Plan!Next1("mapping") /\ pairs' = {<<request.vios, 1>>} /\ UNCHANGED <<left, speaks>>
  BY DEF Plan!VioStates
<1>3. Plan!Fails(o) <=> o # "ok"
  BY DEF Plan!Fails, Plan!Outcomes
<1>4. Plan!Fits(planAt) => Plan!Running(planAt) # {} /\ (request.kind = "pv" => request.vios # 0)
  <2>1. Plan!Running(planAt) \subseteq 1..NVios
    BY DEF Plan!Running, Plan!Vioses
  <2> QED
    BY <2>1, PlanBounds DEF Plan!Fits
<1>5. ASSUME NEW w \in Whys, w # "denied", Plan!NextSystem, Plan!Speaks(planAt, {w}),
             UNCHANGED left, o = "ok" => ~Plan!Fits(planAt)
      PROVE  PlanInv'
  <2>1. Answered(o, {w})
    BY <1>1, <1>2, <1>5, Answers
  <2>2. Tells({w})
    BY <1>1, <1>5, <2>1, AtHand, AnswerTells DEF PlanTypes
  <2>3. speaks'[planAt] # {}
    BY <2>1 DEF Answered
  <2> QED
    BY <1>1, <1>5, <2>2, <2>3, Judges
<1>6. CASE Plan!Fails(o) \/ Plan!Running(planAt) = {} \/ (request.kind = "pv" /\ request.vios = 0)
  BY <1>2, <1>3, <1>4, <1>5, <1>6 DEF Whys
<1>7. CASE ~Plan!Fails(o) /\ Plan!Running(planAt) # {} /\ ~(request.kind = "pv" /\ request.vios = 0)
  <2>1. /\ speaks' = speaks /\ planAt' = planAt /\ o = "ok" /\ left' \subseteq Plan!Vioses
        /\ planPc' \in {"groups", "mapping"}
        /\ planPc' = "groups" => /\ request.kind # "pv" /\ left' = Plan!Running(planAt)
                                 /\ pairs' = pairs
        /\ planPc' = "mapping" => request.kind = "pv" /\ pairs' = {<<request.vios, 1>>}
    BY <1>1, <1>2, <1>3, <1>7, AtHand DEF Plan!Next1, PlanTypes
  <2>2. Answered(o, {})
    <3>1. PlanTypes /\ ~stalled /\ ~after /\ planAt \in Plan!Systems
      BY <1>1, AtHand
    <3>2. speaks' = [speaks EXCEPT ![planAt] = @ \cup {}] /\ speaks'[planAt] = speaks[planAt] \cup {}
      BY <2>1, <3>1, Unsaid
    <3> QED
      BY <1>1, <1>2, <3>1, <3>2, ReadsOn DEF Answered, Plan!Keep
  <2>3. Tells({})
    BY <1>1, <2>1, <2>2, AtHand, AnswerTells DEF PlanTypes
  <2>4. request.kind = "pv" => request.vios \in Plan!Running(planAt)
    BY <1>7 DEF Plan!Running
  <2>5. Plan!Running(planAt)' = Plan!Running(planAt)
    BY <2>1, <2>2, FitsStand DEF Answered, Plan!Running
  <2>6. speaks[planAt] = {} /\ planAt \notin touched => Passed(planAt)'
    BY <1>1, <2>1, <2>2, AtHand DEF Passed, Answered
  <2>7. planPc' = "groups" => Collected(planAt)'
    BY <1>1, <2>1, <2>5, AtHand DEF Collected
  <2>8. planPc' = "mapping" => Chosen(planAt)'
    BY <2>1, <2>2, <2>4, <2>5 DEF Chosen, Answered
  <2>9. InHand'
    BY <1>1, <2>1, <2>2, <2>5, <2>6, <2>7, <2>8, AtHand DEF InHand, Answered
  <2> QED
    BY <1>1, <2>1, <2>3, <2>9, Continues DEF Looks
<1> QED
  BY <1>6, <1>7

LEMMA ReadsGroups == ASSUME PlanInv, Plan!VolumeGroups PROVE PlanInv'
<1> DEFINE v == CHOOSE x \in left : \A y \in left : x <= y
<1>1. /\ planPc = "groups" /\ planPc \in Looks /\ left # {} /\ Plan!Keep /\ UNCHANGED shot
  BY DEF Plan!VolumeGroups, Plan!Looking, Looks
<1>2. v \in left
  <2>1. left \in SUBSET Nat
    BY <1>1, PlanBounds, AtHand DEF PlanTypes, Plan!Vioses
  <2> QED
    BY <1>1, <2>1, Least
<1> HIDE DEF v
<1>3. PICK o \in Plan!Outcomes :
        /\ Plan!Reads(o) /\ left' = left \ {v} /\ complete' = (complete /\ ~Plan!Fails(o))
        /\ pairs' = IF Plan!Fails(o) \/ Plan!Groups(sys[planAt].vios[v]) = 0 THEN pairs
                    ELSE pairs \cup {<<v, Plan!Groups(sys[planAt].vios[v])>>}
        /\ Plan!Speaks(planAt, IF Plan!Fails(o) THEN {"unavailable"} ELSE {})
        /\ IF o = "stalled" THEN Plan!NextSystem ELSE Plan!Next1("groups")
  BY DEF Plan!VolumeGroups, v
<1> DEFINE why == IF Plan!Fails(o) THEN {"unavailable"} ELSE {}
<1>4. (Plan!Fails(o) <=> o # "ok") /\ why \in SUBSET Whys /\ "denied" \notin why
  BY DEF Plan!Fails, Plan!Outcomes, Whys
<1>5. Answered(o, why)
  BY <1>1, <1>3, Answers
<1>6. /\ left' \subseteq Plan!Vioses /\ complete' \in BOOLEAN
      /\ complete' <=> complete /\ o = "ok"
      /\ complete' \/ speaks'[planAt] # {}
  BY <1>1, <1>3, <1>4, <1>5, AtHand DEF PlanTypes, Answered
<1>7. Tells(why)
  BY <1>1, <1>4, <1>5, <1>6, AnswerTells
<1>8. CASE o = "stalled"
  <2>1. speaks'[planAt] # {}
    BY <1>4, <1>5, <1>8 DEF Answered
  <2> HIDE DEF why
  <2> QED
    BY <1>1, <1>3, <1>7, <1>8, <2>1, Judges
<1>9. CASE o # "stalled"
  <2>1. planPc' = "groups" /\ planAt' = planAt
    BY <1>3, <1>9 DEF Plan!Next1
  <2>2. /\ Plan!Running(planAt)' = Plan!Running(planAt)
        /\ \A st : Plan!Groups(st)' = Plan!Groups(st)
        /\ UNCHANGED <<sys, request, touched, shot>>
    BY <1>5, <2>1 DEF Answered, Plan!Running, Plan!Groups
  <2>3. complete' /\ planAt \notin touched => Collected(planAt)'
    <3> SUFFICES ASSUME complete', planAt \notin touched PROVE Collected(planAt)'
      OBVIOUS
    <3>1. complete /\ ~Plan!Fails(o) /\ left \subseteq Plan!Running(planAt) /\ Collected(planAt)
      BY <1>1, <1>4, <1>6, AtHand
    <3>2. Plan!Running(planAt) \ left' = (Plan!Running(planAt) \ left) \cup {v}
      BY <1>2, <1>3, <3>1
    <3>3. pairs' = {<<u, Plan!Groups(sys[planAt].vios[u])>> :
                      u \in {w \in Plan!Running(planAt) \ left' :
                              Plan!Groups(sys[planAt].vios[w]) # 0}}
      BY <1>3, <3>1, <3>2 DEF Collected
    <3> QED
      BY <2>1, <2>2, <3>3 DEF Collected
  <2>4. speaks'[planAt] = {} /\ planAt \notin touched => Passed(planAt)'
    BY <1>1, <1>5, <2>1, <2>2, AtHand DEF Passed, Answered
  <2> HIDE DEF why
  <2>5. InHand'
    BY <1>1, <1>3, <1>5, <1>6, <1>9, <2>1, <2>2, <2>3, <2>4, AtHand DEF InHand, Answered
  <2> QED
    BY <1>1, <1>7, <2>1, <2>5, Continues
<1> QED
  BY <1>8, <1>9

\* Of the pairs of a system that was read to the end.
LEMMA PairsAre ==
  ASSUME PlanInv, planPc = "groups", left = {}, complete, planAt \notin touched
  PROVE  /\ \A v \in Plan!Running(planAt) :
              /\ pairs = {<<v, 1>>} =>
                   /\ Plan!Groups(sys[planAt].vios[v]) = 1
                   /\ \A w \in Plan!Running(planAt) \ {v} : Plan!Groups(sys[planAt].vios[w]) = 0
              /\ /\ Plan!Groups(sys[planAt].vios[v]) = 1
                 /\ \A w \in Plan!Running(planAt) \ {v} : Plan!Groups(sys[planAt].vios[w]) = 0
                 => pairs = {<<v, 1>>}
         /\ \A v \in Plan!Vioses : pairs = {<<v, 1>>} => v \in Plan!Running(planAt)
<1> DEFINE groups(w) == Plan!Groups(sys[planAt].vios[w])
           running == Plan!Running(planAt)
<1>1. pairs = {<<v, groups(v)>> : v \in {w \in running : groups(w) # 0}}
  BY AtHand DEF Collected, Looks
<1> HIDE DEF groups, running
<1>2. \A v, n : <<v, n>> \in pairs <=> v \in running /\ n = groups(v) /\ n # 0
  BY <1>1
<1>3. ASSUME NEW v \in running, pairs = {<<v, 1>>}
      PROVE  groups(v) = 1 /\ \A w \in running \ {v} : groups(w) = 0
  <2>1. groups(v) = 1
    BY <1>2, <1>3
  <2>2. ASSUME NEW w \in running \ {v}, groups(w) # 0 PROVE FALSE
    <3>1. <<w, groups(w)>> \in pairs
      BY <1>2, <2>2
    <3> QED
      BY <1>3, <2>2, <3>1
  <2> QED
    BY <2>1, <2>2
<1>4. ASSUME NEW v \in running, groups(v) = 1, \A w \in running \ {v} : groups(w) = 0
      PROVE  pairs = {<<v, 1>>}
  <2>1. {w \in running : groups(w) # 0} = {v}
    BY <1>4
  <2> QED
    BY <1>1, <1>4, <2>1
<1>5. \A v : pairs = {<<v, 1>>} => v \in running
  BY <1>2
<1> QED
  BY <1>3, <1>4, <1>5 DEF groups, running

LEMMA Places == ASSUME PlanInv, Plan!Storage PROVE PlanInv'
<1>1. /\ planPc = "groups" /\ planPc \in Looks /\ left = {} /\ Plan!Keep
      /\ UNCHANGED <<shot, stalled, left, pairs, complete, after, faults>>
      /\ IF ~complete THEN Plan!NextSystem /\ UNCHANGED speaks
         ELSE IF pairs = {} THEN Plan!NextSystem /\ Plan!Speaks(planAt, {"storage_unplaceable"})
         ELSE IF ~Plan!One THEN Plan!NextSystem /\ Plan!Speaks(planAt, {"ambiguous"})
         ELSE IF request.kind = "new" THEN Plan!NextSystem /\ UNCHANGED speaks
         ELSE Plan!Next1("mapping") /\ UNCHANGED speaks
  BY DEF Plan!Storage, Plan!Looking, Looks
<1>2. /\ PlanTypes /\ ~after /\ ~stalled /\ planAt \in Plan!Systems /\ shot[planAt].known
      /\ complete \/ speaks[planAt] # {}
      /\ request.kind # "pv"
      /\ planAt \notin touched => (speaks[planAt] = {} => Passed(planAt))
      /\ faults = 0 /\ touched = {} => ~stalled /\ complete
      /\ Plan!Running(planAt) \subseteq Plan!Vioses
  BY <1>1, AtHand DEF PlanInv, Undisturbed
<1>3. UNCHANGED <<sys, request, selected, digest, touched, touches>>
  BY <1>1 DEF Plan!Keep
<1>4. complete /\ planAt \notin touched /\ Plan!Fits(planAt) => Plan!One /\ pairs # {}
  <2>1. Plan!Fits(planAt) =>
          \E v \in Plan!Running(planAt) :
            /\ Plan!Groups(sys[planAt].vios[v]) = 1
            /\ \A w \in Plan!Running(planAt) \ {v} : Plan!Groups(sys[planAt].vios[w]) = 0
    BY <1>2 DEF Plan!Fits
  <2> QED
    BY <1>1, <1>2, <2>1, PairsAre DEF Plan!One
<1>5. ASSUME NEW w \in Whys, w # "denied", Plan!NextSystem, Plan!Speaks(planAt, {w}),
             touched = {} => ~Plan!Fits(planAt)
      PROVE  PlanInv'
  <2>1. speaks' = [speaks EXCEPT ![planAt] = @ \cup {w}] /\ speaks'[planAt] # {}
    BY <1>2, <1>5, Said DEF PlanTypes
  <2>2. Tells({w})
    BY <1>1, <1>2, <1>3, <1>5, <2>1 DEF Tells, PlanTypes
  <2> QED
    BY <1>1, <1>5, <2>1, <2>2, Judges
<1>6. ASSUME speaks' = speaks
      PROVE  Tells({}) /\ speaks'[planAt] = speaks[planAt]
  <2>1. speaks' = [speaks EXCEPT ![planAt] = @ \cup {}]
    BY <1>2, <1>6, Unsaid
  <2>2. /\ after' = FALSE /\ stalled' = FALSE /\ complete' \in BOOLEAN /\ left' \subseteq Plan!Vioses
        /\ faults' \in Nat /\ faults' >= faults
        /\ faults' = 0 /\ touched = {} => complete'
    BY <1>1, <1>2 DEF PlanTypes
  <2>3. Tells({})
    BY ONLY <1>2, <1>3, <1>1, <2>1, <2>2 DEF Tells
  <2> QED
    BY <1>6, <2>3
<1>7. CASE ~complete
  <2>1. speaks' = speaks /\ Plan!NextSystem /\ speaks[planAt] # {}
    BY <1>1, <1>2, <1>7
  <2> QED
    BY <1>1, <1>6, <2>1, Judges
<1>8. CASE complete /\ pairs = {}
  BY <1>1, <1>2, <1>4, <1>5, <1>8 DEF Whys
<1>9. CASE complete /\ pairs # {} /\ ~Plan!One
  BY <1>1, <1>2, <1>4, <1>5, <1>9 DEF Whys
<1>10. CASE complete /\ pairs # {} /\ Plan!One
  <2>1. PICK v \in Plan!Vioses : pairs = {<<v, 1>>}
    BY <1>10 DEF Plan!One
  <2>2. planAt \notin touched =>
          /\ v \in Plan!Running(planAt) /\ Plan!Groups(sys[planAt].vios[v]) = 1
          /\ \A w \in Plan!Running(planAt) \ {v} : Plan!Groups(sys[planAt].vios[w]) = 0
    BY <1>1, <1>10, <2>1, PairsAre
  <2>3. CASE request.kind = "new"
    <3>1. speaks' = speaks /\ Plan!NextSystem
      BY <1>1, <1>10, <2>3
    <3>2. planAt \notin touched /\ speaks[planAt] = {} => Plan!Fits(planAt)
      <4>1. Plan!Groups(sys[planAt].vios[v]) = 1 => sys[planAt].vios[v] # "mapped"
        BY <2>3, GroupCount
      <4> QED
        BY <1>1, <1>2, <2>2, <4>1 DEF Plan!Fits, Passed, Plan!Need
    <3> QED
      BY <1>1, <1>6, <3>1, <3>2, Judges
  <2>4. CASE request.kind # "new"
    <3>1. speaks' = speaks /\ planPc' = "mapping" /\ planAt' = planAt
      BY <1>1, <1>10, <2>4 DEF Plan!Next1
    <3>2. /\ Plan!Running(planAt)' = Plan!Running(planAt)
          /\ \A st : Plan!Groups(st)' = Plan!Groups(st)
      BY <1>3, <3>1 DEF Plan!Running, Plan!Groups
    <3>3. planAt \notin touched => Chosen(planAt)'
      BY <1>1, <1>2, <1>3, <2>1, <2>2, <3>1, <3>2 DEF Chosen
    <3>4. planAt \notin touched /\ speaks[planAt] = {} => Passed(planAt)'
      BY <1>1, <1>2, <1>3, <3>1 DEF Passed
    <3>5. InHand'
      BY <1>1, <1>2, <1>3, <3>1, <3>3, <3>4 DEF InHand
    <3> QED
      BY <1>1, <1>6, <3>1, <3>5, Continues DEF Looks
  <2> QED
    BY <2>3, <2>4
<1> QED
  BY <1>7, <1>8, <1>9, <1>10

LEMMA LooksUpMapping == ASSUME PlanInv, Plan!Mapping PROVE PlanInv'
<1> DEFINE mapped == \E p \in pairs : sys[planAt].vios[p[1]] = "mapped"
<1>1. /\ planPc = "mapping" /\ planPc \in Looks /\ Plan!Keep /\ UNCHANGED <<shot, left, complete>>
      /\ Plan!NextSystem
  BY DEF Plan!Mapping, Plan!Looking, Looks
<1>2. PICK o \in Plan!Outcomes :
        /\ Plan!Reads(o)
        /\ Plan!Speaks(planAt, IF Plan!Fails(o) THEN {"unavailable"}
                               ELSE IF mapped THEN {"storage_mapped"} ELSE {})
  BY DEF Plan!Mapping
<1> DEFINE why == IF Plan!Fails(o) THEN {"unavailable"} ELSE IF mapped THEN {"storage_mapped"} ELSE {}
<1>3. planAt \notin touched /\ speaks[planAt] = {} => Passed(planAt)
  BY <1>1, AtHand
<1>4. planAt \notin touched => Chosen(planAt)
  BY <1>1, AtHand
<1>5. planAt \notin touched /\ Plan!Fits(planAt) => ~mapped
  <2> SUFFICES ASSUME planAt \notin touched, Plan!Fits(planAt), mapped PROVE FALSE
    OBVIOUS
  <2>1. CASE request.kind = "pv"
    BY <1>4, <2>1 DEF Chosen, Plan!Fits
  <2>2. CASE request.kind # "pv"
    <3>1. PICK v \in Plan!Running(planAt) :
            Plan!Groups(sys[planAt].vios[v]) = 1 /\ pairs = {<<v, 1>>}
      BY <1>4, <2>2 DEF Chosen
    <3>2. PICK u \in Plan!Running(planAt) :
            /\ sys[planAt].vios[u] # "mapped"
            /\ \A w \in Plan!Running(planAt) \ {u} : Plan!Groups(sys[planAt].vios[w]) = 0
      BY <2>2 DEF Plan!Fits
    <3>3. u = v
      BY <3>1, <3>2
    <3> QED
      BY <3>1, <3>2, <3>3
  <2> QED
    BY <2>1, <2>2
<1>6. planAt \notin touched /\ ~mapped /\ Passed(planAt) => Plan!Fits(planAt)
  <2> SUFFICES ASSUME planAt \notin touched, ~mapped, Passed(planAt) PROVE Plan!Fits(planAt)
    OBVIOUS
  <2>1. sys[planAt].operating /\ sys[planAt].mem >= 2 /\ ~sys[planAt].named /\ sys[planAt].vlan
    BY <1>1 DEF Passed
  <2>2. CASE request.kind = "pv"
    <3>1. request.vios \in Plan!Running(planAt) /\ pairs = {<<request.vios, 1>>}
      BY <1>4, <2>2 DEF Chosen
    <3>2. sys[planAt].vios[request.vios] # "mapped"
      BY <3>1
    <3> QED
      BY <2>1, <2>2, <3>1, <3>2 DEF Plan!Fits, Plan!Need
  <2>3. CASE request.kind # "pv"
    <3>1. PICK v \in Plan!Running(planAt) :
            /\ Plan!Groups(sys[planAt].vios[v]) = 1 /\ pairs = {<<v, 1>>}
            /\ \A w \in Plan!Running(planAt) \ {v} : Plan!Groups(sys[planAt].vios[w]) = 0
      BY <1>4, <2>3 DEF Chosen
    <3>2. sys[planAt].vios[v] # "mapped"
      BY <3>1
    <3> QED
      BY <2>1, <2>3, <3>1, <3>2 DEF Plan!Fits, Plan!Need
  <2> QED
    BY <2>2, <2>3
<1> HIDE DEF mapped
<1>7. (Plan!Fails(o) <=> o # "ok") /\ why \in SUBSET Whys /\ "denied" \notin why
      /\ (why = {} => ~mapped)
  BY DEF Plan!Fails, Plan!Outcomes, Whys
<1>8. Answered(o, why)
  BY <1>1, <1>2, Answers
<1>9. Tells(why)
  <2>1. o = "ok" /\ touched = {} /\ Plan!Fits(planAt) => why = {}
    BY <1>5, <1>7
  <2> HIDE DEF why
  <2> QED
    BY <1>1, <1>7, <1>8, <2>1, AtHand, AnswerTells DEF PlanTypes
<1> HIDE DEF why
<1>10. planAt \notin touched /\ speaks'[planAt] = {} => Plan!Fits(planAt)
  BY <1>3, <1>6, <1>7, <1>8 DEF Answered
<1> QED
  BY <1>1, <1>9, <1>10, Judges

-----------------------------------------------------------------------------
\* Before the first check nothing speaks against a system.
LEMMA Resolves == ASSUME PlanInv, Plan!Resolve \/ Plan!Enumerate PROVE PlanInv'
<1>1. /\ planPc = "resolve" /\ planPc' = "resolve" /\ planAt' \in 1..(NSystems + 1)
      /\ planAt' >= planAt
      /\ UNCHANGED <<sys, request, selected, digest, touched, touches, left, pairs, complete, speaks>>
  BY PlanBounds DEF Plan!Resolve, Plan!Enumerate, Plan!Keep, PlanInv, PlanTypes, Plan!Systems
<1>2. PlanTypes /\ ~after /\ NSystems \in Nat
  BY PlanBounds DEF PlanInv
<1>3. /\ after' = FALSE /\ stalled' \in BOOLEAN /\ faults' \in Nat /\ faults' >= faults
      /\ shot' \in [Plan!Systems -> [operating : BOOLEAN, mem : Nat, known : BOOLEAN]]
      /\ \A s \in Plan!Systems :
           /\ s >= planAt' => shot'[s] = shot[s]
           /\ \/ shot'[s] = shot[s]
              \/ shot'[s].operating = sys[s].operating /\ shot'[s].mem = sys[s].mem
      /\ faults' = 0 => /\ faults = 0 /\ (~stalled => ~stalled')
                        /\ ~stalled => \A s \in Plan!Systems :
                                         s < planAt' => \/ shot'[s].known
                                                        \/ (s < planAt /\ shot'[s] = shot[s])
  <2> DEFINE entry(s) == [operating |-> sys[s].operating, mem |-> sys[s].mem, known |-> TRUE]
  <2>1. \A s \in Plan!Systems :
          /\ entry(s) \in [operating : BOOLEAN, mem : Nat, known : BOOLEAN] /\ entry(s).known
          /\ entry(s).operating = sys[s].operating /\ entry(s).mem = sys[s].mem
    BY <1>2 DEF PlanTypes
  <2>2. CASE Plan!Resolve
    <3>1. PICK o \in Plan!Outcomes :
            /\ IF stalled THEN o = "failed" /\ UNCHANGED <<stalled, faults, after>> ELSE Plan!Reads(o)
            /\ shot' = [shot EXCEPT ![planAt] = IF o = "ok" THEN entry(planAt) ELSE @]
      BY <2>2 DEF Plan!Resolve
    <3>2. planAt \in Plan!Systems /\ planAt' = planAt + 1
      BY <2>2 DEF Plan!Resolve
    <3> HIDE DEF entry
    <3>3. ~stalled => /\ after' = FALSE /\ stalled' = (o = "stalled") /\ faults' \in Nat
                      /\ faults' >= faults /\ (faults' = 0 => o = "ok" /\ faults = 0)
      BY <1>2, <3>1, ReadsOn
    <3>4. stalled => after' = FALSE /\ stalled' = stalled /\ faults' = faults
      BY <1>2, <3>1 DEF PlanTypes
    <3>5. /\ after' = FALSE /\ stalled' \in BOOLEAN /\ faults' \in Nat /\ faults' >= faults
          /\ faults' = 0 => faults = 0 /\ (~stalled => o = "ok" /\ ~stalled')
      <4>1. stalled \in BOOLEAN /\ faults \in Nat /\ faults >= faults
        BY <1>2 DEF PlanTypes
      <4>2. CASE stalled
        BY ONLY <3>4, <4>1, <4>2
      <4>3. CASE ~stalled
        BY ONLY <3>3, <4>3
      <4> QED
        BY <4>2, <4>3
    <3>6. /\ \A s \in Plan!Systems : shot'[s] = IF s = planAt /\ o = "ok" THEN entry(s) ELSE shot[s]
          /\ shot' \in [Plan!Systems -> [operating : BOOLEAN, mem : Nat, known : BOOLEAN]]
      <4> DEFINE E == [operating : BOOLEAN, mem : Nat, known : BOOLEAN]
                 e == IF o = "ok" THEN entry(planAt) ELSE shot[planAt]
      <4>1. shot \in [Plan!Systems -> E] /\ entry(planAt) \in E
        BY <1>2, <2>1, <3>2 DEF PlanTypes
      <4>2. shot' = [shot EXCEPT ![planAt] = e] /\ e \in E
        BY <3>1, <3>2, <4>1
      <4> HIDE DEF E, e
      <4>3. shot' \in [Plan!Systems -> E]
        BY <3>2, <4>1, <4>2
      <4>4. \A s \in Plan!Systems : shot'[s] = IF s = planAt THEN e ELSE shot[s]
        BY <3>2, <4>1, <4>2
      <4> QED
        BY <4>3, <4>4 DEF E, e
    <3>7. \A s \in Plan!Systems : (s >= planAt' => s # planAt) /\ (s < planAt' => s < planAt \/ s = planAt)
      BY <1>2, <3>2 DEF Plan!Systems
    <3>8. \A s \in Plan!Systems : s < planAt => s # planAt
      BY <1>2, <3>2 DEF Plan!Systems
    <3>9. ASSUME NEW s \in Plan!Systems
          PROVE  /\ s >= planAt' => shot'[s] = shot[s]
                 /\ \/ shot'[s] = shot[s]
                    \/ shot'[s].operating = sys[s].operating /\ shot'[s].mem = sys[s].mem
                 /\ o = "ok" /\ s < planAt' =>
                      shot'[s].known \/ (s < planAt /\ shot'[s] = shot[s])
      BY <2>1, <3>6, <3>7, <3>8
    <3> QED
      BY <3>5, <3>6, <3>9
  <2>3. CASE Plan!Enumerate
    <3>1. PICK o \in Plan!Outcomes :
            /\ Plan!Fault(Plan!Fails(o)) /\ UNCHANGED <<stalled, after>>
            /\ shot' = IF o = "ok" THEN [s \in Plan!Systems |-> entry(s)] ELSE shot
      BY <2>3 DEF Plan!Enumerate
    <3>2. planAt' = NSystems + 1
      BY <2>3 DEF Plan!Enumerate
    <3> HIDE DEF entry
    <3>3. /\ Plan!Fails(o) \in BOOLEAN /\ (Plan!Fails(o) <=> o # "ok")
      BY DEF Plan!Fails, Plan!Outcomes
    <3>4. faults' \in Nat /\ faults' >= faults /\ (faults' = 0 => o = "ok" /\ faults = 0)
      BY <1>2, <3>1, <3>3, Faulted DEF PlanTypes
    <3>5. \A s \in Plan!Systems : ~(s >= planAt')
      BY <1>2, <3>2 DEF Plan!Systems
    <3>6. \A s \in Plan!Systems : shot'[s] = IF o = "ok" THEN entry(s) ELSE shot[s]
      BY <3>1
    <3>7. /\ shot' \in [Plan!Systems -> [operating : BOOLEAN, mem : Nat, known : BOOLEAN]]
          /\ after' = FALSE /\ stalled' = stalled /\ stalled' \in BOOLEAN
      BY <1>2, <2>1, <3>1 DEF PlanTypes
    <3>8. ASSUME NEW s \in Plan!Systems
          PROVE  /\ s >= planAt' => shot'[s] = shot[s]
                 /\ \/ shot'[s] = shot[s]
                    \/ shot'[s].operating = sys[s].operating /\ shot'[s].mem = sys[s].mem
                 /\ o = "ok" => shot'[s].known
      BY <2>1, <3>5, <3>6
    <3> QED
      BY <3>4, <3>7, <3>8
  <2> QED
    BY <2>2, <2>3
<1>4. PlanTypes'
  BY <1>1, <1>2, <1>3 DEF PlanTypes
<1>5. \A s \in Plan!Systems : s >= planAt' => s >= planAt
  BY <1>1, <1>2 DEF PlanTypes, Plan!Systems
<1>6. ShotsTrue'
  BY <1>1, <1>3, <1>5 DEF PlanInv, ShotsTrue
<1>7. \A s \in Plan!Systems : Plan!Fits(s)' <=> Plan!Fits(s)
  BY <1>1, FitsStand
<1>8. Undisturbed'
  <2>1. ASSUME faults' = 0, touched' = {}, NEW s \in Plan!Systems
        PROVE  shot'[s].known \/ s >= planAt'
    <3>1. faults = 0 /\ touched = {} /\ ~stalled /\ (shot[s].known \/ s >= planAt)
      BY <1>1, <1>3, <2>1 DEF PlanInv, Undisturbed
    <3>2. s < planAt' \/ s >= planAt'
      BY <1>1, <1>2 DEF Plan!Systems
    <3>3. s < planAt /\ s >= planAt => FALSE
      BY <1>2 DEF Plan!Systems, PlanTypes
    <3> QED
      BY <1>3, <2>1, <3>1, <3>2, <3>3
  <2>2. \A s \in Plan!Systems : "denied" \in speaks'[s] => faults' # 0
    BY <1>1, <1>2, <1>3 DEF PlanInv, Undisturbed, PlanTypes
  <2>3. faults' = 0 /\ touched' = {} => /\ ~stalled' /\ complete'
                                       /\ \A s \in Plan!Systems : Plan!Fits(s)' => speaks'[s] = {}
    BY <1>1, <1>3, <1>7 DEF PlanInv, Undisturbed
  <2> QED
    BY <1>1, <2>1, <2>2, <2>3 DEF Undisturbed
<1> QED
  BY <1>1, <1>3, <1>4, <1>6, <1>8 DEF PlanInv, InHand, Looks, Judged, Settled

LEMMA EvaluationStarts == ASSUME PlanInv, Plan!Resolved PROVE PlanInv'
<1>1. /\ planPc = "resolve" /\ planAt > NSystems /\ planAt' = 1 /\ planPc' = "capacity"
      /\ UNCHANGED <<sys, request, selected, digest, touched, touches, shot, stalled, left, pairs,
                     complete, speaks, after, faults>>
  BY DEF Plan!Resolved, Plan!Keep
<1>2. NSystems \in Nat /\ 1 \in 1..(NSystems + 1) /\ \A s \in Plan!Systems : ~(s < 1) /\ ~(s >= planAt)
  BY <1>1, PlanBounds DEF Plan!Systems, PlanInv, PlanTypes
<1>3. PlanTypes'
  BY <1>1, <1>2 DEF PlanInv, PlanTypes
<1>4. ShotsTrue'
  BY <1>1 DEF PlanInv, ShotsTrue
<1>5. \A s \in Plan!Systems : Plan!Fits(s)' <=> Plan!Fits(s)
  BY <1>1, FitsStand
<1>6. Undisturbed'
  BY <1>1, <1>2, <1>5 DEF PlanInv, Undisturbed
<1> QED
  BY <1>1, <1>2, <1>3, <1>4, <1>6 DEF PlanInv, InHand, Looks, Judged, Settled

\* The tightest of some systems is one of them, and as tight as each.
LEMMA TightestIs ==
  ASSUME PlanTypes, NEW S \in SUBSET Plan!Systems, S # {}
  PROVE  /\ Plan!Tightest(S) \in S
         /\ \A t \in S : shot[Plan!Tightest(S)].mem <= shot[t].mem
<1> DEFINE Mems == {shot[s].mem : s \in S}
<1>1. \A s \in S : s \in Nat /\ shot[s].mem \in Nat
  BY PlanBounds DEF Plan!Systems, PlanTypes
<1>2. PICK m \in Mems : \A n \in Mems : m <= n
  BY <1>1, Least
<1> DEFINE T == {s \in S : shot[s].mem = m}
<1>3. PICK s \in T : \A t \in T : s <= t
  BY <1>1, Least
<1>4. \A t \in S : shot[s].mem < shot[t].mem \/ (shot[s].mem = shot[t].mem /\ s <= t)
  <2> TAKE t \in S
  <2>1. m <= shot[t].mem /\ m \in Nat /\ shot[t].mem \in Nat /\ shot[s].mem = m
    BY <1>1, <1>2, <1>3
  <2>2. shot[t].mem = m => s <= t
    BY <1>3
  <2> QED
    BY <2>1, <2>2
<1>5. \E u \in S : \A t \in S : shot[u].mem < shot[t].mem \/ (shot[u].mem = shot[t].mem /\ u <= t)
  BY <1>3, <1>4
<1>6. LET u == Plan!Tightest(S)
      IN u \in S /\ \A t \in S : shot[u].mem < shot[t].mem \/ (shot[u].mem = shot[t].mem /\ u <= t)
  BY <1>5 DEF Plan!Tightest
<1> QED
  BY <1>1, <1>6

LEMMA Selects == ASSUME PlanInv, Plan!Select PROVE PlanInv'
<1>1. /\ planPc = "capacity" /\ planAt > NSystems /\ planPc' = "end"
      /\ selected' = IF Plan!Unblocked = {} THEN 0 ELSE Plan!Tightest(Plan!Unblocked)
      /\ digest' \in BOOLEAN /\ (digest' => Plan!Unblocked # {})
      /\ UNCHANGED <<sys, request, planAt, shot, stalled, left, pairs, complete, speaks, touched,
                     after, faults, touches>>
  BY DEF Plan!Select, Plan!Digest
<1>2. PlanTypes /\ Plan!Unblocked \subseteq Plan!Systems
  BY DEF PlanInv, Plan!Unblocked
<1>3. PlanTypes'
  BY <1>1, <1>2, TightestIs DEF PlanTypes
<1>4. Plan!Unblocked' = Plan!Unblocked /\ \A S : Plan!Tightest(S)' = Plan!Tightest(S)
  BY <1>1 DEF Plan!Unblocked, Plan!Tightest
<1>5. \A s \in Plan!Systems : (Plan!Fits(s)' <=> Plan!Fits(s)) /\ ~(s >= planAt)
  BY <1>1, PlanBounds, FitsStand DEF Plan!Systems, PlanInv, PlanTypes
<1>6. ShotsTrue' /\ InHand' /\ Judged' /\ Undisturbed'
  BY <1>1, <1>5 DEF PlanInv, ShotsTrue, InHand, Looks, Judged, Undisturbed
<1>7. Settled'
  BY <1>1, <1>4 DEF Settled
<1> QED
  BY <1>1, <1>3, <1>6, <1>7 DEF PlanInv

LEMMA Touches == ASSUME PlanInv, Plan!Touch PROVE PlanInv'
<1>0. PICK s \in {t \in Plan!Systems : planPc = "resolve" \/ t >= planAt} :
        \E x \in Plan!Flawed(sys[s]) \ {sys[s]} :
          /\ sys' = [sys EXCEPT ![s] = x]
          /\ touched' = IF planPc = "resolve" /\ planAt = 1 THEN touched ELSE touched \cup {s}
  BY DEF Plan!Touch
<1>1. /\ s \in Plan!Systems /\ (planPc = "resolve" \/ s >= planAt)
      /\ \E x \in Plan!Flawed(sys[s]) : sys' = [sys EXCEPT ![s] = x]
      /\ touched' = IF planPc = "resolve" /\ planAt = 1 THEN touched ELSE touched \cup {s}
  BY <1>0
<1>14. PICK x \in Plan!Flawed(sys[s]) : sys' = [sys EXCEPT ![s] = x]
  BY <1>1
<1>2. planPc # "end" /\ touches' = touches + 1 /\ UNCHANGED <<Plan!run, after, faults>>
  BY DEF Plan!Touch
<1>3. UNCHANGED <<request, planPc, planAt, shot, stalled, left, pairs, complete, speaks, selected,
                  digest, after, faults>>
  BY <1>2 DEF Plan!run
<1>4. PlanTypes /\ NSystems \in Nat
  BY PlanBounds DEF PlanInv
<1>5. x \in [operating : BOOLEAN, mem : Nat, named : BOOLEAN, vlan : BOOLEAN,
             vios : [Plan!Vioses -> Plan!States]]
  <2>1. sys[s] \in [operating : BOOLEAN, mem : Nat, named : BOOLEAN, vlan : BOOLEAN,
                    vios : [Plan!Vioses -> Plan!States]]
    BY <1>4 DEF PlanTypes
  <2>2. CASE x \in {[sys[s] EXCEPT !.operating = ~@], [sys[s] EXCEPT !.named = ~@],
                    [sys[s] EXCEPT !.vlan = ~@]}
    BY <2>1, <2>2
  <2>3. CASE x \in {[sys[s] EXCEPT !.mem = m] : m \in 1..3}
    BY <2>1, <2>3
  <2>4. CASE x \in {[sys[s] EXCEPT !.vios[v] = st] : v \in Plan!Vioses, st \in Plan!States}
    BY <2>1, <2>4
  <2> QED
    BY <1>14, <2>2, <2>3, <2>4 DEF Plan!Flawed
<1>6. /\ \A t \in Plan!Systems : t # s => sys'[t] = sys[t] /\ (Plan!Fits(t)' <=> Plan!Fits(t))
      /\ touched \subseteq touched' /\ (touched' = touched \/ s \in touched')
  <2>1. \A t \in Plan!Systems : t # s => sys'[t] = sys[t]
    BY <1>14, <1>4 DEF PlanTypes
  <2> QED
    BY <1>1, <1>3, <2>1, FitsStand
<1>7. PlanTypes'
  BY <1>1, <1>14, <1>3, <1>4, <1>5 DEF PlanTypes
<1>8. planPc = "resolve" /\ planAt = 1 => \A t \in Plan!Systems : t >= planAt
  BY <1>4 DEF Plan!Systems
<1>9. ShotsTrue'
  BY <1>1, <1>3, <1>6, <1>8 DEF PlanInv, ShotsTrue
<1>10. planPc # "resolve" => s \in touched'
  BY <1>1
<1>11. InHand'
  <2> SUFFICES ASSUME planPc \in Looks PROVE InHand'
    BY <1>3 DEF InHand
  <2>1. planPc # "resolve" /\ s \in touched'
    BY <1>10 DEF Looks
  <2>2. planAt \notin touched' =>
          /\ planAt \notin touched /\ sys'[planAt] = sys[planAt]
          /\ Plan!Running(planAt)' = Plan!Running(planAt)
          /\ \A st : Plan!Groups(st)' = Plan!Groups(st)
    BY <1>3, <1>6, <2>1, AtHand DEF Plan!Running, Plan!Groups
  <2>3. planAt \notin touched' =>
          /\ Passed(planAt) => Passed(planAt)'
          /\ Collected(planAt) => Collected(planAt)'
          /\ Chosen(planAt) => Chosen(planAt)'
    BY <1>3, <2>2 DEF Passed, Collected, Chosen
  <2>4. /\ planAt \in Plan!Systems /\ shot[planAt].known /\ ~stalled
        /\ complete \/ speaks[planAt] # {}
        /\ planPc = "groups" => request.kind # "pv"
        /\ planPc \in {"name", "vlan", "vios"} => pairs = {}
    BY AtHand
  <2>5. ASSUME planAt \notin touched'
        PROVE  /\ speaks[planAt] = {} => Passed(planAt)'
               /\ planPc = "groups" => left \subseteq Plan!Running(planAt)'
               /\ planPc = "groups" /\ complete => Collected(planAt)'
               /\ planPc = "mapping" => Chosen(planAt)'
    <3>1. /\ speaks[planAt] = {} => Passed(planAt)
          /\ planPc = "groups" => left \subseteq Plan!Running(planAt)
          /\ planPc = "groups" /\ complete => Collected(planAt)
          /\ planPc = "mapping" => Chosen(planAt)
      BY <2>2, <2>5, AtHand
    <3>2. left \subseteq Plan!Running(planAt) => left \subseteq Plan!Running(planAt)'
      BY <2>2, <2>5
    <3> QED
      BY <2>3, <2>5, <3>1, <3>2
  <2>6. planAt \notin touched' =>
             /\ speaks'[planAt'] = {} => Passed(planAt)'
             /\ planPc' = "groups" => left' \subseteq Plan!Running(planAt)'
             /\ planPc' = "groups" /\ complete' => Collected(planAt)'
             /\ planPc' = "mapping" => Chosen(planAt)'
    BY <1>3, <2>5
  <2> QED
    BY <1>3, <2>4, <2>6 DEF InHand
<1>12. Judged'
  BY <1>3, <1>6, <1>10 DEF PlanInv, Judged
<1>13. Undisturbed'
  <2>1. touched' = {} => touched = {} /\ planPc = "resolve" /\ planAt = 1
    BY <1>1
  <2>2. planPc = "resolve" /\ planAt = 1 => \A t \in Plan!Systems : speaks[t] = {} /\ ~shot[t].known
    BY <1>8 DEF PlanInv, ShotsTrue
  <2> QED
    BY <1>3, <1>8, <2>1, <2>2 DEF PlanInv, Undisturbed
<1> QED
  BY <1>2, <1>3, <1>7, <1>9, <1>11, <1>12, <1>13 DEF PlanInv, Settled

LEMMA PlanKept == ASSUME PlanInv, [Plan!Next]_Plan!vars PROVE PlanInv'
<1>1. CASE UNCHANGED Plan!vars
  <2>1. UNCHANGED <<sys, request, planPc, planAt, shot, stalled, left, pairs, complete, speaks,
                    selected, digest, touched, after, faults, touches>>
    BY <1>1 DEF Plan!vars, Plan!run
  <2>2. /\ \A s : Plan!Running(s)' = Plan!Running(s) /\ (Plan!Fits(s)' <=> Plan!Fits(s))
        /\ \A st : Plan!Groups(st)' = Plan!Groups(st)
        /\ Plan!Unblocked' = Plan!Unblocked /\ \A S : Plan!Tightest(S)' = Plan!Tightest(S)
    BY <2>1 DEF Plan!Running, Plan!Fits, Plan!Groups, Plan!Unblocked, Plan!Tightest
  <2>3. PlanTypes' /\ ShotsTrue' /\ Judged' /\ Undisturbed' /\ Settled'
    BY <2>1, <2>2 DEF PlanInv, PlanTypes, ShotsTrue, Judged, Undisturbed, Settled
  <2>4. InHand'
    BY <2>1, <2>2 DEF PlanInv, InHand, Passed, Collected, Chosen
  <2> QED
    BY <2>1, <2>3, <2>4 DEF PlanInv
<1> QED
  BY <1>1, Resolves, EvaluationStarts, ChecksCapacity, Checks, ReadsVios, ReadsGroups, Places,
    LooksUpMapping, Selects, Touches DEF Plan!Next

LEMMA PlanAlways == ClientSpec => [](which = "plan" => PlanInv)
<1> DEFINE P == which = "plan" => PlanInv
<1>1. ClientInit => P
  BY PlanStarts DEF ClientInit
<1>2. P /\ [ClientNext]_clientVars => P'
  <2> SUFFICES ASSUME P, [ClientNext]_clientVars, which' = "plan" PROVE PlanInv'
    OBVIOUS
  <2>1. which = "plan" /\ [Plan!Next]_Plan!vars
    BY DEF ClientNext, clientVars, planVars, Plan!vars, Plan!run
  <2> QED
    BY <2>1, PlanKept
<1> QED
  BY <1>1, <1>2, PTL DEF ClientSpec

\* What is planned is true, once the plan is made.
LEMMA PlansTruly == ASSUME PlanInv PROVE Plan!PlanTrue
<1> SUFFICES ASSUME planPc = "end"
             PROVE  /\ selected # 0 => selected \in touched \/ Plan!Fits(selected)
                    /\ (faults = 0 /\ touched = {}) =>
                         \A s \in Plan!Systems :
                           Plan!Fits(s) => selected # 0 /\ sys[selected].mem <= sys[s].mem
                    /\ digest => selected # 0
  BY DEF PlanInv, Plan!PlanTrue
<1>1. /\ PlanTypes /\ planAt > NSystems /\ (digest => Plan!Unblocked # {})
      /\ selected = IF Plan!Unblocked = {} THEN 0 ELSE Plan!Tightest(Plan!Unblocked)
  BY DEF PlanInv, Settled
<1>2. \A s \in Plan!Systems : s # 0 /\ s < planAt
  BY <1>1, PlanBounds DEF Plan!Systems, PlanTypes
<1>3. Plan!Unblocked # {} =>
        /\ selected \in Plan!Unblocked /\ selected \in Plan!Systems /\ selected # 0
        /\ \A s \in Plan!Unblocked : shot[selected].mem <= shot[s].mem
  BY <1>1, <1>2, TightestIs DEF Plan!Unblocked
<1>4. selected # 0 => selected \in touched \/ Plan!Fits(selected)
  BY <1>1, <1>2, <1>3 DEF PlanInv, Judged, Plan!Unblocked
<1>5. ASSUME faults = 0, touched = {}, NEW s \in Plan!Systems, Plan!Fits(s)
      PROVE  selected # 0 /\ sys[selected].mem <= sys[s].mem
  <2>1. \A t \in Plan!Systems : shot[t].known /\ shot[t].mem = sys[t].mem
    BY <1>5 DEF PlanInv, Undisturbed, ShotsTrue
  <2>2. s \in Plan!Unblocked
    BY <1>5, <2>1 DEF PlanInv, Undisturbed, Plan!Unblocked
  <2> QED
    BY <1>3, <1>5, <2>1, <2>2
<1> QED
  BY <1>1, <1>3, <1>4, <1>5

LEMMA PlanTyped == ASSUME PlanInv PROVE Plan!PlanTypeOK
  BY DEF PlanInv, PlanTypes, Plan!PlanTypeOK, Looks

-----------------------------------------------------------------------------
(* What is reported is so, once it is reported: a row of the power guards says what *)
(* one config.toml that was read says of its connection (hmc_effective_permissions, *)
(* _guard_rows); a system a plan selects has all the request needs, unless it was   *)
(* changed while the plan was made, and none that fits is tighter (plan_lpar,       *)
(* evaluate); and a drain that answered True, or close, left no line behind (drain, *)
(* close).                                                                          *)
THEOREM ReportTrueAlways == ClientSpec => []ReportTrue
<1>1. (which = "server" => ServerInv) => (which = "server" => Server!ReportTrue)
  BY DEF ServerInv, FilesSeen, Server!ReportTrue
<1>2. (which = "plan" => PlanInv) => (which = "plan" => Plan!PlanTrue)
  BY PlansTruly
<1> QED
  BY <1>1, <1>2, ServerAlways, PlanAlways, DrainSoundAlways, PTL DEF ReportTrue

-----------------------------------------------------------------------------
(* The types of every component.                                             *)

\* A client goes back to the legacy port once, from its first attempt.
LogonTypes ==
  /\ sessions \subseteq {1, 2} /\ unread \subseteq {1, 2}
  /\ phase \in {"logon", "abandon", "body", "logoff", "close", "closed"}
  /\ attempt \in {1, 2} /\ token \in {0, 1, 2} /\ fallback \in BOOLEAN /\ raised \in BOOLEAN
  /\ tells \subseteq {"raised", "note", "logged"} /\ calls \in 0..MaxCalls
  /\ fallback => attempt = 1

LEMMA LogonTyped ==
  ASSUME LogonTypes, MaxCalls \in Nat, [Session!Next]_Session!vars PROVE LogonTypes'
<1> USE DEF LogonTypes
<1>1. CASE UNCHANGED Session!vars
  BY <1>1 DEF Session!vars, Session!session, Session!caches
<1>2. CASE Session!Logs
  <2>1. calls' = calls
    BY <1>2 DEF Session!Logs, Session!caches, Session!Granted, Session!Rejected,
      Session!LogonUnanswered, Session!LogonCancelled, Session!Abandon, Session!LeaveBody,
      Session!Expires, Session!LoggedOff, Session!LogoffRejected, Session!LogoffUnanswered,
      Session!CloseTransport
  <2> USE DEF Session!Makes, Session!Unanswered, Session!Learns
  <2>2. CASE Session!Granted
    BY <2>1, <2>2 DEF Session!Granted
  <2>9. CASE Session!Rejected
    BY <2>1, <2>9 DEF Session!Rejected
  <2>10. CASE Session!Abandon
    BY <2>1, <2>10 DEF Session!Abandon
  <2>3. CASE Session!LogonUnanswered
    <3>1. /\ phase' \in {"logon", "abandon"} /\ UNCHANGED <<token, raised, tells>>
          /\ \/ fallback /\ fallback' = FALSE /\ attempt' = attempt + 1
             \/ UNCHANGED <<fallback, attempt>>
      BY <2>3 DEF Session!LogonUnanswered
    <3>2. sessions' \subseteq {1, 2} /\ unread' \subseteq {1, 2}
      BY <2>3 DEF Session!LogonUnanswered
    <3>3. fallback' \in BOOLEAN /\ attempt' \in {1, 2} /\ (fallback' => attempt' = 1)
      <4>1. CASE fallback /\ fallback' = FALSE /\ attempt' = attempt + 1
        <5>1. fallback' \in BOOLEAN /\ ~fallback' /\ attempt = 1
          BY <4>1, ZenonT(30)
        <5>2. attempt' = 2
          BY ONLY <4>1, <5>1, 1 + 1 = 2, SMT
        <5> QED
          BY <5>1, <5>2, ZenonT(30)
      <4>2. CASE UNCHANGED <<fallback, attempt>>
        BY <4>2
      <4> QED
        BY <3>1, <4>1, <4>2
    <3> QED
      BY <2>1, <3>1, <3>2, <3>3
  <2>4. CASE Session!LogonCancelled
    <3>1. phase' = "abandon" /\ UNCHANGED <<attempt, fallback, token, raised, tells>>
      BY <2>4 DEF Session!LogonCancelled, Session!caches
    <3>2. sessions' \subseteq {1, 2} /\ unread' \subseteq {1, 2}
      BY <2>4 DEF Session!LogonCancelled, Session!caches
    <3> QED
      BY <2>1, <3>1, <3>2
  <2>5. CASE Session!LeaveBody \/ Session!Expires
    <3>1. /\ phase' \in {phase, "logoff"} /\ raised' \in {TRUE, FALSE, raised} /\ sessions' \subseteq sessions
          /\ UNCHANGED <<attempt, fallback, token, tells, unread>>
      BY <2>5 DEF Session!LeaveBody, Session!Expires, Session!caches
    <3> QED
      BY <2>1, <3>1
  <2>6. CASE Session!LoggedOff \/ Session!LogoffRejected
    <3>1. /\ phase' = "close" /\ token' = 0 /\ sessions' \subseteq sessions
          /\ UNCHANGED <<attempt, fallback, raised, unread>>
      BY <2>6 DEF Session!LoggedOff, Session!LogoffRejected, Session!caches
    <3>2. tells' \subseteq {"raised", "note", "logged"}
      BY <2>6 DEF Session!LoggedOff, Session!LogoffRejected, Session!caches
    <3> QED
      BY <2>1, <3>1, <3>2
  <2>7. CASE Session!LogoffUnanswered
    <3>1. /\ phase' = "close" /\ token' = 0 /\ sessions' \subseteq sessions
          /\ UNCHANGED <<attempt, fallback, raised, unread>>
      BY <2>7 DEF Session!LogoffUnanswered, Session!caches
    <3>2. tells' \subseteq {"raised", "note", "logged"}
      BY <2>7 DEF Session!LogoffUnanswered, Session!caches
    <3> QED
      BY <2>1, <3>1, <3>2
  <2>8. CASE Session!CloseTransport
    <3>1. /\ phase' = "closed" /\ UNCHANGED <<sessions, attempt, fallback, token, raised, unread>>
      BY <2>8 DEF Session!CloseTransport, Session!caches
    <3>2. tells' \subseteq {"raised", "note", "logged"}
      BY <2>8 DEF Session!CloseTransport, Session!caches
    <3> QED
      BY <2>1, <3>1, <3>2
  <2> QED
    BY <1>2, <2>2, <2>3, <2>4, <2>5, <2>6, <2>7, <2>8, <2>9, <2>10 DEF Session!Logs
<1>3. ASSUME NEW t \in Tasks, Session!Requests(t) PROVE LogonTypes'
  <2>1. UNCHANGED Session!session /\ calls' \in {calls, calls + 1} /\ calls' <= MaxCalls
    BY <1>3 DEF Session!Requests, Session!Ask, Session!Look, Session!Enter, Session!Answered,
      Session!Refuse, Session!Cancelled, Session!DefinedQuickPropertyNames,
      Session!DefinedSearchParameterNames, Session!DefinedNames
  <2> QED
    BY <2>1 DEF Session!session
<1> QED
  BY <1>1, <1>2, <1>3 DEF Session!Next

LEMMA SessionTyped == ASSUME LogonTypes, CacheInv PROVE Session!SessionTypeOK
  BY DEF LogonTypes, CacheInv, CacheTypes, Session!SessionTypeOK

-----------------------------------------------------------------------------
JobTypes ==
  /\ hmcJob \in {"running", "gone"} \cup Job!Terminal /\ resolves \subseteq Job!Links
  /\ global \in BOOLEAN /\ returned \in Job!Links \cup {Job!NoLink}
  /\ timeout \in Timeouts /\ interval \in Intervals
  /\ {status, seen} \subseteq {"none", "running"} \cup Job!Terminal
  /\ blips \in 0..Blips /\ lags \in 0..Lags

LEMMA JobTyped == ASSUME JobTypes, WaitInv PROVE Job!JobTypeOK
<1>1. stale \subseteq Job!Links
  BY DEF WaitInv, OneDeadLink, WaitTypes
<1> QED
  BY <1>1 DEF JobTypes, WaitInv, WaitTypes, Job!JobTypeOK

\* What a read returns, and counts.
LEMMA OutcomeTyped ==
  ASSUME JobTypes, WaitInv, NEW path \in Job!Links \cup {Job!NoLink},
         NEW answer \in Job!Answers(path), Job!Blip(path, answer),
         NEW supplied \in Job!Links \cup {Job!NoLink}, NEW dead,
         Job!Outcome(answer = "entry", supplied, dead), Blips \in Nat,
         UNCHANGED <<hmcJob, resolves, global, advertised, timeout, interval, lags>>
  PROVE  JobTypes'
<1>1. answer = "entry" => Job!Serves(path)
  BY DEF Job!Answers
<1>2. answer = "entry" => hmcJob # "gone"
  BY <1>1 DEF Job!Serves
<1>3. {status', seen'} \subseteq {"none", "running"} \cup Job!Terminal
  BY <1>2 DEF Job!Outcome, JobTypes
<1>4. returned' \in Job!Links \cup {Job!NoLink}
  BY DEF Job!Outcome, Job!_select_persisted_job_href, WaitInv, WaitTypes
<1>5. blips' \in 0..Blips
  BY DEF Job!Answers, Job!Blip, JobTypes
<1> QED
  BY <1>3, <1>4, <1>5 DEF JobTypes

LEMMA BlipTyped ==
  ASSUME JobTypes, Blips \in Nat, NEW path, NEW answer \in Job!Answers(path), Job!Blip(path, answer)
  PROVE  blips' \in 0..Blips
  BY DEF Job!Answers, Job!Blip, JobTypes

LEMMA JobKept ==
  ASSUME JobTypes, WaitInv, Blips \in Nat, Lags \in Nat, [Job!Next]_Job!vars PROVE JobTypes'
<1> USE DEF Job!hmc, Job!args, Job!memo, Job!out, Job!hist
<1>1. CASE UNCHANGED Job!vars
  BY <1>1 DEF Job!vars, JobTypes
<1>2. CASE Job!Progresses \/ Job!Reaped \/ Job!Unresolved
  BY <1>2 DEF Job!Progresses, Job!Reaped, Job!Unresolved, JobTypes
<1>3. CASE Job!Passes
  BY <1>3 DEF Job!Passes, JobTypes
<1>4. CASE Job!Raises \/ Job!Found \/ Job!Gone \/ Job!Disappeared \/ Job!Wakes
  BY <1>4 DEF Job!Raises, Job!Found, Job!Gone, Job!Disappeared, Job!Wakes, JobTypes
<1>5. CASE Job!ReadJob
  <2>1. PICK answer \in Job!Answers(href) :
          /\ jobPc = "read" /\ Job!Blip(href, answer)
          /\ IF href # Job!NoLink /\ answer = "missing"
             THEN jobPc' = "confirm" /\ UNCHANGED <<Job!out, Job!hist>>
             ELSE Job!Outcome(answer = "entry", href, deadLink) /\ UNCHANGED stale
    BY <1>5 DEF Job!ReadJob
  <2>2. UNCHANGED <<hmcJob, resolves, global, advertised, timeout, interval, lags>>
    BY <1>5 DEF Job!ReadJob
  <2>3. href \in Job!Links \cup {Job!NoLink}
    BY DEF WaitInv, WaitTypes
  <2>4. CASE href # Job!NoLink /\ answer = "missing"
    <3>1. UNCHANGED <<status, returned, seen>>
      BY <2>1, <2>4
    <3>2. blips' \in 0..Blips
      BY <2>1, BlipTyped
    <3> QED
      BY <2>2, <3>1, <3>2 DEF JobTypes
  <2>5. CASE ~(href # Job!NoLink /\ answer = "missing")
    BY <2>1, <2>2, <2>3, <2>5, OutcomeTyped
  <2> QED
    BY <2>4, <2>5
<1>6. CASE Job!ConfirmMissing
  <2>1. PICK answer \in Job!Answers(Job!NoLink) :
          /\ Job!Blip(Job!NoLink, answer)
          /\ LET hit == answer = "entry" IN
               Job!Outcome(hit, IF hit THEN Job!NoLink ELSE href, IF hit THEN href ELSE deadLink)
    BY <1>6 DEF Job!ConfirmMissing
  <2>2. UNCHANGED <<hmcJob, resolves, global, advertised, timeout, interval, lags>>
    BY <1>6 DEF Job!ConfirmMissing
  <2> DEFINE supplied == IF answer = "entry" THEN Job!NoLink ELSE href
             dead == IF answer = "entry" THEN href ELSE deadLink
  <2>3. supplied \in Job!Links \cup {Job!NoLink}
    BY DEF WaitInv, WaitTypes
  <2>4. Job!Outcome(answer = "entry", supplied, dead)
    BY <2>1
  <2> HIDE DEF supplied, dead
  <2> QED
    BY <2>1, <2>2, <2>3, <2>4, OutcomeTyped
<1> QED
  BY <1>1, <1>2, <1>3, <1>4, <1>5, <1>6 DEF Job!Next, Job!Polls

-----------------------------------------------------------------------------
ConsoleRest ==
  /\ takeOver \in BOOLEAN /\ owner \in {"nobody", "collector", "handover"}
  /\ closing \in BOOLEAN /\ released \in {"unset", "proven", "unproven"}
  /\ proof \in BOOLEAN /\ rclosed \in BOOLEAN
  /\ rec \in {"none", "running", "gap", "error"} /\ abort \in BOOLEAN
  /\ reply \in {"none", "banner", "held"} /\ eof \in BOOLEAN
  /\ reader \in {"nobody", "collector", "handover"} /\ got \in {"none"} \cup Chunk
  /\ slot \in {"free", "ours", "orphan", "probe", "other"} /\ link \in {"none", "up", "down"}
  /\ transit \in BOOLEAN /\ told \in BOOLEAN /\ gap \in BOOLEAN /\ turns \in 0..Turns

\* No more was handed to readers, or is still to be, than was printed.
Output ==
  /\ sent <= Chunks /\ given + Console!Data(buf) + InFlight <= sent
  /\ read = "done" => got # "none"

LEMMA Shrinks ==
  ASSUME ConsoleInv, Output, UNCHANGED <<given, sent>>,
         UNCHANGED <<read, got>> \/ read' = "none",
         buf' \in {buf, <<>>} \/ (buf # <<>> /\ buf' = Tail(buf))
  PROVE  Output'
<1>1. Console!Data(buf') \in Nat /\ Console!Data(buf') <= Console!Data(buf)
  <2>1. buf \in Seq(Chunk) /\ Ordered
    BY DEF ConsoleInv, ConsoleBase, ConsoleTypes
  <2>2. Console!Data(buf) \in Nat /\ Console!Data(<<>>) = 0
    BY <2>1, Counts
  <2>3. CASE buf' \in {buf, <<>>}
    BY <2>2, <2>3
  <2>4. CASE buf # <<>> /\ buf' = Tail(buf)
    <3>1. /\ Console!Data(Tail(buf)) \in Nat
          /\ Console!Data(buf) = Console!Data(Tail(buf)) + (IF Head(buf) = "data" THEN 1 ELSE 0)
      BY <2>1, <2>4, Counts
    <3>2. Console!Data(buf') = Console!Data(Tail(buf))
      BY <2>4
    <3> QED
      BY ONLY <2>2, <3>1, <3>2
  <2> QED
    BY <2>3, <2>4
<1>2. InFlight' \in {InFlight, 0} /\ InFlight \in {0, 1}
  BY DEF InFlight
<1>3. given \in Nat /\ sent \in Nat /\ Console!Data(buf) \in Nat
  BY Counts DEF ConsoleInv, ConsoleBase, ConsoleTypes
<1>4. given' + Console!Data(buf') + InFlight' <= sent'
  BY <1>1, <1>2, <1>3 DEF Output
<1> QED
  BY <1>4 DEF Output

LEMMA OutputKept ==
  ASSUME ConsoleInv, Output, Chunks \in Nat, [Console!Next]_Console!vars PROVE Output'
<1> USE DEF Console!session, Console!reading, Console!terminal, Console!history
<1>1. CASE UNCHANGED Console!vars
  BY <1>1, Shrinks DEF Console!vars
<1>2. CASE Console!AcqOk
  <2>1. buf' = buf /\ given' = 0 /\ sent' = sent /\ UNCHANGED <<read, got>>
    BY <1>2, AcqReads DEF Console!AcqOk, ConsoleInv, ConsoleBase, ConsoleTypes
  <2>2. read = "none" /\ sent = Console!Data(buf) /\ sent \in Nat
    BY <1>2 DEF Console!AcqOk, ConsoleInv, ConsoleBase, ConsoleTypes, OneAtATime, ReadsHeld, Counted
  <2> QED
    BY <2>1, <2>2 DEF Output, InFlight
<1>3. CASE Console!AcqStart
  <2>1. buf' = <<>> /\ given' = 0 /\ sent' = 0 /\ read' = "none"
    BY <1>3 DEF Console!AcqStart, ConsoleInv, ConsoleBase, ConsoleTypes, OneAtATime, ReadsHeld
  <2>2. Console!Data(<<>>) = 0
    BY Counts DEF ConsoleInv, ConsoleBase, ConsoleTypes
  <2> QED
    BY <2>1, <2>2 DEF Output, InFlight
<1>4. CASE Console!Acquire /\ ~Console!AcqOk /\ ~Console!AcqStart
  BY <1>4, Shrinks DEF Console!Acquire, Console!ReconnectStarts, Console!AcqRemove,
    Console!AcqFails, Console!AcqHeld, Console!AcqDies, Console!AcqGivesUp, Console!DropChannel
<1>5. CASE Console!Release
  <2>1. UNCHANGED <<given, sent>> /\ (UNCHANGED <<read, got>> \/ read' = "none")
    BY <1>5 DEF Console!Release, Console!ScanPreempts, Console!Scan, Console!EofReads,
      Console!EofTimesOut, Console!Remove, Console!Probe, Console!ProbeReads, Console!ProbeEof,
      Console!ProbeRemove, Console!Ends, Console!EndsLost, Console!Goes, Console!Skips,
      Console!SendEof
  <2>2. buf' \in {buf, <<>>} \/ (buf # <<>> /\ buf' = Tail(buf))
    BY <1>5 DEF Console!Release, Console!ScanPreempts, Console!Scan, Console!EofReads,
      Console!EofTimesOut, Console!Remove, Console!Probe, Console!ProbeReads, Console!ProbeEof,
      Console!ProbeRemove, Console!Ends, Console!EndsLost, Console!Goes, Console!Skips,
      Console!SendEof
  <2> QED
    BY <2>1, <2>2, Shrinks
<1>6. CASE Console!Teardown
  BY <1>6, Shrinks DEF Console!Teardown, Console!AwaitReconnect, Console!AwaitSettled,
    Console!DropChannel
<1>7. CASE Console!ReadTakes
  <2>1. /\ read = "waiting" /\ read' = "done" /\ buf # <<>> /\ got' = Head(buf)
        /\ UNCHANGED <<sent, given>> /\ buf \in Seq(Chunk)
    BY <1>7 DEF Console!ReadTakes, ConsoleInv, ConsoleBase, ConsoleTypes
  <2>2. Console!Data(buf) = Console!Data(buf') + InFlight' /\ Console!Data(buf') \in Nat
    BY <1>7, <2>1, Counts DEF Console!ReadTakes, InFlight, ConsoleInv
  <2>3. InFlight = 0 /\ InFlight' \in {0, 1}
    BY <2>1 DEF InFlight
  <2>4. got' # "none"
    BY <2>1, Skipped DEF Chunk
  <2> QED
    BY <2>1, <2>2, <2>3, <2>4 DEF Output, ConsoleInv, ConsoleBase, ConsoleTypes
<1>8. CASE Console!ReadReturns
  <2>1. /\ read = "done" /\ read' = "none" /\ given' = given + InFlight /\ sent' = sent
        /\ buf' \in {buf, <<>>}
    BY <1>8 DEF Console!ReadReturns, Console!DropChannel, InFlight, ConsoleInv, ConsoleBase,
      ConsoleTypes
  <2>2. Console!Data(buf') \in Nat /\ Console!Data(buf') <= Console!Data(buf) /\ Console!Data(buf) \in Nat
    BY <2>1, Counts DEF ConsoleInv, ConsoleBase, ConsoleTypes
  <2>3. InFlight' = 0 /\ InFlight \in {0, 1}
    BY <2>1 DEF InFlight
  <2> QED
    BY <2>1, <2>2, <2>3 DEF Output, ConsoleInv, ConsoleBase, ConsoleTypes
<1>9. CASE Console!Caller
  <2>1. UNCHANGED <<buf, sent, given>>
    BY <1>9 DEF Console!Caller, Console!Open, Console!Resume, Console!Cancel, Console!StartRead,
      Console!ReadTimesOut, Console!ReadOutcome, Console!HandOver, Console!GiveBack,
      Console!GiveChannel, Console!Suspend, Console!Close
  <2>2. UNCHANGED <<read, got>> \/ read' = "none" \/ (read = "none" /\ read' = "waiting")
    BY <1>9 DEF Console!Caller, Console!Open, Console!Resume, Console!Cancel, Console!StartRead,
      Console!ReadTimesOut, Console!ReadOutcome, Console!HandOver, Console!GiveBack,
      Console!GiveChannel, Console!Suspend, Console!Close
  <2>3. CASE read = "none" /\ read' = "waiting"
    BY <2>1, <2>3 DEF Output, InFlight
  <2> QED
    BY <2>1, <2>2, <2>3, Shrinks
<1>10. CASE Console!Outside
  <2>1. UNCHANGED <<given, read, got>>
    BY <1>10 DEF Console!Outside, Console!Prints, Console!AnswersEof, Console!RemoteCloses,
      Console!ConnectionDrops, Console!OtherOpens, Console!OtherRemoves, Console!ReportArrives
  <2>2. \/ sent < Chunks /\ sent' = sent + 1 /\ slot = "ours" /\ buf' = Append(buf, "data")
        \/ sent' = sent /\ \E c \in {"lost", "end"} : buf' \in {buf, Append(buf, c)}
    BY <1>10 DEF Console!Outside, Console!Prints, Console!AnswersEof, Console!RemoteCloses,
      Console!ConnectionDrops, Console!OtherOpens, Console!OtherRemoves, Console!ReportArrives
  <2>3. /\ sent' <= Chunks /\ Console!Data(buf') \in Nat /\ Console!Data(buf) \in Nat
        /\ sent' - sent = Console!Data(buf') - Console!Data(buf)
    <3>1. buf \in Seq(Chunk) /\ Ordered /\ sent \in Nat /\ sent <= Chunks
      BY DEF Output, ConsoleInv, ConsoleBase, ConsoleTypes
    <3>2. Console!Data(buf) \in Nat
      BY <3>1, Counts
    <3>3. CASE sent < Chunks /\ sent' = sent + 1 /\ slot = "ours" /\ buf' = Append(buf, "data")
      <4>1. Console!Data(Append(buf, "data")) = Console!Data(buf) + 1
        BY <3>1, <3>3, Counts
      <4>2. Console!Data(buf') = Console!Data(buf) + 1
        BY <3>3, <4>1
      <4>3. sent < Chunks /\ sent' = sent + 1
        BY <3>3
      <4> QED
        BY ONLY <3>1, <3>2, <4>2, <4>3, Chunks \in Nat
    <3>4. CASE sent' = sent /\ \E c \in {"lost", "end"} : buf' \in {buf, Append(buf, c)}
      <4>1. \A c \in {"lost", "end"} : Console!Data(Append(buf, c)) = Console!Data(buf)
        BY <3>1, Counts
      <4>2. Console!Data(buf') = Console!Data(buf)
        <5> PICK c \in {"lost", "end"} : buf' \in {buf, Append(buf, c)}
          BY <3>4
        <5>1. buf' = buf \/ buf' = Append(buf, c)
          OBVIOUS
        <5>2. CASE buf' = buf
          BY <5>2
        <5>3. CASE buf' = Append(buf, c)
          BY ONLY <4>1, <5>3, c \in {"lost", "end"}
        <5> QED
          BY <5>1, <5>2, <5>3
      <4>3. sent' = sent
        BY <3>4
      <4> QED
        BY ONLY <3>1, <3>2, <4>2, <4>3, Chunks \in Nat
    <3> QED
      BY <2>2, <3>3, <3>4
  <2>4. InFlight' = InFlight /\ InFlight \in {0, 1}
    BY <2>1 DEF InFlight
  <2> QED
    BY <2>1, <2>2, <2>3, <2>4 DEF Output, ConsoleInv, ConsoleBase, ConsoleTypes
<1> QED
  BY <1>1, <1>2, <1>3, <1>4, <1>5, <1>6, <1>7, <1>8, <1>9, <1>10 DEF Console!Next, Console!Acquire

LEMMA RestKept ==
  ASSUME ConsoleInv, ConsoleRest, Turns \in Nat, [Console!Next]_Console!vars PROVE ConsoleRest'
<1> USE DEF Console!session, Console!reading, Console!terminal, Console!history
<1> USE DEF ConsoleRest
<1>1. CASE UNCHANGED Console!vars
  BY <1>1 DEF Console!vars
<1>0. ASSUME Console!Next PROVE takeOver' = takeOver
  BY <1>0 DEF Console!Next
<1>2. CASE Console!Acquire /\ takeOver' = takeOver
  <2> USE <1>2 DEF Console!AcqGivesUp, Console!DropChannel, Console!Orphaned
  <2>1. CASE Console!ReconnectStarts
    BY <2>1 DEF Console!ReconnectStarts
  <2>2. CASE Console!AcqRemove
    BY <2>2 DEF Console!AcqRemove
  <2>3. CASE Console!AcqStart
    <3>1. /\ link' = "up" /\ transit' = FALSE /\ eof' = FALSE /\ told' = FALSE
          /\ slot' \in {"ours", slot} /\ reply' \in {"banner", "held"}
      BY <2>3 DEF Console!AcqStart
    <3>2. UNCHANGED <<Console!session, Console!reading, gap, turns, takeOver>>
      BY <2>3 DEF Console!AcqStart
    <3>3. /\ UNCHANGED <<takeOver, owner, closing, released, proof, rclosed, rec, abort>>
          /\ UNCHANGED <<reader, got, gap, turns>>
      BY ONLY <3>2
    <3>4. /\ slot' \in {"free", "ours", "orphan", "probe", "other"}
          /\ link' \in {"none", "up", "down"} /\ reply' \in {"none", "banner", "held"}
      BY ONLY ConsoleRest, <3>1
    <3>5. transit' \in BOOLEAN /\ eof' \in BOOLEAN /\ told' \in BOOLEAN
      BY ONLY <3>1
    <3> QED
      BY ONLY ConsoleRest, <3>3, <3>4, <3>5
  <2>4. CASE Console!AcqFails
    BY <2>4 DEF Console!AcqFails
  <2>5. CASE Console!AcqHeld \/ Console!AcqDies
    BY <2>5 DEF Console!AcqHeld, Console!AcqDies
  <2>6. CASE Console!AcqOk
    <3>1. /\ rclosed' = FALSE /\ reply' = "none"
          /\ UNCHANGED <<proof, abort, Console!reading, slot, link, transit, eof, told, turns, takeOver>>
      BY <2>6 DEF Console!AcqOk
    <3>2. /\ rec' \in {rec, "error", "gap"} /\ owner' \in {owner, "nobody", "collector"}
          /\ released' \in {released, "unproven"}
      BY <2>6 DEF Console!AcqOk, Console!CloseBegins
    <3>3. closing' \in BOOLEAN
      BY <2>6 DEF Console!AcqOk, Console!CloseBegins
    <3>4. gap' \in BOOLEAN
      BY <2>6, ZenonT(30) DEF Console!AcqOk
    <3>5. UNCHANGED <<reader, got, abort, proof, slot, link, transit, eof, told, turns, takeOver>>
      BY <3>1
    <3>6. rclosed' \in BOOLEAN /\ reply' \in {"none", "banner", "held"}
      BY <3>1
    <3>7. /\ rec' \in {"none", "running", "gap", "error"}
          /\ owner' \in {"nobody", "collector", "handover"}
          /\ released' \in {"unset", "proven", "unproven"}
      BY ONLY ConsoleRest, <3>2
    <3> QED
      BY ONLY ConsoleRest, <3>3, <3>4, <3>5, <3>6, <3>7
  <2> QED
    BY <2>1, <2>2, <2>3, <2>4, <2>5, <2>6 DEF Console!Acquire
<1>3. CASE Console!Release /\ takeOver' = takeOver
  <2> USE <1>3 DEF Console!Ends, Console!EndsLost, Console!Goes, Console!Skips, Console!Orphaned
  <2>1. CASE Console!ScanPreempts \/ Console!EofTimesOut \/ Console!Remove
    BY <2>1 DEF Console!ScanPreempts, Console!EofTimesOut, Console!Remove
  <2>2. CASE Console!Scan
    BY <2>2 DEF Console!Scan, Console!SendEof
  <2>3. CASE Console!EofReads
    BY <2>3 DEF Console!EofReads
  <2>4. CASE Console!Probe
    BY <2>4 DEF Console!Probe
  <2>5. CASE Console!ProbeReads
    BY <2>5 DEF Console!ProbeReads
  <2>6. CASE Console!ProbeEof
    BY <2>6 DEF Console!ProbeEof
  <2>7. CASE Console!ProbeRemove
    BY <2>7 DEF Console!ProbeRemove
  <2> QED
    BY <2>1, <2>2, <2>3, <2>4, <2>5, <2>6, <2>7 DEF Console!Release
<1>4. CASE Console!Teardown /\ takeOver' = takeOver
  BY <1>4 DEF Console!Teardown, Console!AwaitReconnect, Console!AwaitSettled,
    Console!DropChannel, Console!Orphaned
<1>5. CASE Console!ReadTakes /\ takeOver' = takeOver
  <2>1. got' \in Chunk
    BY <1>5, Skipped DEF Console!ReadTakes, ConsoleInv, ConsoleBase, ConsoleTypes
  <2> QED
    BY <1>5, <2>1 DEF Console!ReadTakes
<1>6. CASE Console!ReadReturns /\ takeOver' = takeOver
  <2> USE <1>6 DEF Console!ReadReturns, Console!DropChannel, Console!Orphaned
  <2>1. UNCHANGED <<owner, closing, released, proof, reply, reader, told, gap, turns, takeOver>>
    OBVIOUS
  <2>2. /\ slot' \in {slot, "orphan"} /\ link' \in {link, "none"} /\ rec' \in {rec, "running"}
        /\ got' = "none"
    OBVIOUS
  <2>3. transit' \in {transit, FALSE} /\ eof' \in {eof, FALSE} /\ abort' \in {abort, FALSE}
    OBVIOUS
  <2>4. rclosed' \in BOOLEAN
    <3>1. rclosed' = rclosed \/ rclosed' = (rclosed \/ Console!Drops)
      OBVIOUS
    <3> QED
      BY ONLY <3>1, ConsoleRest, Zenon
  <2>5. transit' \in BOOLEAN /\ eof' \in BOOLEAN /\ abort' \in BOOLEAN
    BY ONLY <2>3, ConsoleRest
  <2> QED
    BY ONLY ConsoleRest, <2>1, <2>2, <2>4, <2>5
<1>7. CASE Console!Caller /\ takeOver' = takeOver
  <2> USE <1>7 DEF Console!GiveChannel
  <2>1. CASE Console!Open \/ Console!Resume \/ Console!Cancel
    BY <2>1 DEF Console!Open, Console!Resume, Console!Cancel
  <2>2. CASE Console!StartRead \/ Console!ReadTimesOut \/ Console!ReadOutcome
    <3>1. /\ reader' \in {reader, owner} /\ got' \in {got, "none"} /\ rec' \in {rec, "none"}
          /\ UNCHANGED <<owner, closing, released, proof, rclosed, abort, reply, slot, link>>
          /\ UNCHANGED <<transit, eof, told, turns, takeOver>>
      BY <2>2 DEF Console!StartRead, Console!ReadTimesOut, Console!ReadOutcome
    <3>2. gap' \in BOOLEAN
      BY <2>2 DEF Console!StartRead, Console!ReadTimesOut, Console!ReadOutcome
    <3> QED
      BY ONLY ConsoleRest, <3>1, <3>2
  <2>3. CASE Console!HandOver \/ Console!GiveBack \/ Console!Suspend
    BY <2>3 DEF Console!HandOver, Console!GiveBack, Console!Suspend
  <2>4. CASE Console!Close
    BY <2>4 DEF Console!Close
  <2> QED
    BY <2>1, <2>2, <2>3, <2>4 DEF Console!Caller
<1>8. CASE Console!Outside /\ takeOver' = takeOver
  <2> USE <1>8
  <2>1. CASE Console!Prints \/ Console!AnswersEof \/ Console!RemoteCloses
    BY <2>1 DEF Console!Prints, Console!AnswersEof, Console!RemoteCloses
  <2>2. CASE Console!ConnectionDrops
    <3>1. /\ link' = "down" /\ slot' \in {slot, "orphan"} /\ transit' = FALSE
          /\ UNCHANGED <<Console!session, reply, Console!reading, eof, Console!history, turns, takeOver>>
      BY <2>2 DEF Console!ConnectionDrops, Console!Orphaned
    <3>2. UNCHANGED <<owner, closing, released, proof, rclosed, rec, abort, reply, reader, got, eof,
                      told, gap, turns, takeOver>>
      BY <3>1
    <3>3. /\ link' \in {"none", "up", "down"} /\ transit' \in BOOLEAN
          /\ slot' \in {"free", "ours", "orphan", "probe", "other"}
      BY ONLY <3>1, ConsoleRest
    <3> QED
      BY ONLY ConsoleRest, <3>2, <3>3
  <2>3. CASE Console!OtherOpens \/ Console!OtherRemoves
    <3>1. /\ turns < Turns /\ turns' = turns + 1 /\ slot' \in {"other", "free"}
          /\ UNCHANGED <<Console!session, reply, Console!reading, link, eof, Console!history, takeOver>>
      BY <2>3 DEF Console!OtherOpens, Console!OtherRemoves
    <3>2. UNCHANGED <<owner, closing, released, proof, rclosed, rec, abort, reply, reader, got, link,
                      eof, told, gap, takeOver>>
      BY <3>1
    <3>3. transit' \in BOOLEAN
      <4>1. transit' = transit \/ transit' = (transit \/ (slot = "ours" /\ link = "up"))
        BY <2>3 DEF Console!OtherOpens, Console!OtherRemoves
      <4> QED
        BY ONLY <4>1, ConsoleRest, Zenon
    <3>4. turns' \in 0..Turns
      BY ONLY <3>1, ConsoleRest, Turns \in Nat
    <3>5. slot' \in {"free", "ours", "orphan", "probe", "other"}
      BY <3>1
    <3> QED
      BY ONLY ConsoleRest, <3>2, <3>3, <3>4, <3>5
  <2>4. CASE Console!ReportArrives
    <3>1. /\ transit' = FALSE /\ told' \in BOOLEAN
          /\ UNCHANGED <<Console!session, reply, Console!reading, slot, link, eof, gap, turns, takeOver>>
      BY <2>4 DEF Console!ReportArrives
    <3>2. UNCHANGED <<owner, closing, released, proof, rclosed, rec, abort, reply, reader, got, slot,
                      link, eof, gap, turns, takeOver>>
      BY <3>1
    <3>3. transit' \in BOOLEAN /\ told' \in BOOLEAN
      BY ONLY <3>1
    <3> QED
      BY ONLY ConsoleRest, <3>2, <3>3
  <2> QED
    BY <2>1, <2>2, <2>3, <2>4 DEF Console!Outside
<1> QED
  BY <1>0, <1>1, <1>2, <1>3, <1>4, <1>5, <1>6, <1>7, <1>8 DEF Console!Next

LEMMA ConsoleTyped ==
  ASSUME ConsoleInv, ConsoleRest, Output, Chunks \in Nat PROVE Console!TypeOK
<1>1. sent \in 0..Chunks /\ given \in 0..Chunks
  <2>1. Console!Data(buf) \in Nat /\ InFlight \in {0, 1} /\ given \in Nat /\ sent \in Nat
    BY Counts DEF ConsoleInv, ConsoleBase, ConsoleTypes, InFlight
  <2> QED
    BY <2>1 DEF Output
<1> QED
  BY <1>1 DEF ConsoleInv, ConsoleBase, ConsoleTypes, ConsoleRest, Chunk, Console!TypeOK

-----------------------------------------------------------------------------
Entry == [kind : {"line", "records-dropped"}, n : Nat]

\* The queue is over its capacity by the sentinel alone.
Stderr ==
  /\ stream \in Seq(Entry) /\ stderr \in {"read", "stuck", "broken"}
  /\ Len(queue) <= Slots + 1 /\ (~shut => Len(queue) <= Slots)

LEMMA StderrKept ==
  ASSUME SinkInv, Stderr, Slots \in Nat, [Sink!Next]_Sink!vars PROVE Stderr'
<1> USE DEF Stderr, Sink!thread, Sink!calls, Sink!past, Sink!Sentinel
<1>0. queue \in Seq(0..lines) /\ Len(queue) \in Nat
  BY DEF SinkInv, SinkTypes
<1>1. CASE UNCHANGED Sink!vars
  BY <1>1 DEF Sink!vars
<1>2. CASE Sink!Submit
  <2>1. ~shut /\ ~Sink!Full /\ queue' = Append(queue, lines + 1) /\ UNCHANGED <<shut, stream, stderr>>
    BY <1>2 DEF Sink!Submit
  <2>2. Len(queue') = Len(queue) + 1
    BY <1>0, <2>1
  <2> QED
    BY <1>0, <2>1, <2>2 DEF Sink!Full
<1>3. CASE Sink!Refuse \/ Sink!SubmitRaises
  BY <1>3 DEF Sink!Refuse, Sink!SubmitRaises
<1>4. CASE Sink!Get
  <2>1. Len(queue') = Len(queue) - 1 /\ UNCHANGED <<shut, stream, stderr>>
    BY <1>0, <1>4 DEF Sink!Get
  <2> QED
    BY <1>0, <2>1
<1>5. CASE Sink!TakeOwed \/ Sink!MarkFails \/ Sink!RestoreOwed \/ Sink!Settle
  BY <1>5 DEF Sink!TakeOwed, Sink!MarkFails, Sink!RestoreOwed, Sink!Settle
<1>6. CASE Sink!MarkLands \/ Sink!Write
  <2>1. Sink!DropMarker(owed) \in Entry /\ Sink!LineEntry(item) \in Entry
    BY DEF SinkInv, SinkTypes, Sink!DropMarker, Sink!LineEntry, Entry
  <2>2. /\ UNCHANGED <<queue, shut, stderr>>
        /\ stream' \in {stream, Append(stream, Sink!DropMarker(owed)), Append(stream, Sink!LineEntry(item))}
    BY <1>6 DEF Sink!MarkLands, Sink!Write
  <2> HIDE DEF Entry
  <2> QED
    BY <2>1, <2>2
<1>7. ASSUME NEW c \in Thread, Sink!Close(c) PROVE Stderr'
  <2>1. /\ shut' = TRUE /\ UNCHANGED <<stream, stderr>>
        /\ queue' = IF writer /\ ~shut THEN Append(queue, 0) ELSE queue
    BY <1>7 DEF Sink!Close
  <2>2. Len(queue') = IF writer /\ ~shut THEN Len(queue) + 1 ELSE Len(queue)
    BY <1>0, <2>1
  <2> QED
    BY <1>0, <2>1, <2>2
<1>8. ASSUME NEW c \in Thread,
             Sink!Drain(c) \/ Sink!DrainEnds(c) \/ Sink!CloseEnds(c) \/ Sink!CloseRaises(c)
      PROVE  Stderr'
  BY <1>8 DEF Sink!Drain, Sink!DrainEnds, Sink!CloseEnds, Sink!CloseRaises
<1>9. CASE Sink!Stall \/ Sink!Resume \/ Sink!Break \/ Sink!Mend
  BY <1>9 DEF Sink!Stall, Sink!Resume, Sink!Break, Sink!Mend, Sink!Stderr
<1> QED
  BY <1>1, <1>2, <1>3, <1>4, <1>5, <1>6, <1>7, <1>8, <1>9 DEF Sink!Next, Sink!Run

LEMMA SinkTyped == ASSUME SinkInv, Stderr, Lines \in Nat, Slots \in Nat PROVE Sink!TypeOK
<1>1. lines \in 0..Lines /\ 0..lines \subseteq 0..Lines
  BY DEF SinkInv, SinkTypes
<1>2. queue \in Seq(0..Lines)
  BY <1>1, SeqMonotonic DEF SinkInv, SinkTypes
<1>3. asked \in [Thread -> 0..Lines] /\ item \in 0..Lines
  BY <1>1 DEF SinkInv, SinkTypes
<1> QED
  BY <1>1, <1>2, <1>3 DEF SinkInv, SinkTypes, Stderr, Entry, Sink!TypeOK, Sink!Line

-----------------------------------------------------------------------------
(* Every variable of whichever component runs has its type: the record of the    *)
(* operations, the session and its caches, the wait, the console and its         *)
(* counters, the policy and the call it decides, the plan, the sink's queue,     *)
(* which only the sentinel takes over its capacity (submit, close).              *)
THEOREM ClientTypesAlways == ClientSpec => []TypesOK
<1> DEFINE Fields ==
      /\ which = "session" => LogonTypes /\ CacheInv
      /\ which = "job" => JobTypes /\ WaitInv
      /\ which = "console" => ConsoleInv /\ ConsoleRest /\ Output
      /\ which = "sink" => SinkInv /\ Stderr
<1>1. ClientInit => IInv /\ Fields
  <2> SUFFICES ASSUME ClientInit PROVE IInv /\ Fields
    OBVIOUS
  <2>1. IInv
    BY InitInv DEF ClientInit
  <2>2. which = "session" => LogonTypes /\ CacheInv
    <3>1. which = "session" => Session!Init
      BY DEF ClientInit
    <3>2. MaxCalls \in Nat /\ Names # {}
      BY ClientAssumption DEF Session!SessionAssumption
    <3>3. Session!Init => LogonTypes
      <4> SUFFICES ASSUME Session!Init PROVE LogonTypes
        OBVIOUS
      <4>1. /\ sessions = {} /\ unread = {} /\ phase = "logon" /\ attempt = 1 /\ token = 0
            /\ tells = {} /\ calls = 0
        BY DEF Session!Init
      <4>2. fallback \in BOOLEAN /\ raised \in BOOLEAN
        BY DEF Session!Init
      <4> QED
        BY ONLY <3>2, <4>1, <4>2 DEF LogonTypes
    <3> QED
      BY <3>1, <3>2, <3>3, CacheStarts
  <2>3. which = "job" => JobTypes /\ WaitInv
    <3>1. which = "job" => Job!Init
      BY DEF ClientInit
    <3>2. Timeouts \subseteq Nat /\ Intervals \subseteq Nat \ {0} /\ Blips \in Nat /\ Lags \in Nat
      BY ClientAssumption DEF Job!JobAssumption
    <3>3. Job!Init => JobTypes
      BY <3>2 DEF Job!Init, JobTypes
    <3> QED
      BY <3>1, <3>2, <3>3, WaitStarts
  <2>4. which = "console" => ConsoleInv /\ ConsoleRest /\ Output
    <3> SUFFICES ASSUME which = "console" PROVE ConsoleInv /\ ConsoleRest /\ Output
      OBVIOUS
    <3>1. Console!Init /\ ConsoleInv
      BY ConsoleStarts DEF ClientInit
    <3>2. Chunks \in Nat /\ Turns \in Nat /\ TakeOver \subseteq BOOLEAN
      BY ClientAssumption DEF Console!ConsoleAssumption
    <3>3. Console!Data(<<>>) = 0
      BY <3>1, Counts DEF ConsoleInv, ConsoleBase, ConsoleTypes
    <3>4. ConsoleRest
      <4>1. /\ owner = "nobody" /\ released = "unset" /\ rec = "none" /\ reply = "none"
            /\ reader = "nobody" /\ got = "none" /\ slot \in {"free", "other"} /\ link = "none"
            /\ turns = 0
        BY <3>1 DEF Console!Init
      <4>2. /\ takeOver \in BOOLEAN /\ closing \in BOOLEAN /\ proof \in BOOLEAN
            /\ rclosed \in BOOLEAN /\ abort \in BOOLEAN /\ eof \in BOOLEAN /\ transit \in BOOLEAN
            /\ told \in BOOLEAN /\ gap \in BOOLEAN
        BY <3>1, <3>2 DEF Console!Init
      <4> QED
        BY ONLY <3>2, <4>1, <4>2 DEF ConsoleRest
    <3>5. Output
      BY <3>1, <3>2, <3>3 DEF Console!Init, Output, InFlight
    <3> QED
      BY <3>1, <3>4, <3>5
  <2>5. which = "sink" => SinkInv /\ Stderr
    <3>1. which = "sink" => Sink!Init
      BY DEF ClientInit
    <3>2. Lines \in Nat /\ Slots \in Nat \ {0}
      BY ClientAssumption DEF Sink!SinkAssumption
    <3>3. Sink!Init => Stderr
      BY <3>2 DEF Sink!Init, Stderr
    <3> QED
      BY <3>1, <3>2, <3>3, SinkStarts
  <2> QED
    BY <2>1, <2>2, <2>3, <2>4, <2>5
<1>2. IInv /\ [ClientNext]_clientVars => IInv'
  <2>1. [ClientNext]_clientVars => [Next]_vars
    BY DEF ClientNext, clientVars
  <2> QED
    BY <2>1, NextInv
<1>3. Fields /\ [ClientNext]_clientVars => Fields'
  <2> SUFFICES ASSUME Fields, [ClientNext]_clientVars PROVE Fields'
    OBVIOUS
  <2>1. which' = which
    BY DEF ClientNext, clientVars
  <2>2. which = "session" => LogonTypes' /\ CacheInv'
    <3>1. which = "session" => [Session!Next]_Session!vars
      BY DEF ClientNext, clientVars, sessionVars, Session!vars, Session!session, Session!caches
    <3> QED
      BY <3>1, LogonTyped, CacheKept, ClientAssumption DEF Session!SessionAssumption
  <2>3. which = "job" => JobTypes' /\ WaitInv'
    <3>1. which = "job" => [Job!Next]_Job!vars
      BY DEF ClientNext, clientVars, jobVars, Job!vars, Job!hmc, Job!args, Job!memo, Job!out,
        Job!hist
    <3> QED
      BY <3>1, JobKept, WaitKept, ClientAssumption DEF Job!JobAssumption
  <2>4. which = "console" => ConsoleInv' /\ ConsoleRest' /\ Output'
    <3>1. which = "console" => [Console!Next]_Console!vars
      BY DEF ClientNext, clientVars, consoleVars, Console!vars, Console!session, Console!reading,
        Console!terminal, Console!history
    <3> QED
      BY <3>1, ConsoleKept, RestKept, OutputKept, ClientAssumption DEF Console!ConsoleAssumption
  <2>5. which = "sink" => SinkInv' /\ Stderr'
    <3>1. which = "sink" => [Sink!Next]_Sink!vars
      BY DEF ClientNext, clientVars, sinkVars, Sink!vars
    <3> QED
      BY <3>1, SinkKept, StderrKept, ClientAssumption DEF Sink!SinkAssumption
  <2> QED
    BY <2>1, <2>2, <2>3, <2>4, <2>5
<1>4. /\ IInv /\ Fields /\ (which = "server" => ServerInv) /\ (which = "plan" => PlanInv) => TypesOK
  <2>1. Chunks \in Nat /\ Lines \in Nat /\ Slots \in Nat
    BY ClientAssumption DEF Console!ConsoleAssumption, Sink!SinkAssumption
  <2> QED
    BY <2>1, SessionTyped, JobTyped, ConsoleTyped, SinkTyped, PlanTyped DEF IInv, ServerInv, TypesOK
<1> QED
  BY <1>1, <1>2, <1>3, <1>4, ServerAlways, PlanAlways, PTL DEF ClientSpec
=============================================================================
