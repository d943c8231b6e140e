----------------------------- MODULE HmcSession -----------------------------
(* One HMC client (client/core.py): the REST session it logs on to and off,  *)
(* and the names it discovers once per resource type to validate the         *)
(* requests of concurrent tasks.  The client lives for one `async with`:     *)
(* tasks run in its body, and leaving the body logs off and closes the       *)
(* transport whatever the body did.                                          *)
EXTENDS Naturals, FiniteSets

CONSTANTS
  Tasks,    \* concurrent requests of the body
  Names,    \* property names a task may ask for
  MaxCalls  \* bound: requests in all

SessionAssumption == MaxCalls \in Nat /\ Names # {}

Anchors == {"quick", "search"}     \* the two discovery anchors: one lock and one cache each
Unknown == [known |-> FALSE, names |-> {}]

VARIABLES
  (* the HMC *)
  sessions,  \* sessions it holds, by the logon attempt that made them
  defines,   \* the names each anchor's type really defines
  (* the session *)
  phase, attempt,
  fallback,  \* _legacy_port_fallback
  token,     \* the attempt whose session token the client sends; 0: none
  raised,    \* the body raised
  told,      \* how the caller learned of a failed cleanup
  unread,    \* sessions whose logon was never answered as far as the client knows
  (* the caches *)
  cache,     \* names per anchor: a set of at most one answer
  lock,      \* tasks that hold an anchor's lock
  pc, ask,
  reads,     \* discoveries that were answered, per anchor
  calls

session == <<sessions, phase, attempt, fallback, token, raised, told, unread>>
caches  == <<defines, cache, lock, pc, ask, reads, calls>>
vars    == <<session, caches>>

-----------------------------------------------------------------------------
(* Logon and logoff.                                                         *)

\* The HMC makes a session for this attempt, or does not.
Makes(made) == sessions' = sessions \cup (IF made THEN {attempt} ELSE {})

Granted ==
  /\ phase = "logon" /\ phase' = "body"
  /\ Makes(TRUE) /\ token' = attempt /\ fallback' = FALSE
  /\ UNCHANGED <<attempt, raised, told, unread, caches>>

\* Another status, or an answer without a token: HMCError.
Rejected ==
  /\ phase = "logon" /\ phase' = "abandon"
  /\ UNCHANGED <<sessions, attempt, fallback, token, raised, told, unread, caches>>

\* No complete answer.  The HMC may have made the session all the same.
Unanswered(made) == Makes(made) /\ unread' = unread \cup (sessions' \ sessions)

\* Once, and only for a client whose port nobody set, the transport failure is
\* taken to mean the legacy port.
LogonUnanswered ==
  /\ phase = "logon" /\ \E made \in BOOLEAN : Unanswered(made)
  /\ IF fallback /\ token = 0
     THEN fallback' = FALSE /\ attempt' = attempt + 1 /\ phase' = "logon"
     ELSE phase' = "abandon" /\ UNCHANGED <<fallback, attempt>>
  /\ UNCHANGED <<token, raised, told, caches>>

LogonCancelled ==
  /\ phase = "logon" /\ \E made \in BOOLEAN : Unanswered(made)
  /\ phase' = "abandon"
  /\ UNCHANGED <<attempt, fallback, token, raised, told, caches>>

\* __aenter__ closes the transport and raises; a second failure is a note.
Abandon ==
  /\ phase = "abandon" /\ phase' = "closed" /\ told' = told \cup {"raised"}
  /\ UNCHANGED <<sessions, attempt, fallback, token, raised, unread, caches>>

\* Mutant: a body that raised is left without a logoff.
LeaveBodyUnlogged ==
  /\ phase = "body" /\ \A t \in Tasks : pc[t] = "idle"
  /\ \E r \in BOOLEAN : raised' = r /\ phase' = (IF r THEN "close" ELSE "logoff")
  /\ UNCHANGED <<sessions, attempt, fallback, token, told, unread, caches>>

\* The body is left once its tasks are: cleanly or by an exception.
LeaveBody ==
  /\ phase = "body" /\ \A t \in Tasks : pc[t] = "idle"
  /\ phase' = "logoff" /\ raised' \in BOOLEAN
  /\ UNCHANGED <<sessions, attempt, fallback, token, told, unread, caches>>

\* The HMC ends an idle session of its own accord.
Expires == \E s \in sessions :
  /\ phase \in {"body", "logoff"} /\ sessions' = sessions \ {s}
  /\ UNCHANGED <<phase, attempt, fallback, token, raised, told, unread, caches>>

\* How a failed cleanup reaches the caller: never in place of the body's error.
Learns(cleanup) == told' = told \cup {IF raised THEN "note" ELSE cleanup}

LoggedOff ==
  /\ phase = "logoff" /\ phase' = "close" /\ token' = 0
  /\ token \in sessions /\ sessions' = sessions \ {token}
  /\ UNCHANGED <<attempt, fallback, raised, told, unread, caches>>

\* Another status: the session is there, or is gone already.
LogoffRejected ==
  /\ phase = "logoff" /\ phase' = "close" /\ token' = 0
  /\ Learns("raised")
  /\ UNCHANGED <<sessions, attempt, fallback, raised, unread, caches>>

\* No complete answer, or a cancellation: the session may be there.
LogoffUnanswered == \E how \in {"logged", "raised"}, gone \in {{}, {token}} :
  /\ phase = "logoff" /\ phase' = "close" /\ token' = 0
  /\ sessions' = sessions \ gone /\ Learns(how)
  /\ UNCHANGED <<attempt, fallback, raised, unread, caches>>

CloseTransport == \E fails \in BOOLEAN :
  /\ phase = "close" /\ phase' = "closed"
  /\ IF fails THEN Learns("raised") ELSE UNCHANGED told
  /\ UNCHANGED <<sessions, attempt, fallback, token, raised, unread, caches>>

-----------------------------------------------------------------------------
(* Validated requests.                                                       *)

Goes(t, here, there) == phase = "body" /\ pc[t] = here /\ pc' = [pc EXCEPT ![t] = there]

\* The cached answer decides; an unknown one refuses nothing, an empty one all.
Refused(t) == \E known \in cache[ask[t].anchor] : known.known /\ ask[t].name \notin known.names

Decide(t) == pc' = [pc EXCEPT ![t] = IF Refused(t) THEN "refused" ELSE "get"]

Ask(t) == \E anchor \in Anchors, name \in Names :
  /\ calls < MaxCalls /\ calls' = calls + 1
  /\ Goes(t, "idle", "look") /\ ask' = [ask EXCEPT ![t] = [anchor |-> anchor, name |-> name]]
  /\ UNCHANGED <<session, defines, cache, lock, reads>>

Look(t) ==
  /\ phase = "body" /\ pc[t] = "look"
  /\ IF cache[ask[t].anchor] # {} THEN Decide(t) ELSE pc' = [pc EXCEPT ![t] = "wait"]
  /\ UNCHANGED <<session, defines, cache, lock, ask, reads, calls>>

\* Mutant: the cache is not looked at again under the lock.
EnterUnchecked(t) ==
  LET a == ask[t].anchor
  IN /\ phase = "body" /\ pc[t] = "wait" /\ lock[a] = {}
     /\ pc' = [pc EXCEPT ![t] = "read"] /\ lock' = [lock EXCEPT ![a] = {t}]
     /\ UNCHANGED <<session, defines, cache, ask, reads, calls>>

\* Another task may have filled the cache while this one waited.
Enter(t) ==
  LET a == ask[t].anchor
  IN /\ phase = "body" /\ pc[t] = "wait" /\ lock[a] = {}
     /\ IF cache[a] # {} THEN Decide(t) /\ UNCHANGED lock
        ELSE pc' = [pc EXCEPT ![t] = "read"] /\ lock' = [lock EXCEPT ![a] = {t}]
     /\ UNCHANGED <<session, defines, cache, ask, reads, calls>>

\* What the HMC may answer at a discovery anchor, and what is read from it.
Answers == {"listed", "bare", "unnamed", "no content", "other status", "no container", "no answer"}

\* Names are what a document lists; a container without any says the type defines
\* none, one whose entries have no usable name says nothing, nor does a 204; the rest
\* is an HMCError, kept as an answer that says nothing.
list_quick_properties(answer) ==
  CASE answer = "listed" -> [known |-> TRUE, names |-> defines["quick"]]
    [] answer = "bare"   -> [known |-> TRUE, names |-> {}]
    [] OTHER             -> Unknown

list_search_parameters(answer) ==
  CASE answer = "listed" -> [known |-> TRUE, names |-> defines["search"]]
    [] answer = "bare"   -> [known |-> TRUE, names |-> {}]
    [] OTHER             -> Unknown

\* An HMC that answers tells the truth about its type.
CouldAnswer(a, answer) ==
  /\ answer = "bare" => defines[a] = {}
  /\ answer = "listed" => defines[a] # {}

DefinedNames(t, answer, known) ==
  LET a == ask[t].anchor
  IN /\ Goes(t, "read", "look") /\ CouldAnswer(a, answer)
     /\ cache' = [cache EXCEPT ![a] = {known}]
     /\ lock' = [lock EXCEPT ![a] = {}] /\ reads' = [reads EXCEPT ![a] = @ + 1]
     /\ UNCHANGED <<session, defines, ask, calls>>

DefinedQuickPropertyNames(t) == \E answer \in Answers :
  ask[t].anchor = "quick" /\ DefinedNames(t, answer, list_quick_properties(answer))

DefinedSearchParameterNames(t) == \E answer \in Answers :
  ask[t].anchor = "search" /\ DefinedNames(t, answer, list_search_parameters(answer))

\* The request itself: a value, nothing, or an error of the HMC.
Answered(t) == Goes(t, "get", "idle") /\ UNCHANGED <<session, defines, cache, lock, ask, reads, calls>>
Refuse(t) == Goes(t, "refused", "idle") /\ UNCHANGED <<session, defines, cache, lock, ask, reads, calls>>

\* A cancelled task leaves the lock, and leaves no answer behind.
Cancelled(t) ==
  /\ phase = "body" /\ pc[t] \in {"wait", "read", "get"} /\ pc' = [pc EXCEPT ![t] = "idle"]
  /\ lock' = [a \in Anchors |-> lock[a] \ {t}]
  /\ UNCHANGED <<session, defines, cache, ask, reads, calls>>

-----------------------------------------------------------------------------
Init ==
  /\ sessions = {} /\ unread = {} /\ phase = "logon" /\ attempt = 1
  /\ fallback \in BOOLEAN /\ token = 0 /\ raised = FALSE /\ told = {}
  /\ defines \in [Anchors -> SUBSET Names]
  /\ cache = [a \in Anchors |-> {}] /\ lock = [a \in Anchors |-> {}]
  /\ reads = [a \in Anchors |-> 0] /\ calls = 0
  /\ pc = [t \in Tasks |-> "idle"]
  /\ ask = [t \in Tasks |-> [anchor |-> "quick", name |-> CHOOSE n \in Names : TRUE]]

Logs ==
  \/ Granted \/ Rejected \/ LogonUnanswered \/ LogonCancelled \/ Abandon
  \/ LeaveBody \/ Expires \/ LoggedOff \/ LogoffRejected \/ LogoffUnanswered \/ CloseTransport

Requests(t) ==
  \/ Ask(t) \/ Look(t) \/ Enter(t) \/ DefinedQuickPropertyNames(t)
  \/ DefinedSearchParameterNames(t) \/ Answered(t) \/ Refuse(t) \/ Cancelled(t)

Next == Logs \/ \E t \in Tasks : Requests(t)

Spec == Init /\ [][Next]_vars

-----------------------------------------------------------------------------
(* Properties.                                                               *)

SessionTypeOK ==
  /\ sessions \subseteq {1, 2} /\ unread \subseteq {1, 2}
  /\ phase \in {"logon", "abandon", "body", "logoff", "close", "closed"}
  /\ attempt \in {1, 2} /\ token \in {0, 1, 2} /\ fallback \in BOOLEAN /\ raised \in BOOLEAN
  /\ told \subseteq {"raised", "note", "logged"}
  /\ defines \in [Anchors -> SUBSET Names]
  /\ \A a \in Anchors : cache[a] \subseteq [known : BOOLEAN, names : SUBSET Names]
  /\ lock \in [Anchors -> SUBSET Tasks] /\ reads \in [Anchors -> Nat]
  /\ pc \in [Tasks -> {"idle", "look", "wait", "read", "get", "refused"}]
  /\ ask \in [Tasks -> [anchor : Anchors, name : Names]] /\ calls \in 0..MaxCalls

(* A client that is closed left no session at the HMC behind the caller's    *)
(* back: what is left was made by a logon nobody heard of, or its logoff     *)
(* failed and the caller was told: by an error, by a note on the error the   *)
(* body raised, or in the log.  And no token outlives the client             *)
(* (logon, logoff, __aenter__, __aexit__).                                   *)
SessionsAccounted ==
  phase = "closed" => /\ token = 0
                      /\ sessions \subseteq unread \cup (IF told = {} THEN {} ELSE {attempt})

(* However the tasks interleave and whichever are cancelled, an anchor is    *)
(* read once for all of them, one task at a time; and a name is refused only *)
(* if the HMC does not define it: an answer that says nothing about the      *)
(* type, or no answer, refuses none (_defined_quick_property_names,          *)
(* _defined_search_parameter_names).                                         *)
CacheSound ==
  /\ \A a \in Anchors : reads[a] <= 1
  /\ \A a \in Anchors : {t \in Tasks : pc[t] = "read" /\ ask[t].anchor = a} = lock[a]
  /\ \A t \in Tasks : pc[t] = "refused" => ask[t].name \notin defines[ask[t].anchor]
=============================================================================
