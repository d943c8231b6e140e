------------------------------ MODULE JobWait ------------------------------
(* Waiting for an HMC job (operations/jobs.py over client/core.py's          *)
(* get_job_entry).  A caller holds a job identifier and perhaps a link, both *)
(* kept from an earlier process.  A read goes to the link if there is one,   *)
(* else to the global jobs path; the HMC may know the job at one and not at  *)
(* the other, may answer a read of a living job with one 404, and may forget *)
(* the job between two reads.  Time is counted in ticks.                     *)
EXTENDS Naturals

CONSTANTS
  Timeouts,    \* timeout_seconds a caller may give
  Intervals,   \* poll_interval a caller may give
  Blips,       \* bound: 404 answers about a job the HMC has
  Lags         \* bound: ticks that the reads of a wait take together

JobAssumption ==
  /\ Timeouts \subseteq Nat /\ Intervals \subseteq Nat \ {0} /\ Blips \in Nat /\ Lags \in Nat

Terminal == {"completed", "failed"}
Links    == {"good", "other"}    \* the stored link, and another one the HMC advertises
NoLink   == "none"

VARIABLES
  (* the HMC *)
  job,        \* the job's state there; "gone" once reaped
  resolves,   \* links under which the HMC serves the job
  global,     \* the global jobs path knows the caller's identifier
  advertised, \* the SELF link of an entry read through the global path
  (* the wait *)
  pc, link, deadLink, timeout, interval,
  observed, rereading,
  status,     \* the status of the last outcome that found the job
  found, returned,   \* of the last outcome
  wake, clock,
  (* history *)
  seen,       \* the job's state at the read that gave `status`
  absent,     \* how many reads in a row have found nothing
  gap,        \* ticks between the last two reads
  last,       \* the time of the last read
  stale,      \* links a read proved stale
  blips, lags

hmc  == <<job, resolves, global, advertised>>
args == <<timeout, interval>>
memo == <<link, deadLink, observed, rereading>>
out  == <<status, found, returned>>
hist == <<seen, absent, gap, last, stale>>
vars == <<hmc, args, memo, out, hist, pc, wake, clock, blips, lags>>

Smaller(a, b) == IF a < b THEN a ELSE b
Remaining == IF clock < timeout THEN timeout - clock ELSE 0

-----------------------------------------------------------------------------
(* The HMC.                                                                  *)

Progresses ==
  /\ pc # "done" /\ job = "running" /\ job' \in Terminal
  /\ UNCHANGED <<resolves, global, advertised, args, memo, out, hist, pc, wake, clock, blips, lags>>

Reaped ==
  /\ pc # "done" /\ job # "gone" /\ job' = "gone"
  /\ UNCHANGED <<resolves, global, advertised, args, memo, out, hist, pc, wake, clock, blips, lags>>

Unresolved ==
  /\ pc # "done" /\ \E l \in resolves : resolves' = resolves \ {l}
  /\ UNCHANGED <<job, global, advertised, args, memo, out, hist, pc, wake, clock, blips, lags>>

\* Whether a GET of this path answers with the entry, 404, or nothing at all.
Serves(path) == job # "gone" /\ (IF path = NoLink THEN global ELSE path \in resolves)

Answers(path) ==
  IF Serves(path) THEN {"entry"} \cup (IF blips < Blips THEN {"missing"} ELSE {})
  ELSE {"missing", "empty"}

Blip(path, answer) == blips' = blips + (IF Serves(path) /\ answer = "missing" THEN 1 ELSE 0)

\* A read takes its time.
Passes ==
  /\ pc \in {"read", "confirm"} /\ lags < Lags /\ lags' = lags + 1 /\ clock' = clock + 1
  /\ UNCHANGED <<hmc, args, memo, out, hist, pc, wake, blips>>

-----------------------------------------------------------------------------
(* One poll.                                                                 *)

\* _select_persisted_job_href: the supplied link if the read through it found the
\* job, else the advertised one unless it is known to be dead.
_select_persisted_job_href(hit, supplied, dead) ==
  IF ~hit THEN NoLink
  ELSE IF supplied # NoLink THEN supplied
  ELSE IF dead = advertised THEN NoLink ELSE advertised

\* The outcome of a read that found the job, or did not.
Outcome(hit, supplied, dead) ==
  /\ found' = hit /\ returned' = _select_persisted_job_href(hit, supplied, dead)
  /\ IF hit THEN status' = job /\ seen' = job ELSE UNCHANGED <<status, seen>>
  /\ absent' = (IF hit THEN 0 ELSE absent + 1)
  /\ gap' = clock - last /\ last' = clock
  /\ pc' = "judge"

\* _read_job: through the link, or through the global path if there is none left.
\* Only a 404 through a link is asked about again.
ReadJob == \E answer \in Answers(link) :
  /\ pc = "read" /\ Blip(link, answer)
  /\ IF link # NoLink /\ answer = "missing"
     THEN pc' = "confirm" /\ UNCHANGED <<out, hist>>
     ELSE Outcome(answer = "entry", link, deadLink) /\ UNCHANGED stale
  /\ UNCHANGED <<hmc, args, memo, wake, clock, lags>>

\* Mutant: the confirming read does not remember the dead link.
ConfirmForgetting == \E answer \in Answers(NoLink) :
  /\ pc = "confirm" /\ Blip(NoLink, answer)
  /\ LET hit == answer = "entry"
     IN /\ Outcome(hit, IF hit THEN NoLink ELSE link, IF hit THEN link ELSE deadLink)
        /\ IF hit THEN link' = NoLink /\ stale' = stale \cup {link} ELSE UNCHANGED <<link, stale>>
        /\ UNCHANGED deadLink
  /\ UNCHANGED <<hmc, args, observed, rereading, wake, clock, lags>>

\* _confirm_missing: the global path has the last word, and a link that it
\* contradicts is dead for the rest of the wait.
ConfirmMissing == \E answer \in Answers(NoLink) :
  /\ pc = "confirm" /\ Blip(NoLink, answer)
  /\ LET hit == answer = "entry"
     IN /\ Outcome(hit, IF hit THEN NoLink ELSE link, IF hit THEN link ELSE deadLink)
        /\ IF hit THEN deadLink' = link /\ link' = NoLink /\ stale' = stale \cup {link}
           ELSE UNCHANGED <<link, deadLink, stale>>
  /\ UNCHANGED <<hmc, args, observed, rereading, wake, clock, lags>>

\* Any answer but 404 or an entry raises, and ends the wait.
Raises ==
  /\ pc \in {"read", "confirm"} /\ pc' = "raised"
  /\ UNCHANGED <<hmc, args, memo, out, hist, wake, clock, blips, lags>>

-----------------------------------------------------------------------------
(* wait_for_job: what a poll's outcome means.                                *)

Ends == pc' = "done" /\ UNCHANGED wake
Sleeps(ticks) == pc' = "sleep" /\ wake' = clock + ticks

Found ==
  /\ pc = "judge" /\ found
  /\ observed' = TRUE /\ rereading' = FALSE
  /\ IF status \in Terminal \/ Remaining = 0 THEN Ends ELSE Sleeps(Smaller(interval, Remaining))
  /\ UNCHANGED <<hmc, args, link, deadLink, out, hist, clock, blips, lags>>

\* A job nobody has seen, or that was missing twice, is gone.
Gone ==
  /\ pc = "judge" /\ ~found /\ (~observed \/ rereading)
  /\ Ends
  /\ UNCHANGED <<hmc, args, memo, out, hist, clock, blips, lags>>

\* One that was there is read again, whatever is left of the time.
Disappeared ==
  /\ pc = "judge" /\ ~found /\ observed /\ ~rereading
  /\ rereading' = TRUE /\ Sleeps(Smaller(interval, timeout))
  /\ UNCHANGED <<hmc, args, link, deadLink, observed, out, hist, clock, blips, lags>>

Wakes ==
  /\ pc = "sleep" /\ pc' = "read" /\ clock' = wake
  /\ UNCHANGED <<hmc, args, memo, out, hist, wake, blips, lags>>

-----------------------------------------------------------------------------
Init ==
  /\ job \in {"running", "gone"} \cup Terminal /\ resolves \in SUBSET Links /\ global \in BOOLEAN
  /\ advertised \in Links
  /\ pc = "read" /\ link \in {"good", NoLink} /\ deadLink = NoLink
  /\ timeout \in Timeouts /\ interval \in Intervals
  /\ observed = FALSE /\ rereading = FALSE /\ status = "none" /\ found = FALSE /\ returned = NoLink
  /\ wake = 0 /\ clock = 0 /\ seen = "none" /\ absent = 0 /\ gap = 0 /\ last = 0
  /\ stale = {} /\ blips = 0 /\ lags = 0

Polls == ReadJob \/ ConfirmMissing \/ Found \/ Gone \/ Disappeared \/ Wakes

Next == Progresses \/ Reaped \/ Unresolved \/ Passes \/ Raises \/ Polls

Spec == Init /\ [][Next]_vars

-----------------------------------------------------------------------------
(* Properties.                                                               *)

JobTypeOK ==
  /\ job \in {"running", "gone"} \cup Terminal /\ resolves \subseteq Links /\ global \in BOOLEAN
  /\ advertised \in Links /\ pc \in {"read", "confirm", "judge", "sleep", "raised", "done"}
  /\ {link, deadLink, returned} \subseteq Links \cup {NoLink} /\ stale \subseteq Links
  /\ timeout \in Timeouts /\ interval \in Intervals
  /\ observed \in BOOLEAN /\ rereading \in BOOLEAN /\ found \in BOOLEAN
  /\ {status, seen} \subseteq {"none", "running"} \cup Terminal
  /\ {wake, clock, absent, gap, last} \subseteq Nat /\ blips \in 0..Blips /\ lags \in 0..Lags

(* What a finished wait returns is so.  A job it once saw is called gone     *)
(* only when two reads in a row, a poll interval apart (or the whole timeout *)
(* where that is shorter), found nothing: one 404 is not enough, be it       *)
(* behind a link that stopped resolving or at the deadline.  A job that is   *)
(* there was read in the status returned, and one that is not terminal is    *)
(* given up only once the time is over (wait_for_job).                       *)
WaitHonest ==
  pc = "done" =>
    /\ ~found /\ observed => absent = 2 /\ gap >= Smaller(interval, timeout)
    /\ found => status = seen /\ absent = 0 /\ (status \in Terminal \/ clock >= timeout)

(* The link an outcome carries is never one that this wait has seen not to   *)
(* resolve, though a later answer may advertise it again (_read_job,         *)
(* _select_persisted_job_href).                                              *)
LinkAlive == returned \notin stale
=============================================================================
