----------------------------- MODULE AuditTrail -----------------------------
(* What the audit sink promises of its stream (docs/authorization-audit.md,   *)
(* ADR 0043): lines reach it in the order they were submitted, each at most   *)
(* once, and every line that never will is counted in a drop marker or is     *)
(* still owed one.                                                            *)
EXTENDS Integers, Sequences

CONSTANT Lines   \* how many lines are submitted in all

VARIABLES
  sent,      \* lines submitted, numbered in this order
  waiting,   \* accepted lines that have not been written yet
  lost,      \* lines dropped and not reported yet
  stream     \* lines and drop markers on stderr

trail == <<sent, waiting, lost, stream>>

LineEntry(n) == [kind |-> "line", n |-> n]
DropMarker(n) == [kind |-> "records-dropped", n |-> n]

Init == sent = 0 /\ waiting = <<>> /\ lost = 0 /\ stream = <<>>

Accept == /\ sent < Lines /\ sent' = sent + 1
          /\ waiting' = Append(waiting, sent + 1)
          /\ UNCHANGED <<lost, stream>>

Lose == /\ sent < Lines /\ sent' = sent + 1
        /\ lost' = lost + 1
        /\ UNCHANGED <<waiting, stream>>

Land == /\ waiting # <<>> /\ waiting' = Tail(waiting)
        /\ stream' = Append(stream, LineEntry(Head(waiting)))
        /\ UNCHANGED <<sent, lost>>

Miss == /\ waiting # <<>> /\ waiting' = Tail(waiting)
        /\ lost' = lost + 1
        /\ UNCHANGED <<sent, stream>>

Report == \E n \in 1..lost : /\ stream' = Append(stream, DropMarker(n))
                             /\ lost' = lost - n
                             /\ UNCHANGED <<sent, waiting>>

Next == Accept \/ Lose \/ Land \/ Miss \/ Report
Spec == Init /\ [][Next]_trail
=============================================================================
