----------------------------- MODULE AlertBook -----------------------------
(***************************************************************************)
(* What somebody who gets alerts may rely on: an alert is made once, waits *)
(* at most once, and comes to its end by one escalation, by an answer to   *)
(* the message while it waits, or with the process; after its end nothing  *)
(* more is heard of it.  EventAlerts implements it.                        *)
(***************************************************************************)
EXTENDS Naturals

CONSTANT Alerts

VARIABLES
    stage,          \* none, made, waiting, due, over
    delivered,      \* alerts whose message was sent
    escalations     \* escalations of each alert

vars == <<stage, delivered, escalations>>

Init ==
    /\ stage = [i \in Alerts |-> "none"]
    /\ delivered = {}
    /\ escalations = [i \in Alerts |-> 0]

Moves(i, from, to) == stage[i] = from /\ stage' = [stage EXCEPT ![i] = to]

Make(i) == Moves(i, "none", "made") /\ UNCHANGED <<delivered, escalations>>

\* The message goes out or is held back; an alert that only informs is over with it.
Message(i) ==
    /\ stage[i] = "made" /\ i \notin delivered
    /\ delivered' \in {delivered, delivered \cup {i}}
    /\ UNCHANGED stage \/ Moves(i, "made", "over")
    /\ UNCHANGED escalations

Wait(i) == Moves(i, "made", "waiting") /\ UNCHANGED <<delivered, escalations>>

\* The next lot comes due when the one before has been seen to.
ComeDue(lot) ==
    /\ \A i \in Alerts: stage[i] # "due"
    /\ \A i \in lot: stage[i] = "waiting"
    /\ stage' = [i \in Alerts |-> IF i \in lot THEN "due" ELSE stage[i]]
    /\ UNCHANGED <<delivered, escalations>>

Escalate(i) ==
    /\ Moves(i, "due", "over")
    /\ escalations' = [escalations EXCEPT ![i] = @ + 1]
    /\ UNCHANGED delivered

Answer(i) ==
    /\ i \in delivered /\ Moves(i, "waiting", "over")
    /\ UNCHANGED <<delivered, escalations>>

\* Whatever has not come to its end dies with the process.
Die ==
    /\ stage' = [i \in Alerts |-> IF stage[i] = "none" THEN "none" ELSE "over"]
    /\ UNCHANGED <<delivered, escalations>>

Next ==
    \/ \E i \in Alerts: Make(i) \/ Message(i) \/ Wait(i) \/ Escalate(i) \/ Answer(i)
    \/ \E lot \in SUBSET Alerts: ComeDue(lot)
    \/ Die

Spec == Init /\ [][Next]_vars
=============================================================================
