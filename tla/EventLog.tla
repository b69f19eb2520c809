------------------------------ MODULE EventLog ------------------------------
(***************************************************************************)
(* What one camera's motion-event log promises its readers: at most one    *)
(* event is live, a row stays open while its event is live, a row that has *)
(* been ended or removed stays so, and only a restart ends rows behind the *)
(* lifecycle's back.  MotionEvent implements it.                           *)
(***************************************************************************)
CONSTANTS Events, NoEvent

VARIABLES
    live,   \* the event in progress
    log     \* what a reader of motion_events finds for each id

vars == <<live, log>>

Init ==
    /\ live = NoEvent
    /\ log = [e \in Events |-> "absent"]

\* An event starts; its row appears later, if at all.
Begin(e) ==
    /\ live = NoEvent /\ log[e] = "absent"
    /\ live' = e /\ UNCHANGED log

Record(e) ==
    /\ log[e] = "absent"
    /\ log' = [log EXCEPT ![e] = "open"] /\ UNCHANGED live

Finish ==
    /\ live # NoEvent
    /\ live' = NoEvent /\ UNCHANGED log

\* The row follows: only once its event is over.
Settle(e) ==
    /\ live # e /\ log[e] = "open"
    /\ \E fate \in {"ended", "deleted"}: log' = [log EXCEPT ![e] = fate]
    /\ UNCHANGED live

\* Every row left open is ended; reaping may also find nothing to do.
Reap ==
    /\ live' = NoEvent
    /\ log' \in {log, [e \in Events |-> IF log[e] = "open" THEN "ended" ELSE log[e]]}

Next ==
    \/ \E e \in Events: Begin(e) \/ Record(e) \/ Settle(e)
    \/ Finish
    \/ Reap

Spec == Init /\ [][Next]_vars
=============================================================================
