---------------------------- MODULE EventAlerts ----------------------------
(***************************************************************************)
(* What the agent does with a motion event: analyze_event_clip, run by     *)
(* drivers that do not claim the event (the cycle, the backfill, mid-event *)
(* re-analysis); the alert it records and sends; the escalation of serious *)
(* alerts nobody answers; and the buttons of the Telegram message.         *)
(*                                                                         *)
(* Simplifications.                                                        *)
(* - Events are numbered in the order they start.                          *)
(* - An alert is named by the analysis that made it and its event; the     *)
(*   alerts a driver makes of an event are counted, up to two.             *)
(* - Recognition (plates, faces, outfit), the prompt's context, timeline   *)
(*   and search index only feed or follow the summary.  The feedback and   *)
(*   condition columns of an alert, and the separate message of a          *)
(*   plain-English rule, are left out; so is run_live_alert_loop, whose    *)
(*   messages have no row and no escalation.                               *)
(* - A button press is a step when the bot handles it: Telegram holds it    *)
(*   until then, and one replayed after a crash finds nothing pending.     *)
(* - The agent is enabled, Telegram is set up and what is sent arrives;    *)
(*   no event is older than the seven days the cycle looks back;           *)
(*   database statements succeed.                                          *)
(* - The 300 s an alert waits are any time at all.                         *)
(***************************************************************************)
EXTENDS Integers, FiniteSets

CONSTANTS
    MaxEvent,       \* events 1..MaxEvent, oldest first
    Cycle,          \* the driver run_cycle
    Backfill,       \* the driver run_backfill_analysis
    Mids,           \* re-analyses spawned while an event is open
    Prefs,          \* alert settings the user may choose
    NoPrefs,
    CycleBatch,     \* LIMIT 5
    BackfillBatch,  \* BACKFILL_BATCH
    Rules,          \* whether a subscribed rule may match
    Verdicts,       \* risk levels the model answers with
    MaxBoots

Events   == 1..MaxEvent
Loops    == {Cycle, Backfill}
Analysts == Loops \cup Mids
Alerts   == Analysts \X Events

\* normal, monitor, suspicious, critical; a bar of Off lets nothing through.
Levels  == 0..3
Serious == 2
Worst   == 3
Off     == 4

ASSUME NameAssumption ==
    /\ Cycle # Backfill /\ Loops \cap Mids = {}
    /\ NoPrefs \notin Prefs
ASSUME BoundAssumption ==
    /\ MaxEvent \in Nat /\ MaxBoots \in Nat
    /\ CycleBatch \in Nat \ {0} /\ BackfillBatch \in Nat \ {0}
    /\ Verdicts \subseteq Levels /\ Rules \subseteq BOOLEAN
ASSUME PrefsAssumption ==
    /\ Prefs \subseteq [bar : 0..Off, muted : BOOLEAN, quiet : BOOLEAN, model : BOOLEAN]
    /\ Prefs # {}

VARIABLES
    row,        \* motion_events: absent, open, closed, gone
    summary,    \* events with an ai_summary
    prefs,      \* the settings now
    queue,      \* ids a loop has selected and not yet taken up
    phase, at,  \* where each analysis is, and the event it is about (0: none)
    snap,       \* the settings it read when it began
    risk,       \* the risk it judged
    made,       \* alerts recorded, by analyst and event
    forced,     \* alerts a subscribed rule asked for
    sent,       \* alerts sent
    pending,    \* pending_escalations
    expired,    \* taken out of it, not yet escalated
    auto,       \* auto-escalations sent
    stopped,    \* alerts answered while they were pending (history)
    boots

eventVars  == <<row, summary, prefs>>
workVars   == <<queue, phase, at, snap, risk>>
alertVars  == <<made, forced, sent>>
escVars    == <<pending, expired, auto>>
vars == <<eventVars, workVars, alertVars, escVars, stopped, boots>>

Phases  == {"idle", "judge", "gate", "send", "register"}

WorkTypes ==
    /\ queue \in [Loops -> SUBSET Events]
    /\ phase \in [Analysts -> Phases]
    /\ at \in [Analysts -> 0..MaxEvent]
    /\ snap \in [Analysts -> Prefs \cup {NoPrefs}]
    /\ risk \in [Analysts -> Levels]
AlertTypes ==
    /\ made \in [Alerts -> 0..2] /\ auto \in [Alerts -> 0..2]
    /\ forced \subseteq Alerts /\ sent \subseteq Alerts
    /\ pending \subseteq Alerts /\ expired \subseteq Alerts /\ stopped \subseteq Alerts
TypeOK ==
    /\ row \in [Events -> {"absent", "open", "closed", "gone"}]
    /\ summary \subseteq Events
    /\ prefs \in Prefs
    /\ WorkTypes /\ AlertTypes
    /\ boots \in 0..MaxBoots

Init ==
    /\ row = [e \in Events |-> "absent"]
    /\ summary = {}
    /\ prefs \in Prefs
    /\ queue = [w \in Loops |-> {}]
    /\ phase = [w \in Analysts |-> "idle"]
    /\ at = [w \in Analysts |-> 0]
    /\ snap = [w \in Analysts |-> NoPrefs]
    /\ risk = [w \in Analysts |-> 0]
    /\ made = [i \in Alerts |-> 0] /\ auto = [i \in Alerts |-> 0]
    /\ forced = {} /\ sent = {}
    /\ pending = {} /\ expired = {} /\ stopped = {}
    /\ boots = 0

Exists(e) == row[e] \in {"open", "closed"}

-----------------------------------------------------------------------------
(* Events come and go, and the user changes the alert settings.            *)

EventOpens(e) ==
    /\ row[e] = "absent" /\ \A d \in 1..(e - 1): row[d] # "absent"
    /\ row' = [row EXCEPT ![e] = "open"]
    /\ UNCHANGED <<summary, prefs, workVars, alertVars, escVars, stopped, boots>>

EventCloses(e) ==
    /\ row[e] = "open"
    /\ row' = [row EXCEPT ![e] = "closed"]
    /\ UNCHANGED <<summary, prefs, workVars, alertVars, escVars, stopped, boots>>

EventDeleted(e) ==
    /\ row[e] = "closed"
    /\ row' = [row EXCEPT ![e] = "gone"]
    /\ UNCHANGED <<summary, prefs, workVars, alertVars, escVars, stopped, boots>>

PrefsChange ==
    /\ prefs' \in Prefs \ {prefs}
    /\ UNCHANGED <<row, summary, workVars, alertVars, escVars, stopped, boots>>

-----------------------------------------------------------------------------
(* The drivers: nothing tells one that another has the event already.      *)

Owed == {e \in Events : row[e] = "closed" /\ e \notin summary}

\* The newest few, or the oldest few.
Before(w, d, e) == IF w = Cycle THEN d > e ELSE d < e
Batch(w) == IF w = Cycle THEN CycleBatch ELSE BackfillBatch
Selected(w) == {e \in Owed : Cardinality({d \in Owed : Before(w, d, e)}) < Batch(w)}

\* The backfill waits for a configured model, the cycle does without.
Select(w) ==
    /\ phase[w] = "idle" /\ queue[w] = {} /\ Owed # {}
    /\ w = Backfill => prefs.model
    /\ queue' = [queue EXCEPT ![w] = Selected(w)]
    /\ UNCHANGED <<eventVars, phase, at, snap, risk, alertVars, escVars, stopped, boots>>

Ends(w) ==
    /\ phase' = [phase EXCEPT ![w] = "idle"] /\ at' = [at EXCEPT ![w] = 0]
    /\ snap' = [snap EXCEPT ![w] = NoPrefs] /\ risk' = [risk EXCEPT ![w] = 0]

\* Two seconds on the settings are copied and the row is read.
Begins(w, e) ==
    /\ phase[w] = "idle"
    /\ IF Exists(e)
       THEN /\ phase' = [phase EXCEPT ![w] = "judge"] /\ at' = [at EXCEPT ![w] = e]
            /\ snap' = [snap EXCEPT ![w] = prefs] /\ UNCHANGED risk
       ELSE Ends(w)
    /\ UNCHANGED <<eventVars, alertVars, escVars, stopped, boots>>

\* The list is worked off as it was selected, whatever happened to its events since.
TakeUp(w, e) ==
    /\ e \in queue[w] /\ ~\E d \in queue[w]: Before(w, d, e)
    /\ Begins(w, e)
    /\ queue' = [queue EXCEPT ![w] = @ \ {e}]

\* re_analysis_interval_secs into an open event; the bound is one per event.
MidBegins(w, e) ==
    /\ row[e] = "open" /\ made[<<w, e>>] = 0
    /\ Begins(w, e) /\ UNCHANGED queue

-----------------------------------------------------------------------------
(* analyze_event_clip, from one write the others can see to the next.      *)

Goes(w, next) == phase' = [phase EXCEPT ![w] = next]

\* UPDATE ... SET ai_summary
Summarised_Lost(e) == summary
Summarised(e) == summary \cup {e}

\* Without a model the summary comes from the detections and there is no alert.
NoModel(w) ==
    /\ phase[w] = "judge" /\ ~snap[w].model
    /\ summary' = Summarised(at[w])
    /\ Ends(w)
    /\ UNCHANGED <<row, prefs, queue, alertVars, escVars, stopped, boots>>

\* The verdict blended with what the detector and the clock say.
RiskOf(verdict, people, night, notable) ==
    CASE verdict >= Serious -> verdict
      [] verdict = 1 -> IF night /\ notable /\ people > 0 THEN Serious ELSE 1
      [] OTHER -> IF people > 0 /\ night THEN Serious
                  ELSE IF people > 1 \/ notable THEN 1 ELSE 0

Judged(w, verdicts) ==
    /\ \E verdict \in verdicts, people \in 0..2, night \in BOOLEAN, notable \in BOOLEAN:
          risk' = [risk EXCEPT ![w] = RiskOf(verdict, people, night, notable)]
    /\ summary' = Summarised(at[w])
    /\ Goes(w, "gate") /\ UNCHANGED <<at, snap>>

\* "VLM unavailable/failed": the detections' summary, and their risk.
Unavailable_Dropped(w) == Ends(w) /\ UNCHANGED summary
Unavailable(w) == Judged(w, {0})

Judge(w) ==
    /\ phase[w] = "judge" /\ snap[w].model
    /\ Judged(w, Verdicts) \/ Unavailable(w)
    /\ UNCHANGED <<row, prefs, queue, alertVars, escVars, stopped, boots>>

\* risk_meets_threshold
Meets(level, bar) == level >= bar

\* channel_alert_allowed, inside quiet hours or not.
Allowed(p, level, quiet) ==
    ~p.muted /\ Meets(level, p.bar) /\ (quiet => level = Worst)

\* A subscribed rule overrides the threshold and quiet hours, not the mute; an alert
\* that is wanted is recorded.
Gate(w) ==
    /\ phase[w] = "gate"
    /\ \E ruled \in Rules, quiet \in {FALSE, snap[w].quiet}:
          LET forces == ruled /\ ~snap[w].muted
              i == <<w, at[w]>>
          IN  IF forces \/ Allowed(snap[w], risk[w], quiet)
              THEN /\ Goes(w, "send") /\ UNCHANGED <<at, snap, risk>>
                   /\ made' = [made EXCEPT ![i] = IF @ < 2 THEN @ + 1 ELSE @]
                   /\ forced' = IF forces THEN forced \cup {i} ELSE forced
              ELSE Ends(w) /\ UNCHANGED <<made, forced>>
    /\ UNCHANGED <<eventVars, queue, sent, escVars, stopped, boots>>

\* dispatch_with_clip holds the alert against the threshold once more.
Send(w) ==
    /\ phase[w] = "send"
    /\ sent' = IF Meets(risk[w], snap[w].bar) THEN sent \cup {<<w, at[w]>>} ELSE sent
    /\ IF risk[w] >= Serious THEN Goes(w, "register") /\ UNCHANGED <<at, snap, risk>>
       ELSE Ends(w)
    /\ UNCHANGED <<eventVars, queue, made, forced, escVars, stopped, boots>>

Register(w) ==
    /\ phase[w] = "register"
    /\ pending' = pending \cup {<<w, at[w]>>}
    /\ Ends(w)
    /\ UNCHANGED <<eventVars, queue, alertVars, expired, auto, stopped, boots>>

Analyse(w) ==
    NoModel(w) \/ Judge(w) \/ Gate(w) \/ Send(w) \/ Register(w)

-----------------------------------------------------------------------------
(* run_escalation_loop: what is due leaves the table under its lock, and    *)
(* the messages follow one by one.                                          *)

Kept(due) == pending \ due
Collected_OneOnly(due) == {CHOOSE i \in due : TRUE}
Collected(due) == due

Expire(due) ==
    /\ expired = {} /\ due # {}
    /\ pending' = Kept(due) /\ expired' = Collected(due)
    /\ UNCHANGED <<eventVars, workVars, alertVars, auto, stopped, boots>>

Escalate(i) ==
    /\ i \in expired
    /\ auto' = [auto EXCEPT ![i] = IF @ < 2 THEN @ + 1 ELSE @]
    /\ expired' = expired \ {i}
    /\ UNCHANGED <<eventVars, workVars, alertVars, pending, stopped, boots>>

-----------------------------------------------------------------------------
(* run_telegram_loop: a button of a message that was sent, whenever the bot *)
(* comes to it.  Acknowledge and false alarm end the wait; Escalate marks   *)
(* the row and leaves the wait as it is.                                    *)

Waiting_AckIgnored(i) == pending
Waiting(i) == pending \ {i}

Answer(i) ==
    /\ i \in sent
    /\ pending' = Waiting(i) /\ stopped' = stopped \cup ({i} \cap pending)
    /\ UNCHANGED <<eventVars, workVars, alertVars, expired, auto, boots>>

\* The database outlives the process, tasks and pending_escalations do not; the boot
\* closes the events left open.
Restart ==
    /\ boots < MaxBoots /\ boots' = boots + 1
    /\ row' = [e \in Events |-> IF row[e] = "open" THEN "closed" ELSE row[e]]
    /\ queue' = [w \in Loops |-> {}]
    /\ phase' = [w \in Analysts |-> "idle"] /\ at' = [w \in Analysts |-> 0]
    /\ snap' = [w \in Analysts |-> NoPrefs] /\ risk' = [w \in Analysts |-> 0]
    /\ pending' = {} /\ expired' = {}
    /\ UNCHANGED <<summary, prefs, alertVars, auto, stopped>>

Drive(w)   == Select(w) \/ \E e \in Events: TakeUp(w, e)
Escalation == (\E due \in SUBSET pending: Expire(due)) \/ (\E i \in Alerts: Escalate(i))

Next ==
    \/ \E e \in Events: EventOpens(e) \/ EventCloses(e) \/ EventDeleted(e)
    \/ PrefsChange
    \/ \E w \in Loops: Drive(w)
    \/ \E w \in Mids, e \in Events: MidBegins(w, e)
    \/ \E w \in Analysts: Analyse(w)
    \/ Escalation
    \/ \E i \in Alerts: Answer(i)
    \/ Restart

Spec == Init /\ [][Next]_vars

\* The loops, each one task, go on by themselves.
Fairness ==
    /\ \A w \in Loops: WF_vars(Drive(w) \/ Analyse(w))
    /\ WF_vars(Escalation)

FairSpec == Spec /\ Fairness

-----------------------------------------------------------------------------
(* Properties. *)

\* "NEVER leave the event unanalysed": a closed event gets its summary, even if
\* the model never answers, whatever the settings and across a restart.
ClosedEventsAnalysed ==
    \A e \in Events: (row[e] = "closed") ~> (e \in summary \/ row[e] = "gone")

\* A loop alerts on an event once: though nobody claims an event, its summary
\* keeps the loop from selecting it again, also after a crash in mid-alert.
OneAlertPerLoop == \A w \in Loops, e \in Events: made[<<w, e>>] <= 1

\* An alert answered while it waits is never escalated "for no response", with the loop
\* between its steps.
AnsweredNotEscalated == \A i \in stopped: auto[i] = 0

\* No alert is escalated twice, though the loops add alerts while the timer runs.
EscalatedOnce == \A i \in Alerts: auto[i] <= 1

\* Whichever analyses, buttons and timer meet, the alerts implement AlertBook: each is made
\* once, waits at most once, and ends by an answer, one escalation or with the process.
\* An alert is "made" while its analysis sends or registers it.
Carries(w, i) == phase[w] \in {"send", "register"} /\ <<w, at[w]>> = i
Stage(i) ==
    IF made[i] = 0 THEN "none"
    ELSE IF i \in stopped THEN "over"
    ELSE IF i \in expired THEN "due"
    ELSE IF i \in pending THEN "waiting"
    ELSE IF Carries(i[1], i) THEN "made" ELSE "over"

Book == INSTANCE AlertBook WITH
    stage       <- [i \in Alerts |-> Stage(i)],
    delivered   <- sent,
    escalations <- auto

ImplementsAlertBook == Book!Spec

\* A serious alert that nobody answers is escalated, unless the process dies.
UnansweredEscalates ==
    \A i \in Alerts: (i \in pending /\ boots = MaxBoots) ~> (i \in stopped \/ auto[i] > 0)

\* A claim of the source that the code does not keep.

\* "A rule the user subscribed to ... alerts whatever the risk threshold or quiet hours
\* say": what a rule forced and is recorded is sent by the time the analysis is over.
RuledAlertsSent ==
    \A i \in forced: made[i] > 0 /\ phase[i[1]] = "idle" /\ boots = 0 => i \in sent
=============================================================================
