---------------------------- MODULE MotionEvent ----------------------------
(***************************************************************************)
(* The life of the motion events of one camera: the per-frame state        *)
(* machine (motion_lifecycle::step), the detector that feeds it between    *)
(* frames (run_inference_loop's accumulator), and the rows of the table    *)
(* motion_events, which tick_motion_event never writes itself: every write *)
(* is a task it spawns, and nothing orders the tasks of one event.         *)
(*                                                                         *)
(* Simplifications.                                                        *)
(* - One camera: PerCamState is looked up by camera, rows by event id.     *)
(* - A score is one of 0..MaxScore; only its order against the two bars    *)
(*   and against other scores matters.  Streaks saturate at the value the  *)
(*   code compares them with, clocks at the threshold they are read for.   *)
(* - Frames and seconds are separate steps: the code converts seconds to   *)
(*   frames with an approximate rate, so neither paces the other.          *)
(* - A detection is a label.  "Sure" labels are the tracked ones at or     *)
(*   above YOLO_CONFIRM_THRESHOLD; which of them dominates is left open.   *)
(* - Thumbnails, MQTT, the delayed clip export and the mid-event           *)
(*   re-analysis have no effect on the state modelled here.                *)
(***************************************************************************)
EXTENDS Integers

CONSTANTS
    Events,         \* ids Uuid::new_v4 can produce (bounds how many events a run opens)
    NoEvent,        \* motion_active = None
    Labels,         \* object classes
    NoLabel,        \* last_dominant = None, dominant_label NULL
    MaxScore,       \* scores are 0..MaxScore
    Sensitivity,    \* Settings.sensitivity
    OpenBar,        \* sensitivity * motion_open_score_mult
    MinFrames,      \* motion_min_frames
    StillFrames,    \* record_post_buffer_secs * fps, at least 1
    AbsenceFrames,  \* detect_max_disappeared_frames
    CapSecs,        \* record_max_event_secs, 0 = unlimited
    WindowSecs,     \* the stationary window, max(record_post_buffer_secs, 2)
    Scenes,         \* what the camera can look at
    RequireObject,  \* the values require_object_to_open_event takes in a run
    KeepAlives,     \* whether the frontend sends keep_alive_event
    Faults,         \* whether a statement may fail (busy database, pool timeout)
    MaxBoots        \* restarts in a run

ASSUME EventAssumption == NoEvent \notin Events /\ NoLabel \notin Labels
ASSUME ScoreAssumption ==
    /\ MaxScore \in Nat /\ Sensitivity \in 1..MaxScore
    /\ OpenBar \in Sensitivity..MaxScore          \* motion_open_score_mult >= 1
ASSUME CountAssumption ==
    /\ MinFrames \in Nat \ {0} /\ StillFrames \in Nat \ {0}
    /\ AbsenceFrames \in Nat \ {0} /\ WindowSecs \in Nat \ {0}
    /\ CapSecs \in Nat /\ MaxBoots \in Nat
ASSUME ChoiceAssumption ==
    /\ "busy" \in Scenes /\ Scenes \subseteq {"busy", "parked"}
    /\ RequireObject \subseteq BOOLEAN
    /\ KeepAlives \in BOOLEAN
    /\ Faults \in BOOLEAN

VARIABLES
    \* PerCamState, under the cam_states lock
    active,         \* motion_active
    motionPeak,     \* motion_peak
    streak,         \* motion_streak
    still,          \* stillness_streak
    age,            \* seconds since event_opened_at
    quiet,          \* seconds since last_motion_at
    confirmed,      \* event_object_confirmed
    absence,        \* object_absence_frames
    buffer,         \* labels in detection_buffer
    lastDominant,   \* last_dominant
    \* the detector
    yolo,           \* inference_status.state = "ready"
    inferring,      \* the event open when the frame being inferred was taken
    \* the scene in front of the camera
    scene,
    \* motion_events and review_segments
    row,            \* absent, open (ended_at NULL), ended, deleted
    peak,           \* peak_score
    dominant,       \* dominant_label
    stored,         \* detections
    grouped,        \* events a review segment holds
    \* spawned tasks
    inserting,      \* INSERT tasks
    peaking,        \* peak_score UPDATE tasks
    labelling,      \* early-classification UPDATE tasks
    closing,        \* next statement of the task that closes or drops the event
    brief,          \* ended less than 0.4 s after it started, by the wall clock
    carried,        \* labels the closing task carries to the row
    \* history
    issued,         \* ids handed out
    seen,           \* scores of the frames that opened or sustained the event
    sighted,        \* labels detected while the event was open
    astray,         \* events whose INSERT came too late, or one of whose closing
                    \* statements failed
    boots

camVars  == <<active, motionPeak, streak, still, age, quiet, confirmed, absence,
              buffer, lastDominant>>
rowVars  == <<row, peak, dominant, stored, grouped>>
taskVars == <<inserting, peaking, labelling, closing, brief, carried>>
history  == <<issued, seen, sighted, astray, boots>>
vars     == <<camVars, yolo, inferring, scene, rowVars, taskVars, history>>

Scores  == 0..MaxScore
AgeCap  == IF CapSecs = 0 THEN 1 ELSE CapSecs
Stages  == {"none", "drop", "read", "discard", "end", "flush", "group"}
Exists(e) == row[e] \in {"open", "ended"}
UpTo(n, bound) == IF n < bound THEN n + 1 ELSE bound

TypeOK ==
    /\ active \in Events \cup {NoEvent}
    /\ motionPeak \in Scores
    /\ streak \in 0..MinFrames /\ still \in 0..StillFrames
    /\ age \in 0..AgeCap /\ quiet \in 0..WindowSecs /\ absence \in 0..AbsenceFrames
    /\ confirmed \in BOOLEAN /\ yolo \in BOOLEAN
    /\ buffer \subseteq Labels /\ lastDominant \in Labels \cup {NoLabel}
    /\ inferring \in [busy : BOOLEAN, event : Events \cup {NoEvent}]
    /\ scene \in Scenes
    /\ row \in [Events -> {"absent", "open", "ended", "deleted"}]
    /\ peak \in [Events -> Scores]
    /\ dominant \in [Events -> Labels \cup {NoLabel}]
    /\ stored \in [Events -> SUBSET Labels]
    /\ grouped \subseteq Events
    /\ inserting \subseteq Events
    /\ peaking \subseteq Events \X Scores
    /\ labelling \subseteq Events \X Labels
    /\ closing \in [Events -> Stages]
    /\ brief \in [Events -> BOOLEAN]
    /\ carried \in [Events -> SUBSET Labels]
    /\ issued \subseteq Events
    /\ seen \in [Events -> SUBSET Scores]
    /\ sighted \in [Events -> SUBSET Labels]
    /\ astray \subseteq Events
    /\ boots \in 0..MaxBoots

\* PerCamState::default(), and no inference status yet.
FreshCamera ==
    /\ active = NoEvent /\ motionPeak = 0 /\ streak = 0 /\ still = 0
    /\ age = 0 /\ quiet = WindowSecs /\ confirmed = FALSE /\ absence = 0
    /\ buffer = {} /\ lastDominant = NoLabel
    /\ yolo = FALSE /\ inferring = [busy |-> FALSE, event |-> NoEvent]

Init ==
    /\ FreshCamera
    /\ scene = "busy"
    /\ row = [e \in Events |-> "absent"]
    /\ peak = [e \in Events |-> 0]
    /\ dominant = [e \in Events |-> NoLabel]
    /\ stored = [e \in Events |-> {}]
    /\ grouped = {}
    /\ inserting = {} /\ peaking = {} /\ labelling = {}
    /\ closing = [e \in Events |-> "none"]
    /\ brief = [e \in Events |-> FALSE]
    /\ carried = [e \in Events |-> {}]
    /\ issued = {}
    /\ seen = [e \in Events |-> {}]
    /\ sighted = [e \in Events |-> {}]
    /\ astray = {} /\ boots = 0

-----------------------------------------------------------------------------
(* step: the decisions for one frame. *)

StreakAfter(score) == IF score >= Sensitivity THEN UpTo(streak, MinFrames) ELSE 0
Sustained(score)   == StreakAfter(score) >= MinFrames
StillAfter(score)  == IF Sustained(score) THEN 0 ELSE UpTo(still, StillFrames)
Hysteresis(score)  == streak' = StreakAfter(score) /\ still' = StillAfter(score)

OpenNow(score) == Sustained(score) /\ score >= OpenBar
OverMax == active # NoEvent /\ CapSecs > 0 /\ age >= CapSecs
Sustains(score) == active # NoEvent /\ Sustained(score) /\ ~OverMax
CloseSignal(score) ==
    \/ OverMax
    \/ /\ StillAfter(score) >= StillFrames
       /\ yolo => absence >= AbsenceFrames

\* What the frames of the scene score.
FrameScores == IF scene = "busy" THEN Scores ELSE {0}

\* Uuid::new_v4 never repeats.
FreshId_Reused(e) == row[e] # "open"
FreshId(e) == e \notin issued

PeakAfter(score) == IF score > motionPeak THEN score ELSE motionPeak

OpenEvent(score, e) ==
    /\ active = NoEvent /\ OpenNow(score)
    /\ FreshId(e)
    /\ active' = e
    /\ issued' = issued \cup {e}
    /\ inserting' = inserting \cup {e}
    /\ motionPeak' = PeakAfter(score)
    /\ peak' = [peak EXCEPT ![e] = score]      \* the value the INSERT carries
    /\ seen' = [seen EXCEPT ![e] = {score}]
    /\ age' = 0 /\ quiet' = 0
    /\ confirmed' = FALSE /\ absence' = 0
    /\ buffer' = {} /\ lastDominant' = NoLabel
    /\ Hysteresis(score)
    /\ UNCHANGED <<row, dominant, stored, grouped, peaking, labelling, closing,
                   brief, carried, sighted, astray, yolo, inferring, scene, boots>>

SustainEvent(score) ==
    /\ Sustains(score)
    /\ quiet' = 0
    /\ motionPeak' = PeakAfter(score)
    /\ peaking' = peaking \cup {<<active, motionPeak'>>}
    /\ seen' = [seen EXCEPT ![active] = @ \cup {score}]
    /\ Hysteresis(score)
    /\ UNCHANGED <<active, age, confirmed, absence, buffer, lastDominant, rowVars,
                   inserting, labelling, closing, brief, carried,
                   yolo, inferring, scene, issued, sighted, astray, boots>>

\* motion_active.take()
TakeActive_Cloned == UNCHANGED active
TakeActive == active' = NoEvent

Fate(require) == IF require /\ ~confirmed THEN "drop" ELSE "read"

\* What step clears when an event closes (last_dominant stays until the next opens).
ForgetEvent ==
    /\ motionPeak' = 0
    /\ age' = 0 /\ quiet' = WindowSecs /\ confirmed' = FALSE /\ absence' = 0
    /\ buffer' = {}

\* The event leaves memory at once; its row is dealt with by a task.  A row
\* less than a second old may fall short of the 0.4 s threshold.
CloseEvent(score, require) ==
    /\ active # NoEvent /\ ~Sustains(score) /\ CloseSignal(score)
    /\ TakeActive
    /\ closing' = [closing EXCEPT ![active] = Fate(require)]
    /\ \E short \in BOOLEAN:
          /\ short => age = 0
          /\ brief' = [brief EXCEPT ![active] = short]
    /\ carried' = [carried EXCEPT ![active] = buffer]
    /\ ForgetEvent
    /\ Hysteresis(score)
    /\ UNCHANGED <<lastDominant, rowVars, inserting, peaking, labelling,
                   yolo, inferring, scene, history>>

IdleFrame(score) ==
    /\ ~Sustains(score)
    /\ IF active = NoEvent THEN ~OpenNow(score) ELSE ~CloseSignal(score)
    /\ Hysteresis(score)
    /\ UNCHANGED <<active, motionPeak, age, quiet, confirmed, absence, buffer,
                   lastDominant, yolo, inferring, scene, rowVars, taskVars, history>>

Frame ==
    \E score \in FrameScores:
        \/ \E e \in Events: OpenEvent(score, e)
        \/ SustainEvent(score)
        \/ \E require \in RequireObject: CloseEvent(score, require)
        \/ IdleFrame(score)

-----------------------------------------------------------------------------
(* The detector, its clock, and the frontend. *)

\* The model loads once per process and stays loaded.
DetectorReady ==
    /\ ~yolo /\ yolo' = TRUE
    /\ UNCHANGED <<camVars, inferring, scene, rowVars, taskVars, history>>

\* The inference loop takes the camera's newest frame off its queue.
TakeFrame ==
    /\ yolo /\ ~inferring.busy
    /\ inferring' = [busy |-> TRUE, event |-> active]
    /\ UNCHANGED <<camVars, yolo, scene, rowVars, taskVars, history>>

\* What the detector makes of the scene: anything, or an object at rest it is sure of.
Finds(found, sure) == scene = "parked" => sure # {}

ConfirmedBy_LastFrame(sure) == sure # {}
ConfirmedBy(sure) == confirmed \/ sure # {}

\* An object holds the event open only while the scene is moving.
AbsenceAfter_AnyObject(sure) == IF sure # {} THEN 0 ELSE UpTo(absence, AbsenceFrames)
AbsenceAfter(sure) ==
    IF sure # {} /\ quiet < WindowSecs THEN 0 ELSE UpTo(absence, AbsenceFrames)

\* Boxes reach the accumulator: they go to whatever event is open by now.
Accumulate(found, sure) ==
    /\ buffer' = buffer \cup found
    /\ sighted' = [sighted EXCEPT ![active] = @ \cup found]
    /\ confirmed' = ConfirmedBy(sure)
    /\ absence' = AbsenceAfter(sure)
    /\ IF sure = {} THEN UNCHANGED <<lastDominant, labelling>>
       ELSE \E label \in sure:
              /\ lastDominant' = label
              /\ labelling' = IF label = lastDominant THEN labelling
                              ELSE labelling \cup {<<active, label>>}

Detect ==
    /\ inferring.busy
    /\ inferring' = [busy |-> FALSE, event |-> NoEvent]
    /\ \E found \in SUBSET Labels: \E sure \in SUBSET found:
          /\ Finds(found, sure)
          /\ IF found # {} /\ active # NoEvent
             THEN Accumulate(found, sure)
             ELSE UNCHANGED <<buffer, sighted, confirmed, absence, lastDominant, labelling>>
    /\ UNCHANGED <<active, motionPeak, streak, still, age, quiet, yolo, scene, rowVars,
                   inserting, peaking, closing, brief, carried, issued, seen, astray, boots>>

KeepAlive ==
    /\ KeepAlives /\ active # NoEvent
    /\ quiet' = 0
    /\ UNCHANGED <<active, motionPeak, streak, still, age, confirmed, absence, buffer,
                   lastDominant, yolo, inferring, scene, rowVars, taskVars, history>>

SecondPasses ==
    /\ active # NoEvent
    /\ age' = UpTo(age, AgeCap) /\ quiet' = UpTo(quiet, WindowSecs)
    /\ <<age', quiet'>> # <<age, quiet>>
    /\ UNCHANGED <<active, motionPeak, streak, still, confirmed, absence, buffer,
                   lastDominant, yolo, inferring, scene, rowVars, taskVars, history>>

SceneChanges ==
    /\ scene' \in Scenes \ {scene}
    /\ UNCHANGED <<camVars, yolo, inferring, rowVars, taskVars, history>>

-----------------------------------------------------------------------------
(* The spawned tasks, one statement at a time.  A failed statement is      *)
(* swallowed (.ok(), let _ =) and the task goes on; only a failed SELECT   *)
(* is told apart, and it reads as "no row".                                *)

Statement(effect, idle) == effect \/ (Faults /\ idle)

\* A statement that closes the event's row: a failure leaves the row as it is.
Closing(e, effect, idle) ==
    Statement(effect /\ UNCHANGED astray, idle /\ astray' = astray \cup {e})

\* The stages of a closing task that still has to end or delete the row.
Unsettled == {"drop", "read", "discard", "end"}

\* Somebody will still settle the event's row.
InHand(e) == active = e \/ closing[e] \in Unsettled

\* A task ends and drops what it carried.
TaskDone(e) ==
    /\ closing' = [closing EXCEPT ![e] = "none"]
    /\ brief' = [brief EXCEPT ![e] = FALSE]
    /\ carried' = [carried EXCEPT ![e] = {}]

InsertRow(e) ==
    /\ e \in inserting
    /\ inserting' = inserting \ {e}
    /\ Statement(/\ row' = [row EXCEPT ![e] = "open"]
                 /\ astray' = IF InHand(e) THEN astray ELSE astray \cup {e},
                 UNCHANGED <<row, astray>>)
    /\ UNCHANGED <<camVars, yolo, inferring, scene, peak, dominant, stored, grouped,
                   peaking, labelling, closing, brief, carried, issued, seen, sighted, boots>>

WritePeak(e, p) ==
    /\ <<e, p>> \in peaking
    /\ peaking' = peaking \ {<<e, p>>}
    /\ Statement(peak' = IF Exists(e) THEN [peak EXCEPT ![e] = p] ELSE peak, UNCHANGED peak)
    /\ UNCHANGED <<camVars, yolo, inferring, scene, row, dominant, stored, grouped,
                   inserting, labelling, closing, brief, carried, history>>

WriteLabel(e, label) ==
    /\ <<e, label>> \in labelling
    /\ labelling' = labelling \ {<<e, label>>}
    /\ Statement(dominant' = IF Exists(e) THEN [dominant EXCEPT ![e] = label] ELSE dominant,
                 UNCHANGED dominant)
    /\ UNCHANGED <<camVars, yolo, inferring, scene, row, peak, stored, grouped,
                   inserting, peaking, closing, brief, carried, history>>

\* DELETE, of an unconfirmed event or of one that was too short.
DeleteRow(e) ==
    /\ closing[e] \in {"drop", "discard"}
    /\ TaskDone(e)
    /\ Closing(e, row' = IF Exists(e) THEN [row EXCEPT ![e] = "deleted"] ELSE row,
                  UNCHANGED row)
    /\ UNCHANGED <<camVars, yolo, inferring, scene, peak, dominant, stored, grouped,
                   inserting, peaking, labelling, issued, seen, sighted, boots>>

\* SELECT the duration; no row, and a row that could not be read, count as 0 s.
AfterRead_BriefKept(e) == IF brief[e] THEN "none" ELSE "end"
AfterRead(e) == IF ~Exists(e) \/ brief[e] THEN "discard" ELSE "end"

ReadDuration(e) ==
    /\ closing[e] = "read"
    /\ Statement(closing' = [closing EXCEPT ![e] = AfterRead(e)],
                 closing' = [closing EXCEPT ![e] = "discard"])
    /\ UNCHANGED <<camVars, yolo, inferring, scene, rowVars,
                   inserting, peaking, labelling, brief, carried, history>>

\* The detections are written if there are any, then the event is grouped.
AfterEnd_GroupFirst(e) == "group"
AfterEnd_ReturnsEarly(e) == IF carried[e] = {} THEN "none" ELSE "flush"
AfterEnd(e) == IF carried[e] = {} THEN "group" ELSE "flush"

EndRow(e) ==
    /\ closing[e] = "end"
    /\ closing' = [closing EXCEPT ![e] = AfterEnd(e)]
    /\ Closing(e, row' = IF Exists(e) THEN [row EXCEPT ![e] = "ended"] ELSE row,
                  UNCHANGED row)
    /\ UNCHANGED <<camVars, yolo, inferring, scene, peak, dominant, stored, grouped,
                   inserting, peaking, labelling, brief, carried, issued, seen, sighted, boots>>

FlushDetections(e) ==
    /\ closing[e] = "flush"
    /\ closing' = [closing EXCEPT ![e] = "group"]
    /\ Closing(e, stored' = IF Exists(e) THEN [stored EXCEPT ![e] = carried[e]] ELSE stored,
                  UNCHANGED stored)
    /\ UNCHANGED <<camVars, yolo, inferring, scene, row, peak, dominant, grouped,
                   inserting, peaking, labelling, brief, carried, issued, seen, sighted, boots>>

GroupEvent(e) ==
    /\ closing[e] = "group"
    /\ TaskDone(e)
    /\ Statement(grouped' = IF Exists(e) THEN grouped \cup {e} ELSE grouped,
                 UNCHANGED grouped)
    /\ UNCHANGED <<camVars, yolo, inferring, scene, row, peak, dominant, stored,
                   inserting, peaking, labelling, history>>

Task(e) ==
    \/ InsertRow(e)
    \/ \E p \in Scores: WritePeak(e, p)
    \/ \E label \in Labels: WriteLabel(e, label)
    \/ DeleteRow(e) \/ ReadDuration(e) \/ EndRow(e) \/ FlushDetections(e) \/ GroupEvent(e)

\* The process dies, taking its memory and its tasks with it; the next one
\* reaps the open rows in init_db, before it does anything else.
Restart ==
    /\ boots < MaxBoots /\ boots' = boots + 1
    /\ active' = NoEvent /\ motionPeak' = 0 /\ streak' = 0 /\ still' = 0
    /\ age' = 0 /\ quiet' = WindowSecs /\ confirmed' = FALSE /\ absence' = 0
    /\ buffer' = {} /\ lastDominant' = NoLabel
    /\ yolo' = FALSE /\ inferring' = [busy |-> FALSE, event |-> NoEvent]
    /\ inserting' = {} /\ peaking' = {} /\ labelling' = {}
    /\ closing' = [e \in Events |-> "none"]
    /\ brief' = [e \in Events |-> FALSE] /\ carried' = [e \in Events |-> {}]
    /\ Statement(/\ row' = [e \in Events |-> IF row[e] = "open" THEN "ended" ELSE row[e]]
                 /\ UNCHANGED astray,
                 UNCHANGED row /\ astray' = astray \cup {e \in Events: row[e] = "open"})
    /\ UNCHANGED <<scene, peak, dominant, stored, grouped, issued, seen, sighted>>

Next ==
    \/ Frame
    \/ DetectorReady \/ TakeFrame \/ Detect
    \/ KeepAlive \/ SecondPasses \/ SceneChanges
    \/ \E e \in Events: Task(e)
    \/ Restart

Spec == Init /\ [][Next]_vars

\* Frames keep coming, the detector keeps up, spawned tasks run, clocks run.
\* The scene, the frontend, the model's loading and restarts are not fair.
Fairness ==
    /\ WF_vars(Frame) /\ WF_vars(TakeFrame) /\ WF_vars(Detect) /\ WF_vars(SecondPasses)
    /\ \A e \in Events:
          /\ WF_vars(InsertRow(e))
          /\ WF_vars(DeleteRow(e)) /\ WF_vars(ReadDuration(e)) /\ WF_vars(EndRow(e))
          /\ WF_vars(FlushDetections(e)) /\ WF_vars(GroupEvent(e))

FairSpec == Spec /\ Fairness

-----------------------------------------------------------------------------
(* Properties. *)

\* While an event is live nothing finalises its row: no closing task works on
\* it and it is at most open.
LiveRowUntouched ==
    active # NoEvent => row[active] \in {"absent", "open"} /\ closing[active] = "none"

\* A row marked in progress (ended_at NULL) belongs to the live event, or the
\* task that will settle it is under way (db.rs: ended_at NULL means in progress),
\* whatever frames, tasks and restarts interleave.  The ways out are an INSERT
\* that lands after its event's closing task is gone, and a statement of that
\* task, or the startup reap, that fails.
OpenRowsInProgress == \A e \in Events \ astray: row[e] = "open" => InHand(e)

\* peak_score is the score of one of the event's own frames, whatever order
\* the peak updates land in.
PeakIsOwn == \A e \in Events: Exists(e) => peak[e] \in seen[e]

\* A closed event reaches its review segment with exactly the labels detected
\* while it was open, and its dominant label is one of them, however late its
\* tasks run, unless a statement of its closing task failed.
GroupedRowsComplete ==
    \A e \in grouped \ astray:
        /\ row[e] = "ended" /\ stored[e] = sighted[e]
        /\ dominant[e] \in sighted[e] \cup {NoLabel}

\* An event in which the detector was sure of an object is never dropped as
\* unconfirmed.  (last_dominant is set by the first sure label.)
ConfirmedNeverDropped ==
    [][\A e \in Events: closing[e] = "none" /\ closing'[e] = "drop"
                            => lastDominant = NoLabel]_vars

Log == INSTANCE EventLog WITH live <- active, log <- row

\* Readers of motion_events see the log EventLog describes.
ImplementsEventLog == Log!Spec

Settled == active = NoEvent /\ \A e \in Events \ astray: row[e] # "open"

\* An object at rest stops holding its event open: once it is all there is to
\* see, the event closes and its row is settled, cap or no cap (a row inserted
\* after its closing task was gone stays open until the next start).
ParkedSceneSettles == <>[](scene = "parked") => <>[]Settled

\* A kept event is grouped into a review segment, unless the process dies first.
KeptEventsGrouped ==
    \A e \in Events:
        (closing[e] = "read" /\ row[e] = "open" /\ ~brief[e] /\ boots = MaxBoots)
            ~> (e \in grouped)
=============================================================================
