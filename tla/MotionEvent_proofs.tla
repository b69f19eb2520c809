------------------------- MODULE MotionEvent_proofs -------------------------
(***************************************************************************)
(* Proofs about MotionEvent, for every value of its constants: faults,     *)
(* late inserts, restarts and any number of events and labels included.    *)
(***************************************************************************)
EXTENDS MotionEvent, TLAPS

-----------------------------------------------------------------------------
(* Type correctness. *)

USE EventAssumption, ScoreAssumption, CountAssumption, ChoiceAssumption

\* A saturating count stays within its bound.
LEMMA UpToBounded ==
    ASSUME NEW bound \in Nat, NEW n \in 0..bound
    PROVE  UpTo(n, bound) \in 0..bound
  BY DEF UpTo

\* The two frame counters stay within the thresholds step compares them with.
LEMMA HysteresisType ==
    ASSUME TypeOK, NEW score \in Scores, Hysteresis(score)
    PROVE  streak' \in 0..MinFrames /\ still' \in 0..StillFrames
  <1>1. StreakAfter(score) \in 0..MinFrames
    BY UpToBounded DEF StreakAfter, TypeOK
  <1>2. StillAfter(score) \in 0..StillFrames
    BY UpToBounded DEF StillAfter, TypeOK
  <1> QED
    BY <1>1, <1>2 DEF Hysteresis

\* The values a fresh camera starts from are within their bounds.
LEMMA FreshBounds ==
    /\ 0 \in Scores /\ 0 \in 0..MinFrames /\ 0 \in 0..StillFrames
    /\ 0 \in 0..AgeCap /\ 0 \in 0..WindowSecs /\ WindowSecs \in 0..WindowSecs
    /\ 0 \in 0..AbsenceFrames /\ 0 \in 0..MaxBoots
  <1>1. AgeCap \in Nat
    BY DEF AgeCap
  <1> QED
    BY <1>1 DEF Scores

\* What a scene scores is a score.
LEMMA FrameScoresAreScores == FrameScores \subseteq Scores
  BY DEF FrameScores, Scores

\* Every step of the lifecycle preserves the types.
LEMMA TypeInductive == TypeOK /\ [Next]_vars => TypeOK'
  <1> SUFFICES ASSUME TypeOK, [Next]_vars PROVE TypeOK'
    OBVIOUS
  <1> USE DEF camVars, rowVars, taskVars, history, vars
  <1>1. ASSUME NEW score \in FrameScores, NEW e \in Events, OpenEvent(score, e)
        PROVE  TypeOK'
    <2>1. score \in Scores /\ PeakAfter(score) \in Scores
      BY FrameScoresAreScores DEF PeakAfter, TypeOK
    <2>2. streak' \in 0..MinFrames /\ still' \in 0..StillFrames
      BY <1>1, <2>1, HysteresisType DEF OpenEvent
    <2>3. /\ issued' \subseteq Events /\ inserting' \subseteq Events
          /\ peak' \in [Events -> Scores] /\ seen' \in [Events -> SUBSET Scores]
      BY <1>1, <2>1 DEF OpenEvent, TypeOK
    <2> QED
      BY <1>1, <2>1, <2>2, <2>3, FreshBounds DEF OpenEvent, TypeOK
  <1>2. ASSUME NEW score \in FrameScores, SustainEvent(score)
        PROVE  TypeOK'
    <2>1. score \in Scores /\ PeakAfter(score) \in Scores
      BY FrameScoresAreScores DEF PeakAfter, TypeOK
    <2>2. streak' \in 0..MinFrames /\ still' \in 0..StillFrames
      BY <1>2, <2>1, HysteresisType DEF SustainEvent
    <2>3. active \in Events /\ 0 \in 0..WindowSecs
      BY <1>2 DEF SustainEvent, Sustains, TypeOK
    <2> QED
      BY <1>2, <2>1, <2>2, <2>3 DEF SustainEvent, TypeOK
  <1>3. ASSUME NEW score \in FrameScores, NEW require \in RequireObject,
               CloseEvent(score, require)
        PROVE  TypeOK'
    <2>1. streak' \in 0..MinFrames /\ still' \in 0..StillFrames
      BY <1>3, FrameScoresAreScores, HysteresisType DEF CloseEvent
    <2>2. /\ active' = NoEvent /\ motionPeak' \in Scores
          /\ age' \in 0..AgeCap /\ quiet' \in 0..WindowSecs /\ absence' \in 0..AbsenceFrames
          /\ confirmed' \in BOOLEAN /\ buffer' \subseteq Labels
      BY <1>3, FreshBounds DEF CloseEvent, TakeActive, ForgetEvent
    <2>3. closing' \in [Events -> Stages] /\ brief' \in [Events -> BOOLEAN]
      BY <1>3 DEF CloseEvent, Fate, Stages, TypeOK
    <2>4. carried' \in [Events -> SUBSET Labels]
      BY <1>3 DEF CloseEvent, TypeOK
    <2> QED
      BY <1>3, <2>1, <2>2, <2>3, <2>4 DEF CloseEvent, TypeOK
  <1>4. ASSUME NEW score \in FrameScores, IdleFrame(score)
        PROVE  TypeOK'
    BY <1>4, FrameScoresAreScores, HysteresisType DEF IdleFrame, TypeOK
  <1>5. CASE DetectorReady
    BY <1>5 DEF DetectorReady, TypeOK
  <1>6. CASE TakeFrame
    BY <1>6 DEF TakeFrame, TypeOK
  <1>7. CASE Detect
    <2>1. inferring' \in [busy : BOOLEAN, event : Events \cup {NoEvent}]
      BY <1>7 DEF Detect
    <2>2. PICK found \in SUBSET Labels: \E sure \in SUBSET found:
              IF found # {} /\ active # NoEvent
              THEN Accumulate(found, sure)
              ELSE UNCHANGED <<buffer, sighted, confirmed, absence, lastDominant, labelling>>
      BY <1>7 DEF Detect
    <2>a. PICK sure \in SUBSET found:
              IF found # {} /\ active # NoEvent
              THEN Accumulate(found, sure)
              ELSE UNCHANGED <<buffer, sighted, confirmed, absence, lastDominant, labelling>>
      BY <2>2
    <2>3. CASE found # {} /\ active # NoEvent
      <3>1. Accumulate(found, sure) /\ active \in Events
        BY <2>a, <2>3 DEF TypeOK
      <3>2. absence' \in 0..AbsenceFrames /\ confirmed' \in BOOLEAN
        BY <3>1, UpToBounded DEF Accumulate, AbsenceAfter, ConfirmedBy, TypeOK
      <3>3. buffer' \subseteq Labels /\ sighted' \in [Events -> SUBSET Labels]
        BY <3>1 DEF Accumulate, TypeOK
      <3>4. lastDominant' \in Labels \cup {NoLabel} /\ labelling' \subseteq Events \X Labels
        BY <3>1 DEF Accumulate, TypeOK
      <3> QED
        BY <1>7, <2>1, <3>2, <3>3, <3>4 DEF Detect, TypeOK
    <2>4. CASE ~(found # {} /\ active # NoEvent)
      BY <1>7, <2>1, <2>a, <2>4 DEF Detect, TypeOK
    <2> QED
      BY <2>3, <2>4
  <1>8. CASE KeepAlive
    BY <1>8 DEF KeepAlive, TypeOK
  <1>9. CASE SecondPasses
    <2>1. AgeCap \in Nat /\ WindowSecs \in Nat
      BY DEF AgeCap
    <2>2. age' \in 0..AgeCap /\ quiet' \in 0..WindowSecs
      BY <1>9, <2>1, UpToBounded DEF SecondPasses, TypeOK
    <2> QED
      BY <1>9, <2>2 DEF SecondPasses, TypeOK
  <1>10. CASE SceneChanges
    BY <1>10 DEF SceneChanges, TypeOK
  <1>11. ASSUME NEW e \in Events, Task(e)
         PROVE  TypeOK'
    <2>1. CASE InsertRow(e)
      BY <2>1 DEF InsertRow, Statement, TypeOK
    <2>2. ASSUME NEW p \in Scores, WritePeak(e, p) PROVE TypeOK'
      BY <2>2 DEF WritePeak, Statement, TypeOK
    <2>3. ASSUME NEW label \in Labels, WriteLabel(e, label) PROVE TypeOK'
      BY <2>3 DEF WriteLabel, Statement, TypeOK
    <2>4. CASE DeleteRow(e)
      BY <2>4 DEF DeleteRow, TaskDone, Closing, Statement, Stages, TypeOK
    <2>5. CASE ReadDuration(e)
      BY <2>5 DEF ReadDuration, AfterRead, Statement, Stages, TypeOK
    <2>6. CASE EndRow(e)
      BY <2>6 DEF EndRow, AfterEnd, Closing, Statement, Stages, TypeOK
    <2>7. CASE FlushDetections(e)
      BY <2>7 DEF FlushDetections, Closing, Statement, Stages, TypeOK
    <2>8. CASE GroupEvent(e)
      BY <2>8 DEF GroupEvent, TaskDone, Statement, Stages, TypeOK
    <2> QED
      BY <1>11, <2>1, <2>2, <2>3, <2>4, <2>5, <2>6, <2>7, <2>8 DEF Task
  <1>12. CASE Restart
    <2>1. row' \in [Events -> {"absent", "open", "ended", "deleted"}] /\ astray' \subseteq Events
      BY <1>12 DEF Restart, Statement, TypeOK
    <2>2. boots' \in 0..MaxBoots
      BY <1>12 DEF Restart, TypeOK
    <2>3. /\ closing' \in [Events -> Stages] /\ brief' \in [Events -> BOOLEAN]
          /\ carried' \in [Events -> SUBSET Labels]
      BY <1>12 DEF Restart, Stages
    <2> QED
      BY <1>12, <2>1, <2>2, <2>3, FreshBounds DEF Restart, TypeOK
  <1>13. CASE UNCHANGED vars
    BY <1>13 DEF TypeOK
  <1> QED
    BY <1>1, <1>2, <1>3, <1>4, <1>5, <1>6, <1>7, <1>8, <1>9, <1>10, <1>11, <1>12, <1>13
       DEF Next, Frame

\* The state the process starts from is well typed.
LEMMA InitTyped == Init => TypeOK
  <1> SUFFICES ASSUME Init PROVE TypeOK
    OBVIOUS
  <1>1. /\ row \in [Events -> {"absent", "open", "ended", "deleted"}]
        /\ peak \in [Events -> Scores] /\ dominant \in [Events -> Labels \cup {NoLabel}]
        /\ stored \in [Events -> SUBSET Labels]
    BY FreshBounds DEF Init
  <1>2. /\ closing \in [Events -> Stages] /\ brief \in [Events -> BOOLEAN]
        /\ carried \in [Events -> SUBSET Labels]
    BY DEF Init, Stages
  <1>3. seen \in [Events -> SUBSET Scores] /\ sighted \in [Events -> SUBSET Labels]
    BY DEF Init
  <1> QED
    BY <1>1, <1>2, <1>3, FreshBounds DEF Init, FreshCamera, TypeOK

\* Every variable keeps its type, and every count its bound, however frames,
\* detections, tasks, failures and restarts interleave.
THEOREM TypeCorrect == Spec => []TypeOK
  BY InitTyped, TypeInductive, PTL DEF Spec

-----------------------------------------------------------------------------
(* The live event and its row. *)

\* Whatever is known by an id had that id handed out first.
IdsIssued ==
    /\ active \in issued \cup {NoEvent}
    /\ inserting \subseteq issued
    /\ \A e \in Events: row[e] # "absent" \/ closing[e] # "none" => e \in issued
    /\ \A e \in Events, p \in Scores: <<e, p>> \in peaking => e \in issued

\* A row still to be inserted is absent, and a closing task that has yet to
\* end or delete its row has not found it ended.
RowsFollowTasks ==
    \A e \in Events:
        /\ e \in inserting => row[e] = "absent"
        /\ closing[e] \in {"drop", "read", "discard", "end"} => row[e] \in {"absent", "open"}

RowInv == TypeOK /\ IdsIssued /\ RowsFollowTasks /\ LiveRowUntouched

\* Every step preserves RowInv: OpenEvent because its id is fresh, the closing
\* tasks because their event is not the live one.
LEMMA RowInvInductive == RowInv /\ [Next]_vars => RowInv'
  <1> SUFFICES ASSUME RowInv, [Next]_vars
               PROVE  IdsIssued' /\ RowsFollowTasks' /\ LiveRowUntouched'
    BY TypeInductive DEF RowInv
  <1> USE DEF RowInv, camVars, rowVars, taskVars, history, vars
  <1>1. ASSUME NEW score \in FrameScores, NEW e \in Events, OpenEvent(score, e)
        PROVE  IdsIssued' /\ RowsFollowTasks' /\ LiveRowUntouched'
    <2>1. row[e] = "absent" /\ closing[e] = "none"
      BY <1>1 DEF OpenEvent, FreshId, IdsIssued
    <2> QED
      BY <1>1, <2>1 DEF OpenEvent, IdsIssued, RowsFollowTasks, LiveRowUntouched
  <1>2. ASSUME NEW score \in FrameScores, SustainEvent(score)
        PROVE  IdsIssued' /\ RowsFollowTasks' /\ LiveRowUntouched'
    BY <1>2 DEF SustainEvent, Sustains, IdsIssued, RowsFollowTasks, LiveRowUntouched
  <1>3. ASSUME NEW score \in FrameScores, NEW require \in RequireObject,
               CloseEvent(score, require)
        PROVE  IdsIssued' /\ RowsFollowTasks' /\ LiveRowUntouched'
    <2>1. active \in issued /\ row[active] \in {"absent", "open"}
      BY <1>3 DEF CloseEvent, IdsIssued, LiveRowUntouched
    <2>2. closing' = [closing EXCEPT ![active] = Fate(require)] /\ active' = NoEvent
      BY <1>3 DEF CloseEvent, TakeActive
    <2>3. UNCHANGED <<row, inserting, peaking, issued>>
      BY <1>3 DEF CloseEvent
    <2> QED
      BY <2>1, <2>2, <2>3 DEF TypeOK, IdsIssued, RowsFollowTasks, LiveRowUntouched
  <1>4. ASSUME NEW score \in FrameScores, IdleFrame(score)
        PROVE  IdsIssued' /\ RowsFollowTasks' /\ LiveRowUntouched'
    BY <1>4 DEF IdleFrame, IdsIssued, RowsFollowTasks, LiveRowUntouched
  <1>5. CASE DetectorReady \/ TakeFrame \/ Detect \/ KeepAlive \/ SecondPasses
             \/ SceneChanges \/ UNCHANGED vars
    BY <1>5 DEF DetectorReady, TakeFrame, Detect, KeepAlive, SecondPasses, SceneChanges,
                IdsIssued, RowsFollowTasks, LiveRowUntouched
  <1>6. ASSUME NEW e \in Events, Task(e)
        PROVE  IdsIssued' /\ RowsFollowTasks' /\ LiveRowUntouched'
    <2>1. CASE InsertRow(e)
      <3>1. e \in issued /\ row[e] = "absent"
        BY <2>1 DEF InsertRow, IdsIssued, RowsFollowTasks
      <3> QED
        BY <2>1, <3>1 DEF InsertRow, Statement, TypeOK, IdsIssued, RowsFollowTasks,
                          LiveRowUntouched
    <2>2. ASSUME NEW p \in Scores, WritePeak(e, p)
          PROVE  IdsIssued' /\ RowsFollowTasks' /\ LiveRowUntouched'
      BY <2>2 DEF WritePeak, IdsIssued, RowsFollowTasks, LiveRowUntouched
    <2>3. ASSUME NEW label \in Labels, WriteLabel(e, label)
          PROVE  IdsIssued' /\ RowsFollowTasks' /\ LiveRowUntouched'
      BY <2>3 DEF WriteLabel, IdsIssued, RowsFollowTasks, LiveRowUntouched
    <2>4. CASE DeleteRow(e)
      <3>1. closing' = [closing EXCEPT ![e] = "none"]
        BY <2>4 DEF DeleteRow, TaskDone
      <3>2. row' = row \/ (Exists(e) /\ row' = [row EXCEPT ![e] = "deleted"])
        BY <2>4 DEF DeleteRow, Closing, Statement
      <3>3. active # e /\ e \in issued
        BY <2>4 DEF DeleteRow, LiveRowUntouched, IdsIssued
      <3>4. UNCHANGED <<active, inserting, peaking, issued>>
        BY <2>4 DEF DeleteRow
      <3> QED
        BY <3>1, <3>2, <3>3, <3>4
           DEF Exists, TypeOK, IdsIssued, RowsFollowTasks, LiveRowUntouched
    <2>5. CASE ReadDuration(e)
      <3>1. closing' = [closing EXCEPT ![e] = "discard"] \/ closing' = [closing EXCEPT ![e] = "end"]
        BY <2>5 DEF ReadDuration, AfterRead, Statement
      <3> QED
        BY <2>5, <3>1 DEF ReadDuration, TypeOK, IdsIssued, RowsFollowTasks, LiveRowUntouched
    <2>6. CASE EndRow(e)
      <3>1. closing' = [closing EXCEPT ![e] = "group"] \/ closing' = [closing EXCEPT ![e] = "flush"]
        BY <2>6 DEF EndRow, AfterEnd
      <3>2. row' = row \/ (Exists(e) /\ row' = [row EXCEPT ![e] = "ended"])
        BY <2>6 DEF EndRow, Closing, Statement
      <3> QED
        BY <2>6, <3>1, <3>2
           DEF EndRow, Exists, TypeOK, IdsIssued, RowsFollowTasks, LiveRowUntouched
    <2>7. CASE FlushDetections(e) \/ GroupEvent(e)
      BY <2>7 DEF FlushDetections, GroupEvent, TaskDone, TypeOK, IdsIssued, RowsFollowTasks,
                  LiveRowUntouched
    <2> QED
      BY <1>6, <2>1, <2>2, <2>3, <2>4, <2>5, <2>6, <2>7 DEF Task
  <1>7. CASE Restart
    BY <1>7 DEF Restart, Statement, TypeOK, IdsIssued, RowsFollowTasks, LiveRowUntouched
  <1> QED
    BY <1>1, <1>2, <1>3, <1>4, <1>5, <1>6, <1>7 DEF Next, Frame

LEMMA RowInvInvariant == Spec => []RowInv
  <1>1. Init => RowInv
    <2> SUFFICES ASSUME Init PROVE RowInv
      OBVIOUS
    <2>1. TypeOK
      BY InitTyped
    <2> QED
      BY <2>1 DEF Init, FreshCamera, RowInv, IdsIssued, RowsFollowTasks, LiveRowUntouched
  <1> QED
    BY <1>1, RowInvInductive, PTL DEF Spec

\* No closing task, late or failed, ever works on the live event's row.
THEOREM LiveRowSafe == Spec => []LiveRowUntouched
  <1>1. RowInv => LiveRowUntouched
    BY DEF RowInv
  <1> QED
    BY <1>1, RowInvInvariant, PTL

-----------------------------------------------------------------------------
(* The log the readers of motion_events see. *)

\* Every step of the lifecycle is a step of the abstract log, or leaves it alone.
LEMMA StepRefines == RowInv /\ [Next]_vars => [Log!Next]_(Log!vars)
  <1> SUFFICES ASSUME RowInv, [Next]_vars PROVE [Log!Next]_(Log!vars)
    OBVIOUS
  <1> USE DEF RowInv, camVars, rowVars, taskVars, history, vars, Log!vars
  <1>1. ASSUME NEW score \in FrameScores, NEW e \in Events, OpenEvent(score, e)
        PROVE  Log!Begin(e)
    BY <1>1 DEF OpenEvent, FreshId, IdsIssued, Log!Begin
  <1>2. ASSUME NEW score \in FrameScores, NEW require \in RequireObject,
               CloseEvent(score, require)
        PROVE  Log!Finish
    BY <1>2 DEF CloseEvent, TakeActive, Log!Finish
  <1>3. ASSUME NEW score \in FrameScores, SustainEvent(score) \/ IdleFrame(score)
        PROVE  UNCHANGED Log!vars
    BY <1>3 DEF SustainEvent, IdleFrame
  <1>4. CASE DetectorReady \/ TakeFrame \/ Detect \/ KeepAlive \/ SecondPasses
             \/ SceneChanges \/ UNCHANGED vars
    BY <1>4 DEF DetectorReady, TakeFrame, Detect, KeepAlive, SecondPasses, SceneChanges
  <1>5. ASSUME NEW e \in Events, Task(e)
        PROVE  Log!Record(e) \/ Log!Settle(e) \/ UNCHANGED Log!vars
    <2>1. CASE InsertRow(e)
      BY <2>1 DEF InsertRow, Statement, RowsFollowTasks, Log!Record
    <2>2. CASE DeleteRow(e)
      <3>1. active # e /\ row[e] \in {"absent", "open"}
        BY <2>2 DEF DeleteRow, LiveRowUntouched, RowsFollowTasks
      <3>2. row' = row \/ (Exists(e) /\ row' = [row EXCEPT ![e] = "deleted"])
        BY <2>2 DEF DeleteRow, Closing, Statement
      <3> QED
        BY <2>2, <3>1, <3>2 DEF DeleteRow, Exists, Log!Settle
    <2>3. CASE EndRow(e)
      <3>1. active # e /\ row[e] \in {"absent", "open"}
        BY <2>3 DEF EndRow, LiveRowUntouched, RowsFollowTasks
      <3>2. row' = row \/ (Exists(e) /\ row' = [row EXCEPT ![e] = "ended"])
        BY <2>3 DEF EndRow, Closing, Statement
      <3> QED
        BY <2>3, <3>1, <3>2 DEF EndRow, Exists, Log!Settle
    <2>4. CASE \/ \E p \in Scores: WritePeak(e, p)
               \/ \E label \in Labels: WriteLabel(e, label)
               \/ ReadDuration(e) \/ FlushDetections(e) \/ GroupEvent(e)
      BY <2>4 DEF WritePeak, WriteLabel, ReadDuration, FlushDetections, GroupEvent
    <2> QED
      BY <1>5, <2>1, <2>2, <2>3, <2>4 DEF Task
  <1>6. CASE Restart
    <2>1. \/ row' = row
          \/ row' = [e \in Events |-> IF row[e] = "open" THEN "ended" ELSE row[e]]
      BY <1>6 DEF Restart, Statement
    <2>2. active' = NoEvent
      BY <1>6 DEF Restart
    <2>3. Log!Reap
      BY <2>1, <2>2 DEF Log!Reap
    <2> QED
      BY <2>3 DEF Log!Next
  <1> QED
    BY <1>1, <1>2, <1>3, <1>4, <1>5, <1>6 DEF Next, Frame, Log!Next

\* MotionEvent implements EventLog: one live event at a time, rows that stay
\* open while theirs is live and never come back once ended or removed.
THEOREM LogImplemented == Spec => ImplementsEventLog
  <1>1. Init => Log!Init
    BY DEF Init, FreshCamera, Log!Init
  <1> QED
    BY <1>1, StepRefines, RowInvInvariant, PTL DEF Spec, ImplementsEventLog, Log!Spec

-----------------------------------------------------------------------------
(* Confirmation. *)

\* While an event is live, last_dominant is set exactly when it is confirmed:
\* the two are written together by the detector and cleared together on opening.
ConfirmedHasDominant == active # NoEvent => (confirmed <=> lastDominant # NoLabel)

ConfirmInv == TypeOK /\ ConfirmedHasDominant

\* Every step preserves ConfirmedHasDominant.
LEMMA ConfirmInductive == ConfirmInv /\ [Next]_vars => ConfirmInv'
  <1> SUFFICES ASSUME ConfirmInv, [Next]_vars PROVE ConfirmedHasDominant'
    BY TypeInductive DEF ConfirmInv
  <1> USE DEF ConfirmInv, ConfirmedHasDominant, camVars, vars
  <1>1. CASE Frame
    <2>1. ASSUME NEW score \in FrameScores, NEW e \in Events, OpenEvent(score, e)
          PROVE  ConfirmedHasDominant'
      BY <2>1 DEF OpenEvent
    <2>2. ASSUME NEW score \in FrameScores, NEW require \in RequireObject,
                 CloseEvent(score, require)
          PROVE  ConfirmedHasDominant'
      BY <2>2 DEF CloseEvent, TakeActive
    <2>3. ASSUME NEW score \in FrameScores, SustainEvent(score) \/ IdleFrame(score)
          PROVE  ConfirmedHasDominant'
      BY <2>3 DEF SustainEvent, IdleFrame
    <2> QED
      BY <1>1, <2>1, <2>2, <2>3 DEF Frame
  <1>2. CASE Detect
    <2>1. ASSUME NEW found \in SUBSET Labels, NEW sure \in SUBSET found,
                 active # NoEvent, Accumulate(found, sure), UNCHANGED active
          PROVE  ConfirmedHasDominant'
      <3>1. confirmed \in BOOLEAN
        BY DEF TypeOK
      <3>2. confirmed' = (confirmed \/ sure # {})
        BY <2>1 DEF Accumulate, ConfirmedBy
      <3>3. CASE sure = {}
        BY <2>1, <3>1, <3>2, <3>3 DEF Accumulate
      <3>4. CASE sure # {}
        <4>1. PICK label \in sure : lastDominant' = label
          BY <2>1, <3>4 DEF Accumulate
        <4>2. lastDominant' # NoLabel
          BY <4>1, EventAssumption
        <4> QED
          BY <3>2, <3>4, <4>2
      <3> QED
        BY <3>3, <3>4
    <2> QED
      BY <1>2, <2>1 DEF Detect
  <1>3. CASE DetectorReady \/ TakeFrame \/ KeepAlive \/ SecondPasses \/ SceneChanges
             \/ UNCHANGED vars
    BY <1>3 DEF DetectorReady, TakeFrame, KeepAlive, SecondPasses, SceneChanges
  <1>4. ASSUME NEW e \in Events, Task(e)
        PROVE  ConfirmedHasDominant'
    <2>1. UNCHANGED <<active, confirmed, lastDominant>>
      BY <1>4 DEF Task, InsertRow, WritePeak, WriteLabel, DeleteRow, ReadDuration, EndRow,
                  FlushDetections, GroupEvent
    <2> QED
      BY <2>1
  <1>5. CASE Restart
    BY <1>5 DEF Restart
  <1> QED
    BY <1>1, <1>2, <1>3, <1>4, <1>5 DEF Next

\* Only CloseEvent sets a closing task to "drop", and only of the live event.
LEMMA OnlyUnconfirmedDropped ==
    ASSUME ConfirmInv, [Next]_vars, NEW e \in Events, closing[e] = "none", closing'[e] = "drop"
    PROVE  lastDominant = NoLabel
  <1> USE DEF camVars, rowVars, taskVars, history, vars
  <1>1. ASSUME NEW score \in FrameScores, NEW require \in RequireObject,
               CloseEvent(score, require)
        PROVE  lastDominant = NoLabel
    <2>1. active \in Events /\ closing' = [closing EXCEPT ![active] = Fate(require)]
      BY <1>1 DEF CloseEvent, ConfirmInv, TypeOK
    <2>2. Fate(require) = "drop"
      BY <2>1, e = active \/ closing'[e] = closing[e] DEF ConfirmInv, TypeOK
    <2> QED
      BY <1>1, <2>2 DEF CloseEvent, Fate, ConfirmInv, ConfirmedHasDominant
  <1>2. CASE Frame
    BY <1>1, <1>2 DEF Frame, OpenEvent, SustainEvent, IdleFrame
  <1>3. CASE DetectorReady \/ TakeFrame \/ Detect \/ KeepAlive \/ SecondPasses
             \/ SceneChanges \/ UNCHANGED vars
    BY <1>3 DEF DetectorReady, TakeFrame, Detect, KeepAlive, SecondPasses, SceneChanges
  <1>4. ASSUME NEW f \in Events, Task(f)
        PROVE  FALSE
    <2>1. UNCHANGED closing \/ \E stage \in {"none", "end", "discard", "group", "flush"}:
                                  closing' = [closing EXCEPT ![f] = stage]
      BY <1>4 DEF Task, InsertRow, WritePeak, WriteLabel, DeleteRow, ReadDuration, EndRow,
                  FlushDetections, GroupEvent, TaskDone, AfterRead, AfterEnd, Statement
    <2> QED
      BY <2>1 DEF ConfirmInv, TypeOK
  <1>5. CASE Restart
    BY <1>5 DEF Restart
  <1> QED
    BY <1>2, <1>3, <1>4, <1>5 DEF Next

\* An event the detector was sure of is never dropped as unconfirmed.
THEOREM ConfirmedKept == Spec => ConfirmedNeverDropped
  <1>1. Init => ConfirmInv
    BY InitTyped DEF Init, FreshCamera, ConfirmInv, ConfirmedHasDominant
  <1>2. ConfirmInv /\ [Next]_vars =>
            [\A e \in Events: closing[e] = "none" /\ closing'[e] = "drop"
                                  => lastDominant = NoLabel]_vars
    BY OnlyUnconfirmedDropped
  <1> QED
    BY <1>1, <1>2, ConfirmInductive, PTL DEF Spec, ConfirmedNeverDropped

-----------------------------------------------------------------------------
(* Peak scores. *)

\* Every score on its way to an event's row, or there already, is one of the
\* event's own; the running peak is cleared between events.
PeaksOwn ==
    /\ \A e \in Events: Exists(e) \/ e \in inserting => peak[e] \in seen[e]
    /\ \A e \in Events, p \in Scores: <<e, p>> \in peaking => p \in seen[e]
    /\ IF active = NoEvent THEN motionPeak = 0 ELSE motionPeak \in seen[active]

PeakInv == RowInv /\ PeaksOwn

\* Every step preserves PeaksOwn.
LEMMA PeakInductive == PeakInv /\ [Next]_vars => PeakInv'
  <1> SUFFICES ASSUME PeakInv, [Next]_vars PROVE PeaksOwn'
    BY RowInvInductive DEF PeakInv
  <1> USE DEF PeakInv, RowInv, camVars, rowVars, taskVars, history, vars
  <1>1. ASSUME NEW score \in FrameScores, NEW e \in Events, OpenEvent(score, e)
        PROVE  PeaksOwn'
    <2>1. e \notin issued /\ row[e] = "absent" /\ \A p \in Scores: <<e, p>> \notin peaking
      BY <1>1 DEF OpenEvent, FreshId, IdsIssued
    <2>2. score \in Scores /\ score > 0
      BY <1>1, FrameScoresAreScores DEF OpenEvent, OpenNow, Scores
    <2>3. motionPeak' = score /\ active' = e /\ e # NoEvent
      BY <1>1, <2>2 DEF OpenEvent, PeakAfter, PeaksOwn
    <2>4. peak' = [peak EXCEPT ![e] = score] /\ seen' = [seen EXCEPT ![e] = {score}]
      BY <1>1 DEF OpenEvent
    <2>5. inserting' = inserting \cup {e} /\ UNCHANGED <<row, peaking>>
      BY <1>1 DEF OpenEvent
    <2> QED
      BY <2>1, <2>2, <2>3, <2>4, <2>5 DEF PeaksOwn, Exists, TypeOK
  <1>2. ASSUME NEW score \in FrameScores, SustainEvent(score)
        PROVE  PeaksOwn'
    <2>1. active # NoEvent /\ active \in Events /\ active' = active
      BY <1>2 DEF SustainEvent, Sustains, TypeOK
    <2>2. /\ motionPeak' \in {score, motionPeak}
          /\ peaking' = peaking \cup {<<active, motionPeak'>>}
          /\ seen' = [seen EXCEPT ![active] = @ \cup {score}]
          /\ UNCHANGED <<row, peak, inserting>>
      BY <1>2 DEF SustainEvent, PeakAfter
    <2>3. motionPeak' \in seen'[active]
      BY <2>1, <2>2 DEF PeaksOwn, TypeOK
    <2>4. \A e \in Events: seen[e] \subseteq seen'[e]
      BY <2>1, <2>2 DEF TypeOK
    <2> QED
      BY <2>1, <2>2, <2>3, <2>4 DEF PeaksOwn, Exists, TypeOK
  <1>3. ASSUME NEW score \in FrameScores, NEW require \in RequireObject,
               CloseEvent(score, require)
        PROVE  PeaksOwn'
    BY <1>3 DEF CloseEvent, TakeActive, ForgetEvent, PeaksOwn, Exists
  <1>4. ASSUME NEW score \in FrameScores, IdleFrame(score)
        PROVE  PeaksOwn'
    BY <1>4 DEF IdleFrame, PeaksOwn, Exists
  <1>5. CASE DetectorReady \/ TakeFrame \/ Detect \/ KeepAlive \/ SecondPasses
             \/ SceneChanges \/ UNCHANGED vars
    BY <1>5 DEF DetectorReady, TakeFrame, Detect, KeepAlive, SecondPasses, SceneChanges,
                PeaksOwn, Exists
  <1>6. ASSUME NEW e \in Events, Task(e)
        PROVE  PeaksOwn'
    <2>1. CASE InsertRow(e)
      BY <2>1 DEF InsertRow, Statement, PeaksOwn, Exists, TypeOK
    <2>2. ASSUME NEW p \in Scores, WritePeak(e, p)
          PROVE  PeaksOwn'
      <3>1. p \in seen[e] /\ (peak' = peak \/ peak' = [peak EXCEPT ![e] = p])
        BY <2>2 DEF WritePeak, Statement, PeaksOwn
      <3>2. \A f \in Events: peak'[f] = peak[f] \/ (f = e /\ peak'[f] = p)
        BY <3>1 DEF TypeOK
      <3>3. peaking' \subseteq peaking /\ UNCHANGED <<active, motionPeak, row, inserting, seen>>
        BY <2>2 DEF WritePeak
      <3> QED
        BY <3>1, <3>2, <3>3 DEF PeaksOwn, Exists
    <2>3. ASSUME NEW label \in Labels, WriteLabel(e, label)
          PROVE  PeaksOwn'
      BY <2>3 DEF WriteLabel, PeaksOwn, Exists
    <2>4. CASE DeleteRow(e) \/ EndRow(e)
      <3>1. \A f \in Events: Exists(f)' => Exists(f)
        BY <2>4 DEF DeleteRow, EndRow, Closing, Statement, Exists, TypeOK
      <3> QED
        BY <2>4, <3>1 DEF DeleteRow, EndRow, PeaksOwn
    <2>5. CASE ReadDuration(e) \/ FlushDetections(e) \/ GroupEvent(e)
      BY <2>5 DEF ReadDuration, FlushDetections, GroupEvent, PeaksOwn, Exists
    <2> QED
      BY <1>6, <2>1, <2>2, <2>3, <2>4, <2>5 DEF Task
  <1>7. CASE Restart
    <2>1. \A f \in Events: Exists(f)' => Exists(f)
      BY <1>7 DEF Restart, Statement, Exists, TypeOK
    <2> QED
      BY <1>7, <2>1 DEF Restart, PeaksOwn
  <1> QED
    BY <1>1, <1>2, <1>3, <1>4, <1>5, <1>6, <1>7 DEF Next, Frame

\* However the peak updates of successive events interleave, a row's
\* peak_score is a score its own event had.
THEOREM PeakOwn == Spec => []PeakIsOwn
  <1>1. Init => PeakInv
    <2> SUFFICES ASSUME Init PROVE PeakInv
      OBVIOUS
    <2>1. RowInv
      BY InitTyped DEF Init, FreshCamera, RowInv, IdsIssued, RowsFollowTasks, LiveRowUntouched
    <2> QED
      BY <2>1 DEF Init, FreshCamera, PeakInv, PeaksOwn, Exists
  <1>2. PeakInv => PeakIsOwn
    BY DEF PeakInv, PeaksOwn, PeakIsOwn
  <1> QED
    BY <1>1, <1>2, PeakInductive, PTL DEF Spec

-----------------------------------------------------------------------------
(* Settled and complete rows.  These two hold whatever fails and however    *)
(* late a task runs, but for the events history calls astray.               *)

\* A task that ends its event's row has found it; once it is past that, the row
\* is ended.
EndingFound ==
    \A e \in Events:
        /\ closing[e] \in {"end", "flush", "group"} => row[e] # "absent"
        /\ e \notin astray /\ closing[e] \in {"flush", "group"} => row[e] = "ended"

\* What was sighted travels from the buffer to the closing task to the row.
LabelsAccounted ==
    /\ active # NoEvent => buffer = sighted[active]
    /\ \A e \in Events:
          /\ e \notin issued => sighted[e] = {}
          /\ closing[e] # "none" => carried[e] = sighted[e]
          /\ dominant[e] \in sighted[e] \cup {NoLabel}
          /\ \A label \in Labels: <<e, label>> \in labelling => label \in sighted[e]
          /\ e \notin astray =>
                /\ row[e] \in {"absent", "open"} => stored[e] = {}
                /\ closing[e] = "group" => stored[e] = sighted[e]

SettledInv ==
    RowInv /\ EndingFound /\ OpenRowsInProgress /\ LabelsAccounted /\ GroupedRowsComplete

\* Every statement of a spawned task preserves SettledInv.
LEMMA SettledTask ==
    ASSUME SettledInv, NEW e \in Events, Task(e)
    PROVE  EndingFound' /\ OpenRowsInProgress' /\ LabelsAccounted' /\ GroupedRowsComplete'
  <1> DEFINE Goal == EndingFound /\ OpenRowsInProgress /\ LabelsAccounted /\ GroupedRowsComplete
  <1> USE DEF SettledInv, RowInv, InHand, Unsettled, rowVars, history, camVars
  <1>1. CASE InsertRow(e)
    <2>1. row[e] = "absent" /\ e \in issued /\ closing[e] \notin {"end", "flush", "group"}
      BY <1>1 DEF InsertRow, RowsFollowTasks, IdsIssued, EndingFound
    <2>2. \/ UNCHANGED <<row, astray>>
          \/ /\ row' = [row EXCEPT ![e] = "open"]
             /\ astray' = IF InHand(e) THEN astray ELSE astray \cup {e}
      BY <1>1 DEF InsertRow, Statement
    <2>3. UNCHANGED <<active, buffer, dominant, stored, grouped, labelling, closing, carried,
                      issued, sighted>>
      BY <1>1 DEF InsertRow
    <2>4. \A f \in Events: f # e => row'[f] = row[f] /\ (f \in astray <=> f \in astray')
      BY <2>2 DEF TypeOK
    <2>5. \/ row'[e] = "absent" /\ (e \in astray <=> e \in astray')
          \/ row'[e] = "open" /\ (e \notin astray' => InHand(e) /\ e \notin astray)
      BY <2>1, <2>2 DEF TypeOK
    <2>6. EndingFound' /\ OpenRowsInProgress'
      BY <2>1, <2>3, <2>4, <2>5 DEF EndingFound, OpenRowsInProgress
    <2>7. LabelsAccounted'
      BY <2>1, <2>3, <2>4, <2>5 DEF LabelsAccounted
    <2>8. GroupedRowsComplete'
      BY <2>1, <2>3, <2>4, <2>5 DEF GroupedRowsComplete, TypeOK
    <2> QED
      BY <2>6, <2>7, <2>8
  <1>2. ASSUME NEW p \in Scores, WritePeak(e, p) PROVE Goal'
    BY <1>2 DEF WritePeak, EndingFound, OpenRowsInProgress, LabelsAccounted, GroupedRowsComplete
  <1>3. ASSUME NEW label \in Labels, WriteLabel(e, label) PROVE Goal'
    <2>1. label \in sighted[e] /\ labelling' \subseteq labelling
      BY <1>3 DEF WriteLabel, LabelsAccounted
    <2>2. \A f \in Events: dominant'[f] = dominant[f] \/ (f = e /\ dominant'[f] = label)
      BY <1>3 DEF WriteLabel, Statement, TypeOK
    <2>3. UNCHANGED <<active, buffer, row, stored, grouped, closing, carried, issued, sighted,
                      astray>>
      BY <1>3 DEF WriteLabel
    <2>4. LabelsAccounted'
      BY <2>1, <2>2, <2>3 DEF LabelsAccounted
    <2>5. GroupedRowsComplete'
      BY <2>1, <2>2, <2>3 DEF GroupedRowsComplete, TypeOK
    <2> QED
      BY <2>3, <2>4, <2>5 DEF EndingFound, OpenRowsInProgress
  <1>4. CASE DeleteRow(e)
    <2>1. active # e /\ row[e] \in {"absent", "open"} /\ closing[e] # "none"
      BY <1>4 DEF DeleteRow, LiveRowUntouched, RowsFollowTasks
    <2>2. /\ closing' = [closing EXCEPT ![e] = "none"] /\ carried' = [carried EXCEPT ![e] = {}]
          /\ UNCHANGED <<active, buffer, dominant, stored, grouped, labelling, issued, sighted>>
      BY <1>4 DEF DeleteRow, TaskDone
    <2>3. \/ row' = [row EXCEPT ![e] = IF Exists(e) THEN "deleted" ELSE @] /\ astray' = astray
          \/ row' = row /\ astray' = astray \cup {e}
      BY <1>4 DEF DeleteRow, Closing, Statement, TypeOK
    <2>4. \A f \in Events: f # e => /\ row'[f] = row[f] /\ closing'[f] = closing[f]
                                    /\ carried'[f] = carried[f] /\ (f \in astray <=> f \in astray')
      BY <2>2, <2>3 DEF TypeOK
    <2>5. /\ closing'[e] = "none"
          /\ e \notin astray' => row'[e] # "open" /\ e \notin astray /\ e \notin grouped
                                    /\ (row'[e] = "absent" => row[e] = "absent")
      BY <2>1, <2>2, <2>3 DEF Exists, GroupedRowsComplete, TypeOK
    <2>6. EndingFound' /\ OpenRowsInProgress'
      BY <2>2, <2>4, <2>5 DEF EndingFound, OpenRowsInProgress
    <2>7. LabelsAccounted'
      BY <2>1, <2>2, <2>4, <2>5 DEF LabelsAccounted
    <2>8. GroupedRowsComplete'
      BY <2>2, <2>4, <2>5 DEF GroupedRowsComplete, TypeOK
    <2> QED
      BY <2>6, <2>7, <2>8
  <1>5. CASE ReadDuration(e)
    <2>1. \/ closing' = [closing EXCEPT ![e] = "discard"]
          \/ closing' = [closing EXCEPT ![e] = "end"] /\ Exists(e)
      BY <1>5 DEF ReadDuration, AfterRead, Statement
    <2>2. UNCHANGED <<active, buffer, row, dominant, stored, grouped, labelling,
                      carried, issued, sighted, astray>> /\ closing[e] = "read"
      BY <1>5 DEF ReadDuration
    <2>3. \A f \in Events: f # e => closing'[f] = closing[f]
      BY <2>1 DEF TypeOK
    <2>4. closing'[e] = "discard" \/ (closing'[e] = "end" /\ row[e] # "absent")
      BY <2>1 DEF Exists, TypeOK
    <2>5. EndingFound' /\ OpenRowsInProgress'
      BY <2>2, <2>3, <2>4 DEF EndingFound, OpenRowsInProgress
    <2>6. LabelsAccounted'
      BY <2>2, <2>3, <2>4 DEF LabelsAccounted
    <2> QED
      BY <2>2, <2>5, <2>6 DEF GroupedRowsComplete
  <1>6. CASE EndRow(e)
    <2>1. active # e /\ row[e] = "open" /\ closing[e] = "end"
      BY <1>6 DEF EndRow, LiveRowUntouched, RowsFollowTasks, EndingFound
    <2>2. /\ closing' = [closing EXCEPT ![e] = AfterEnd(e)]
          /\ UNCHANGED <<active, buffer, dominant, stored, grouped, labelling, carried, issued,
                         sighted>>
      BY <1>6 DEF EndRow
    <2>3. \/ row' = [row EXCEPT ![e] = "ended"] /\ astray' = astray
          \/ row' = row /\ astray' = astray \cup {e}
      BY <1>6, <2>1 DEF EndRow, Closing, Statement, Exists
    <2>4. \A f \in Events: f # e => /\ row'[f] = row[f] /\ closing'[f] = closing[f]
                                    /\ (f \in astray <=> f \in astray')
      BY <2>2, <2>3 DEF TypeOK
    <2>5. carried[e] = sighted[e] /\ (e \notin astray => stored[e] = {} /\ e \notin grouped)
      BY <2>1 DEF LabelsAccounted, GroupedRowsComplete
    <2>6. /\ closing'[e] \in {"group", "flush"} /\ row'[e] \in {"open", "ended"}
          /\ closing'[e] = "group" => carried[e] = {}
          /\ e \notin astray' => row'[e] = "ended" /\ e \notin astray
      BY <2>1, <2>2, <2>3 DEF AfterEnd, TypeOK
    <2>7. EndingFound' /\ OpenRowsInProgress'
      BY <2>2, <2>4, <2>6 DEF EndingFound, OpenRowsInProgress
    <2>8. LabelsAccounted'
      BY <2>2, <2>4, <2>5, <2>6 DEF LabelsAccounted
    <2>9. GroupedRowsComplete'
      BY <2>2, <2>4, <2>5, <2>6 DEF GroupedRowsComplete, TypeOK
    <2> QED
      BY <2>7, <2>8, <2>9
  <1>7. CASE FlushDetections(e)
    <2>1. /\ active # e /\ closing[e] = "flush" /\ carried[e] = sighted[e] /\ row[e] # "absent"
          /\ e \notin astray => row[e] = "ended"
      BY <1>7 DEF FlushDetections, LiveRowUntouched, EndingFound, LabelsAccounted
    <2>2. /\ closing' = [closing EXCEPT ![e] = "group"]
          /\ UNCHANGED <<active, buffer, row, dominant, grouped, labelling, carried, issued, sighted>>
      BY <1>7 DEF FlushDetections
    <2>3. \/ /\ stored' = IF Exists(e) THEN [stored EXCEPT ![e] = carried[e]] ELSE stored
             /\ astray' = astray
          \/ stored' = stored /\ astray' = astray \cup {e}
      BY <1>7 DEF FlushDetections, Closing, Statement
    <2>4. \A f \in Events: f # e => /\ stored'[f] = stored[f] /\ closing'[f] = closing[f]
                                    /\ (f \in astray <=> f \in astray')
      BY <2>2, <2>3 DEF TypeOK
    <2>5. /\ closing'[e] = "group"
          /\ e \notin astray' => stored'[e] = sighted[e] /\ e \notin astray
      BY <2>1, <2>2, <2>3 DEF Exists, TypeOK
    <2>6. EndingFound' /\ OpenRowsInProgress'
      BY <2>1, <2>2, <2>4, <2>5 DEF EndingFound, OpenRowsInProgress
    <2>7. LabelsAccounted'
      BY <2>1, <2>2, <2>4, <2>5 DEF LabelsAccounted
    <2>8. GroupedRowsComplete'
      BY <2>1, <2>2, <2>4, <2>5 DEF GroupedRowsComplete, TypeOK
    <2> QED
      BY <2>6, <2>7, <2>8
  <1>8. CASE GroupEvent(e)
    <2>1. /\ active # e /\ closing[e] = "group"
          /\ e \notin astray => row[e] = "ended" /\ stored[e] = sighted[e]
      BY <1>8 DEF GroupEvent, LiveRowUntouched, EndingFound, LabelsAccounted
    <2>2. grouped' \subseteq grouped \cup {e}
      BY <1>8 DEF GroupEvent, Statement
    <2>3. /\ closing' = [closing EXCEPT ![e] = "none"] /\ carried' = [carried EXCEPT ![e] = {}]
          /\ UNCHANGED <<active, buffer, row, dominant, stored, labelling, issued, sighted, astray>>
      BY <1>8 DEF GroupEvent, TaskDone
    <2>4. \A f \in Events: \/ f = e /\ closing'[f] = "none"
                           \/ f # e /\ closing'[f] = closing[f] /\ carried'[f] = carried[f]
      BY <2>3 DEF TypeOK
    <2>5. EndingFound' /\ OpenRowsInProgress'
      BY <2>1, <2>3, <2>4 DEF EndingFound, OpenRowsInProgress
    <2>6. LabelsAccounted'
      BY <2>1, <2>3, <2>4 DEF LabelsAccounted
    <2>7. GroupedRowsComplete'
      BY <2>1, <2>2, <2>3 DEF LabelsAccounted, GroupedRowsComplete
    <2> QED
      BY <2>5, <2>6, <2>7
  <1> QED
    BY <1>1, <1>2, <1>3, <1>4, <1>5, <1>6, <1>7, <1>8 DEF Task

\* Every step preserves SettledInv.
LEMMA SettledInductive == SettledInv /\ [Next]_vars => SettledInv'
  <1> DEFINE Goal == EndingFound /\ OpenRowsInProgress /\ LabelsAccounted /\ GroupedRowsComplete
  <1> SUFFICES ASSUME SettledInv, [Next]_vars PROVE Goal'
    BY RowInvInductive DEF SettledInv
  <1> USE DEF SettledInv, RowInv, InHand, Unsettled, camVars, rowVars, taskVars, history, vars
  <1>1. ASSUME NEW score \in FrameScores, NEW e \in Events, OpenEvent(score, e)
        PROVE  Goal'
    <2>1. e \notin issued /\ row[e] = "absent" /\ closing[e] = "none" /\ active = NoEvent
      BY <1>1 DEF OpenEvent, FreshId, IdsIssued
    <2>2. /\ active' = e /\ buffer' = {} /\ issued' = issued \cup {e}
          /\ UNCHANGED <<row, dominant, stored, grouped, labelling, closing, carried, sighted,
                         astray>>
      BY <1>1 DEF OpenEvent
    <2> QED
      BY <2>1, <2>2 DEF EndingFound, OpenRowsInProgress, LabelsAccounted, GroupedRowsComplete
  <1>2. ASSUME NEW score \in FrameScores, SustainEvent(score) \/ IdleFrame(score)
        PROVE  Goal'
    BY <1>2 DEF SustainEvent, IdleFrame, EndingFound, OpenRowsInProgress, LabelsAccounted,
                GroupedRowsComplete
  <1>3. ASSUME NEW score \in FrameScores, NEW require \in RequireObject,
               CloseEvent(score, require)
        PROVE  Goal'
    <2>1. active \in Events /\ active \in issued /\ Fate(require) \in {"drop", "read"}
      BY <1>3 DEF CloseEvent, Fate, IdsIssued, TypeOK
    <2>2. /\ active' = NoEvent
          /\ closing' = [closing EXCEPT ![active] = Fate(require)]
          /\ carried' = [carried EXCEPT ![active] = buffer]
          /\ UNCHANGED <<row, dominant, stored, grouped, labelling, issued, sighted, astray>>
      BY <1>3 DEF CloseEvent, TakeActive
    <2>3. EndingFound' /\ OpenRowsInProgress'
      BY <2>1, <2>2 DEF EndingFound, OpenRowsInProgress, TypeOK
    <2>4. LabelsAccounted'
      BY <2>1, <2>2 DEF LabelsAccounted, TypeOK
    <2> QED
      BY <2>2, <2>3, <2>4 DEF GroupedRowsComplete
  <1>4. CASE Detect
    <2>1. UNCHANGED <<active, row, dominant, stored, grouped, closing, carried, issued, astray>>
      BY <1>4 DEF Detect
    <2>2. CASE UNCHANGED <<buffer, sighted, labelling>>
      BY <2>1, <2>2 DEF EndingFound, OpenRowsInProgress, LabelsAccounted, GroupedRowsComplete
    <2>3. ASSUME NEW found \in SUBSET Labels, NEW sure \in SUBSET found,
                 active # NoEvent, Accumulate(found, sure)
          PROVE  Goal'
      <3>1. active \in Events /\ active \in issued /\ closing[active] = "none"
                /\ row[active] \in {"absent", "open"}
        BY <2>3 DEF IdsIssued, LiveRowUntouched, TypeOK
      <3>2. buffer' = buffer \cup found /\ sighted' = [sighted EXCEPT ![active] = @ \cup found]
        BY <2>3 DEF Accumulate
      <3>3. labelling' = labelling \/ \E label \in sure: labelling' = labelling \cup {<<active, label>>}
        BY <2>3 DEF Accumulate
      <3>4. /\ sighted'[active] = sighted[active] \cup found
            /\ \A e \in Events: e # active => sighted'[e] = sighted[e]
            /\ \A e \in Events: sighted[e] \subseteq sighted'[e]
        BY <3>1, <3>2 DEF TypeOK
      <3>5. LabelsAccounted'
        <4>1. \A e \in Events, label \in Labels: <<e, label>> \in labelling' => label \in sighted'[e]
          BY <3>3, <3>4 DEF LabelsAccounted
        <4>2. active' # NoEvent => buffer' = sighted'[active']
          BY <2>1, <3>1, <3>2, <3>4 DEF LabelsAccounted
        <4> QED
          BY <2>1, <3>1, <3>4, <4>1, <4>2 DEF LabelsAccounted
      <3>6. GroupedRowsComplete'
        BY <2>1, <3>1, <3>4 DEF GroupedRowsComplete, TypeOK
      <3> QED
        BY <2>1, <3>5, <3>6 DEF EndingFound, OpenRowsInProgress
    <2> QED
      BY <1>4, <2>2, <2>3 DEF Detect
  <1>5. CASE DetectorReady \/ TakeFrame \/ KeepAlive \/ SecondPasses \/ SceneChanges
             \/ UNCHANGED vars
    BY <1>5 DEF DetectorReady, TakeFrame, KeepAlive, SecondPasses, SceneChanges,
                EndingFound, OpenRowsInProgress, LabelsAccounted, GroupedRowsComplete
  <1>6. ASSUME NEW e \in Events, Task(e)
        PROVE  Goal'
    BY <1>6, SettledTask DEF SettledInv
  <1>7. CASE Restart
    <2>1. /\ active' = NoEvent /\ labelling' = {}
          /\ closing' = [e \in Events |-> "none"]
          /\ UNCHANGED <<dominant, stored, grouped, issued, sighted>>
      BY <1>7 DEF Restart
    <2>2. \/ /\ row' = [e \in Events |-> IF row[e] = "open" THEN "ended" ELSE row[e]]
             /\ astray' = astray
          \/ row' = row /\ astray' = astray \cup {e \in Events: row[e] = "open"}
      BY <1>7 DEF Restart, Statement
    <2>3. \A e \in Events: e \notin astray' =>
              /\ e \notin astray /\ row'[e] # "open"
              /\ row'[e] = "absent" => row[e] = "absent"
              /\ row[e] = "ended" => row'[e] = "ended"
      BY <2>2
    <2>4. \A e \in Events: closing'[e] = "none"
      BY <2>1
    <2> QED
      BY <2>1, <2>3, <2>4 DEF EndingFound, OpenRowsInProgress, LabelsAccounted,
                              GroupedRowsComplete, TypeOK
  <1> QED
    BY <1>1, <1>2, <1>3, <1>4, <1>5, <1>6, <1>7 DEF Next, Frame

\* SettledInv holds of every reachable state.
LEMMA SettledInvariant == Spec => []SettledInv
  <1>1. Init => SettledInv
    <2> SUFFICES ASSUME Init PROVE SettledInv
      OBVIOUS
    <2>1. TypeOK
      BY InitTyped
    <2> QED
      BY <2>1 DEF Init, FreshCamera, RowInv, IdsIssued, RowsFollowTasks, LiveRowUntouched,
                  SettledInv, EndingFound, OpenRowsInProgress, LabelsAccounted,
                  GroupedRowsComplete
  <1> QED
    BY <1>1, SettledInductive, PTL DEF Spec

\* A row marked in progress has its event live or its closing task under way,
\* however late inserts run and whatever fails, unless the event went astray.
THEOREM OpenRowsOwned == Spec => []OpenRowsInProgress
  <1>1. SettledInv => OpenRowsInProgress
    BY DEF SettledInv
  <1> QED
    BY <1>1, SettledInvariant, PTL

\* A grouped event has ended and holds exactly the labels detected during it,
\* unless a statement of its closing task failed.
THEOREM GroupedComplete == Spec => []GroupedRowsComplete
  <1>1. SettledInv => GroupedRowsComplete
    BY DEF SettledInv
  <1> QED
    BY <1>1, SettledInvariant, PTL
=============================================================================
