------------------------- MODULE EventAlerts_proofs -------------------------
(* Proofs about EventAlerts: types, one alert per loop and event, and what  *)
(* becomes of an alert once it waits for an answer, for any number of       *)
(* events, re-analyses, settings and restarts.                              *)
EXTENDS EventAlerts, TLAPS

-----------------------------------------------------------------------------
(* Types. *)

\* The number of an event is a number the variable at may hold.
LEMMA EventNumbers == Events \subseteq 0..MaxEvent /\ 0 \in 0..MaxEvent
  BY BoundAssumption DEF Events

\* The four levels are closed under the risk ladder.
LEMMA RiskIsLevel ==
    ASSUME NEW verdict \in Levels, NEW people \in 0..2, NEW night \in BOOLEAN, NEW notable \in BOOLEAN
    PROVE  RiskOf(verdict, people, night, notable) \in Levels
  BY DEF RiskOf, Levels, Serious

\* An analysis leaves nothing of itself behind.
LEMMA EndsTypes ==
    ASSUME WorkTypes, NEW w \in Analysts, Ends(w), UNCHANGED queue
    PROVE  WorkTypes'
  BY EventNumbers DEF WorkTypes, Ends, Phases, Levels

\* A judgement yields a level and a summary.
LEMMA JudgedTypes ==
    ASSUME TypeOK, NEW w \in Analysts, NEW verdicts \in SUBSET Levels, Judged(w, verdicts),
           phase[w] = "judge", at[w] \in Events, UNCHANGED queue
    PROVE  WorkTypes' /\ summary' \subseteq Events
  <1>1. PICK verdict \in verdicts, people \in 0..2, night \in BOOLEAN, notable \in BOOLEAN:
           risk' = [risk EXCEPT ![w] = RiskOf(verdict, people, night, notable)]
    BY DEF Judged
  <1>2. risk' \in [Analysts -> Levels]
    BY <1>1, RiskIsLevel DEF TypeOK, WorkTypes
  <1>3. phase' \in [Analysts -> Phases]
    BY DEF Judged, Goes, TypeOK, WorkTypes, Phases
  <1>4. UNCHANGED <<at, snap>> /\ summary' \subseteq Events
    BY DEF Judged, Summarised, TypeOK
  <1> QED
    BY <1>2, <1>3, <1>4 DEF TypeOK, WorkTypes

\* What an analysis knows while it runs: its event, and that the event has a summary
\* by the time it is alerted on.
WorkInv ==
    \A w \in Analysts:
        /\ phase[w] # "idle" => at[w] \in Events
        /\ phase[w] \in {"gate", "send", "register"} => at[w] \in summary

\* Types hold in the first state.
LEMMA InitTypes == Init => TypeOK /\ WorkInv
  <1> SUFFICES ASSUME Init PROVE TypeOK /\ WorkInv
    OBVIOUS
  <1>1. WorkTypes /\ AlertTypes
    BY EventNumbers DEF Init, WorkTypes, AlertTypes, Phases, Levels
  <1> QED
    BY <1>1, BoundAssumption DEF Init, TypeOK, WorkInv

\* Every step of an analysis keeps the types.
LEMMA AnalyseTypes ==
    ASSUME TypeOK, WorkInv, NEW w \in Analysts, Analyse(w)
    PROVE  TypeOK' /\ WorkInv'
  <1> USE DEF TypeOK, eventVars, alertVars, escVars
  <1>a. phase[w] # "idle" /\ at[w] \in Events /\ <<w, at[w]>> \in Alerts
    BY DEF Analyse, NoModel, Judge, Gate, Send, Register, WorkInv, Alerts
  <1>1. CASE NoModel(w)
    <2>1. WorkTypes'
      BY <1>1, EndsTypes DEF NoModel
    <2>2. WorkInv'
      BY <1>1 DEF NoModel, Ends, WorkInv, WorkTypes, Summarised
    <2> QED
      BY <1>1, <1>a, <2>1, <2>2 DEF NoModel, Summarised, AlertTypes
  <1>2. CASE Judge(w)
    <2>1. PICK verdicts \in SUBSET Levels: Judged(w, verdicts)
      BY <1>2, BoundAssumption DEF Judge, Unavailable, Levels
    <2>2. WorkTypes' /\ summary' \subseteq Events
      BY <1>2, <1>a, <2>1, JudgedTypes DEF Judge
    <2>3. WorkInv'
      BY <1>a, <2>1 DEF Judged, Goes, Summarised, WorkInv, WorkTypes
    <2> QED
      BY <1>2, <2>2, <2>3 DEF Judge, AlertTypes
  <1>3. CASE Gate(w)
    <2>1. WorkTypes'
      <3>1. CASE Goes(w, "send") /\ UNCHANGED <<queue, at, snap, risk>>
        BY <3>1 DEF Goes, WorkTypes, Phases
      <3>2. CASE Ends(w) /\ UNCHANGED queue
        BY <3>2, EndsTypes
      <3> QED
        BY <1>3, <3>1, <3>2 DEF Gate
    <2>2. WorkInv'
      <3>1. CASE Goes(w, "send") /\ UNCHANGED <<at, summary>>
        BY <1>3, <1>a, <3>1 DEF Gate, Goes, WorkInv, WorkTypes
      <3>2. CASE Ends(w) /\ UNCHANGED summary
        BY <3>2 DEF Ends, WorkInv, WorkTypes
      <3> QED
        BY <1>3, <3>1, <3>2 DEF Gate
    <2>3. AlertTypes'
      BY <1>3, <1>a DEF Gate, AlertTypes
    <2> QED
      BY <1>3, <2>1, <2>2, <2>3 DEF Gate
  <1>4. CASE Send(w)
    <2>1. WorkTypes'
      <3>1. CASE Goes(w, "register") /\ UNCHANGED <<queue, at, snap, risk>>
        BY <3>1 DEF Goes, WorkTypes, Phases
      <3>2. CASE Ends(w) /\ UNCHANGED queue
        BY <3>2, EndsTypes
      <3> QED
        BY <1>4, <3>1, <3>2 DEF Send
    <2>2. WorkInv'
      <3>1. CASE Goes(w, "register") /\ UNCHANGED <<at, summary>>
        BY <1>4, <1>a, <3>1 DEF Send, Goes, WorkInv, WorkTypes
      <3>2. CASE Ends(w) /\ UNCHANGED summary
        BY <3>2 DEF Ends, WorkInv, WorkTypes
      <3> QED
        BY <1>4, <3>1, <3>2 DEF Send
    <2>3. AlertTypes'
      BY <1>4, <1>a DEF Send, AlertTypes
    <2> QED
      BY <1>4, <2>1, <2>2, <2>3 DEF Send
  <1>5. CASE Register(w)
    <2>1. WorkTypes'
      BY <1>5, EndsTypes DEF Register
    <2>2. WorkInv'
      BY <1>5 DEF Register, Ends, WorkInv, WorkTypes
    <2> QED
      BY <1>5, <1>a, <2>1, <2>2 DEF Register, AlertTypes
  <1> QED
    BY <1>1, <1>2, <1>3, <1>4, <1>5 DEF Analyse

\* So does the beginning of one.
LEMMA BeginTypes ==
    ASSUME TypeOK, WorkInv, NEW w \in Analysts, NEW e \in Events, Begins(w, e),
           queue' \in [Loops -> SUBSET Events]
    PROVE  TypeOK' /\ WorkInv'
  <1> USE DEF TypeOK, eventVars, alertVars, escVars
  <1>1. CASE Exists(e)
    <2>1. WorkTypes'
      BY <1>1, EventNumbers DEF Begins, WorkTypes, Phases
    <2>2. WorkInv'
      BY <1>1 DEF Begins, WorkInv, WorkTypes
    <2> QED
      BY <2>1, <2>2 DEF Begins, AlertTypes
  <1>2. CASE ~Exists(e)
    <2>1. WorkTypes'
      BY <1>2, EventNumbers DEF Begins, Ends, WorkTypes, Phases, Levels
    <2>2. WorkInv'
      BY <1>2 DEF Begins, Ends, WorkInv, WorkTypes
    <2> QED
      BY <2>1, <2>2 DEF Begins, AlertTypes
  <1> QED
    BY <1>1, <1>2

\* Every step keeps the types.
LEMMA TypeInductive == TypeOK /\ WorkInv /\ [Next]_vars => TypeOK' /\ WorkInv'
  <1> SUFFICES ASSUME TypeOK, WorkInv, [Next]_vars PROVE TypeOK' /\ WorkInv'
    OBVIOUS
  <1>1. ASSUME NEW e \in Events, EventOpens(e) \/ EventCloses(e) \/ EventDeleted(e)
        PROVE  TypeOK' /\ WorkInv'
    BY <1>1 DEF EventOpens, EventCloses, EventDeleted, TypeOK, WorkTypes, AlertTypes, WorkInv,
                workVars, alertVars, escVars
  <1>2. CASE PrefsChange
    BY <1>2 DEF PrefsChange, TypeOK, WorkTypes, AlertTypes, WorkInv, workVars, alertVars, escVars
  <1>3. ASSUME NEW w \in Loops, Select(w)
        PROVE  TypeOK' /\ WorkInv'
    BY <1>3 DEF Select, Selected, Owed, TypeOK, WorkTypes, AlertTypes, WorkInv,
                eventVars, alertVars, escVars
  <1>4. ASSUME NEW w \in Loops, NEW e \in Events, TakeUp(w, e)
        PROVE  TypeOK' /\ WorkInv'
    <2>1. queue' \in [Loops -> SUBSET Events]
      BY <1>4 DEF TakeUp, TypeOK, WorkTypes
    <2>2. Begins(w, e) /\ w \in Analysts
      BY <1>4 DEF TakeUp, Analysts
    <2> QED
      BY <2>1, <2>2, BeginTypes
  <1>5. ASSUME NEW w \in Mids, NEW e \in Events, MidBegins(w, e)
        PROVE  TypeOK' /\ WorkInv'
    <2>1. queue' \in [Loops -> SUBSET Events] /\ Begins(w, e) /\ w \in Analysts
      BY <1>5 DEF MidBegins, TypeOK, WorkTypes, Analysts
    <2> QED
      BY <2>1, BeginTypes
  <1>6. ASSUME NEW w \in Analysts, Analyse(w)
        PROVE  TypeOK' /\ WorkInv'
    BY <1>6, AnalyseTypes
  <1>7. ASSUME NEW due \in SUBSET pending, Expire(due)
        PROVE  TypeOK' /\ WorkInv'
    BY <1>7 DEF Expire, Kept, Collected, TypeOK, WorkTypes, AlertTypes, WorkInv,
                eventVars, workVars, alertVars
  <1>8. ASSUME NEW i \in Alerts, Escalate(i) \/ Answer(i)
        PROVE  TypeOK' /\ WorkInv'
    <2>1. AlertTypes'
      BY <1>8 DEF Escalate, Answer, Waiting, TypeOK, AlertTypes, alertVars
    <2> QED
      BY <1>8, <2>1 DEF Escalate, Answer, TypeOK, WorkTypes, WorkInv, eventVars, workVars
  <1>9. CASE Restart
    <2>1. WorkTypes'
      BY <1>9, EventNumbers DEF Restart, TypeOK, WorkTypes, Phases, Levels
    <2>2. AlertTypes' /\ WorkInv'
      BY <1>9 DEF Restart, TypeOK, AlertTypes, alertVars, WorkInv, WorkTypes
    <2>3. boots' \in 0..MaxBoots
      BY <1>9, BoundAssumption DEF Restart, TypeOK
    <2> QED
      BY <1>9, <2>1, <2>2, <2>3 DEF Restart, TypeOK
  <1>10. CASE UNCHANGED vars
    BY <1>10 DEF vars, TypeOK, WorkTypes, AlertTypes, WorkInv,
                 eventVars, workVars, alertVars, escVars
  <1> QED
    BY <1>1, <1>2, <1>3, <1>4, <1>5, <1>6, <1>7, <1>8, <1>9, <1>10 DEF Next, Drive, Escalation

\* Every variable keeps its type, for every number of events, analyses and restarts.
THEOREM TypeCorrect == Spec => []TypeOK
  <1>1. Spec => [](TypeOK /\ WorkInv)
    BY InitTypes, TypeInductive, PTL DEF Spec
  <1> QED
    BY <1>1, PTL

-----------------------------------------------------------------------------
(* One alert per loop and event.  No step claims an event: what keeps a     *)
(* loop from alerting twice is that the summary is written before the       *)
(* alert, that only events without one are selected, and that an event has  *)
(* left the loop's list before its analysis begins.                         *)

FreshLoop(w) ==
    /\ \A e \in Events: made[<<w, e>>] > 0 => e \in summary
    /\ \A e \in queue[w]: made[<<w, e>>] = 0
    /\ phase[w] # "idle" => at[w] \notin queue[w]
FreshWork(w) == phase[w] \in {"judge", "gate"} => made[<<w, at[w]>>] = 0

Fresh ==
    /\ \A w \in Loops: FreshLoop(w)
    /\ \A w \in Analysts: FreshWork(w)
    /\ OneAlertPerLoop

\* All of it is about nothing in the first state.
LEMMA InitFresh == Init => Fresh
  BY DEF Init, Fresh, FreshLoop, FreshWork, OneAlertPerLoop, Alerts, Analysts

\* An alert of one analysis is no alert of another.
LEMMA OthersAlerts ==
    ASSUME NEW w, NEW v, NEW d, NEW e, v # w
    PROVE  <<v, d>> # <<w, e>>
  OBVIOUS

\* A step that records no alert and leaves the lists keeps the loops' part, as
\* summaries are never taken back; w is the one analysis that may end.
LEMMA LoopsUnmoved ==
    ASSUME TypeOK, Fresh, UNCHANGED <<made, queue>>, summary \subseteq summary', NEW w \in Analysts,
           \/ UNCHANGED <<phase, at>>
           \/ Ends(w)
           \/ phase[w] # "idle" /\ UNCHANGED at /\ \E next \in Phases: Goes(w, next)
    PROVE  (\A v \in Loops: FreshLoop(v))' /\ OneAlertPerLoop'
  BY DEF Fresh, FreshLoop, OneAlertPerLoop, TypeOK, WorkTypes, Ends, Goes, Analysts

\* The steps of an analysis keep it: only the gate records an alert, of an event the
\* loop has not alerted on and whose summary is written.
LEMMA AnalyseFresh ==
    ASSUME TypeOK, WorkInv, Fresh, NEW w \in Analysts, Analyse(w)
    PROVE  Fresh'
  <1> USE DEF eventVars, alertVars, escVars
  <1>1. CASE NoModel(w)
    <2>1. (\A v \in Loops: FreshLoop(v))' /\ OneAlertPerLoop'
      BY <1>1, LoopsUnmoved DEF NoModel, Summarised
    <2>2. (\A v \in Analysts: FreshWork(v))'
      BY <1>1 DEF NoModel, Ends, Fresh, FreshWork, TypeOK, WorkTypes
    <2> QED
      BY <2>1, <2>2 DEF Fresh
  <1>2. CASE Judge(w)
    <2>1. phase[w] = "judge" /\ Goes(w, "gate")
          /\ UNCHANGED <<at, snap, queue, made>> /\ summary \subseteq summary'
      BY <1>2 DEF Judge, Judged, Unavailable, Summarised
    <2>2. (\A v \in Loops: FreshLoop(v))' /\ OneAlertPerLoop'
      BY <2>1, LoopsUnmoved DEF Phases
    <2>3. (\A v \in Analysts: FreshWork(v))'
      BY <2>1 DEF Goes, Fresh, FreshWork, TypeOK, WorkTypes
    <2> QED
      BY <2>2, <2>3 DEF Fresh
  <1>3. CASE Gate(w)
    <2>1. CASE Ends(w) /\ UNCHANGED <<made, queue, summary>>
      <3>1. (\A v \in Loops: FreshLoop(v))' /\ OneAlertPerLoop'
        BY <2>1, LoopsUnmoved
      <3>2. (\A v \in Analysts: FreshWork(v))'
        BY <2>1 DEF Ends, Fresh, FreshWork, TypeOK, WorkTypes
      <3> QED
        BY <3>1, <3>2 DEF Fresh
    <2>2. CASE /\ Goes(w, "send") /\ UNCHANGED <<at, queue, summary>>
               /\ made' = [made EXCEPT ![<<w, at[w]>>] = IF @ < 2 THEN @ + 1 ELSE @]
      <3>1. /\ phase[w] = "gate" /\ at[w] \in Events /\ <<w, at[w]>> \in Alerts
            /\ at[w] \in summary /\ made[<<w, at[w]>>] = 0
        BY <1>3 DEF Gate, WorkInv, Fresh, FreshWork, Alerts
      <3>2. /\ made'[<<w, at[w]>>] = 1
            /\ \A v \in Analysts, e \in Events: <<v, e>> # <<w, at[w]>> => made'[<<v, e>>] = made[<<v, e>>]
        BY <2>2, <3>1 DEF TypeOK, AlertTypes, Alerts
      <3>3. ASSUME NEW v \in Loops PROVE FreshLoop(v)'
        <4>1. v \in Analysts /\ queue[v] \subseteq Events /\ UNCHANGED <<at, queue, summary>>
          BY <2>2 DEF Analysts, TypeOK, WorkTypes
        <4>2. ASSUME NEW e \in Events, made'[<<v, e>>] > 0 PROVE e \in summary
          BY <3>1, <3>2, <4>1, <4>2 DEF Fresh, FreshLoop
        <4>3. ASSUME NEW e \in queue[v] PROVE made'[<<v, e>>] = 0
          BY <3>1, <3>2, <4>1 DEF Fresh, FreshLoop
        <4>4. phase'[v] # "idle" => at[v] \notin queue[v]
          BY <2>2, <3>1 DEF Goes, Fresh, FreshLoop, TypeOK, WorkTypes
        <4> QED
          BY <4>1, <4>2, <4>3, <4>4 DEF FreshLoop
      <3>4. ASSUME NEW v \in Analysts PROVE FreshWork(v)'
        <4>1. CASE v = w
          BY <2>2, <3>1, <4>1 DEF Goes, FreshWork, TypeOK, WorkTypes
        <4>2. CASE v # w
          <5>1. phase'[v] = phase[v] /\ at'[v] = at[v] /\ <<v, at[v]>> # <<w, at[w]>>
            BY <2>2, <4>2 DEF Goes, TypeOK, WorkTypes
          <5>2. phase[v] # "idle" => at[v] \in Events
            BY DEF WorkInv
          <5> QED
            BY <3>2, <5>1, <5>2 DEF Fresh, FreshWork
        <4> QED
          BY <4>1, <4>2
      <3>5. OneAlertPerLoop'
        <4>1. ASSUME NEW v \in Loops, NEW e \in Events PROVE made'[<<v, e>>] <= 1
          <5>1. CASE <<v, e>> = <<w, at[w]>>
            BY <3>2, <5>1
          <5>2. CASE <<v, e>> # <<w, at[w]>>
            BY <3>2, <5>2 DEF Fresh, OneAlertPerLoop, Analysts
          <5> QED
            BY <5>1, <5>2
        <4> QED
          BY <4>1 DEF OneAlertPerLoop
      <3> QED
        BY <3>3, <3>4, <3>5 DEF Fresh
    <2> QED
      BY <1>3, <2>1, <2>2 DEF Gate
  <1>4. CASE Send(w) \/ Register(w)
    <2>1. /\ phase[w] \in {"send", "register"} /\ UNCHANGED <<queue, made, summary>>
          /\ Ends(w) \/ (Goes(w, "register") /\ UNCHANGED at)
      BY <1>4 DEF Send, Register
    <2>2. (\A v \in Loops: FreshLoop(v))' /\ OneAlertPerLoop'
      BY <2>1, LoopsUnmoved DEF Phases
    <2>3. (\A v \in Analysts: FreshWork(v))'
      BY <2>1 DEF Ends, Goes, Fresh, FreshWork, TypeOK, WorkTypes
    <2> QED
      BY <2>2, <2>3 DEF Fresh
  <1> QED
    BY <1>1, <1>2, <1>3, <1>4 DEF Analyse

\* Taking an event up takes it off the list first.
LEMMA TakeUpFresh ==
    ASSUME TypeOK, Fresh, NEW w \in Loops, NEW e \in Events, TakeUp(w, e)
    PROVE  Fresh'
  <1>1. /\ e \in queue[w] /\ phase[w] = "idle" /\ w \in Analysts
        /\ queue' = [queue EXCEPT ![w] = @ \ {e}]
        /\ UNCHANGED <<made, summary>>
    BY DEF TakeUp, Begins, eventVars, alertVars, Analysts
  <1>2. \/ phase' = [phase EXCEPT ![w] = "judge"] /\ at' = [at EXCEPT ![w] = e]
        \/ phase' = [phase EXCEPT ![w] = "idle"] /\ at' = [at EXCEPT ![w] = 0]
    BY DEF TakeUp, Begins, Ends
  <1>3. made[<<w, e>>] = 0
    BY <1>1 DEF Fresh, FreshLoop
  <1>4. ASSUME NEW v \in Loops PROVE FreshLoop(v)'
    BY <1>1, <1>2 DEF Fresh, FreshLoop, TypeOK, WorkTypes, Analysts
  <1>5. ASSUME NEW v \in Analysts PROVE FreshWork(v)'
    BY <1>1, <1>2, <1>3 DEF Fresh, FreshWork, TypeOK, WorkTypes
  <1>6. OneAlertPerLoop'
    BY <1>1 DEF Fresh, OneAlertPerLoop
  <1> QED
    BY <1>4, <1>5, <1>6 DEF Fresh

\* Every step keeps it.
LEMMA FreshInductive == TypeOK /\ WorkInv /\ Fresh /\ [Next]_vars => Fresh'
  <1> SUFFICES ASSUME TypeOK, WorkInv, Fresh, [Next]_vars PROVE Fresh'
    OBVIOUS
  <1>1. CASE UNCHANGED <<summary, queue, phase, at, made>>
    BY <1>1 DEF Fresh, FreshLoop, FreshWork, OneAlertPerLoop
  <1>2. ASSUME NEW w \in Loops, Select(w) PROVE Fresh'
    <2>1. /\ phase[w] = "idle" /\ UNCHANGED <<summary, phase, at, made>>
          /\ queue' = [queue EXCEPT ![w] = Selected(w)]
      BY <1>2 DEF Select, eventVars, alertVars
    <2>2. \A e \in Selected(w): e \in Events /\ made[<<w, e>>] = 0
      BY DEF Selected, Owed, Fresh, FreshLoop, TypeOK, AlertTypes, Alerts, Analysts
    <2>3. ASSUME NEW v \in Loops PROVE FreshLoop(v)'
      BY <2>1, <2>2 DEF Fresh, FreshLoop, TypeOK, WorkTypes
    <2> QED
      BY <2>1, <2>3 DEF Fresh, FreshWork, OneAlertPerLoop
  <1>3. ASSUME NEW w \in Loops, NEW e \in Events, TakeUp(w, e) PROVE Fresh'
    BY <1>3, TakeUpFresh
  <1>4. ASSUME NEW w \in Mids, NEW e \in Events, MidBegins(w, e) PROVE Fresh'
    <2>1. /\ w \notin Loops /\ w \in Analysts /\ made[<<w, e>>] = 0
          /\ UNCHANGED <<made, summary, queue>>
          /\ \/ phase' = [phase EXCEPT ![w] = "judge"] /\ at' = [at EXCEPT ![w] = e]
             \/ phase' = [phase EXCEPT ![w] = "idle"] /\ at' = [at EXCEPT ![w] = 0]
      BY <1>4, NameAssumption DEF MidBegins, Begins, Ends, eventVars, alertVars, Analysts
    <2>2. ASSUME NEW v \in Loops PROVE FreshLoop(v)'
      BY <2>1 DEF Fresh, FreshLoop, TypeOK, WorkTypes, Analysts
    <2>3. ASSUME NEW v \in Analysts PROVE FreshWork(v)'
      BY <2>1 DEF Fresh, FreshWork, TypeOK, WorkTypes
    <2> QED
      BY <2>1, <2>2, <2>3 DEF Fresh, OneAlertPerLoop
  <1>5. ASSUME NEW w \in Analysts, Analyse(w) PROVE Fresh'
    BY <1>5, AnalyseFresh
  <1>6. CASE Restart
    BY <1>6 DEF Restart, Fresh, FreshLoop, FreshWork, OneAlertPerLoop, TypeOK, WorkTypes, alertVars, Analysts
  <1>7. ASSUME NEW e \in Events, EventOpens(e) \/ EventCloses(e) \/ EventDeleted(e)
        PROVE UNCHANGED <<summary, queue, phase, at, made>>
    BY <1>7 DEF EventOpens, EventCloses, EventDeleted, workVars, alertVars
  <1>8. PrefsChange => UNCHANGED <<summary, queue, phase, at, made>>
    BY DEF PrefsChange, workVars, alertVars
  <1>9. ASSUME Escalation \/ \E i \in Alerts: Answer(i)
        PROVE  UNCHANGED <<summary, queue, phase, at, made>>
    BY <1>9 DEF Escalation, Expire, Escalate, Answer, eventVars, workVars, alertVars
  <1>10. UNCHANGED vars => UNCHANGED <<summary, queue, phase, at, made>>
    BY DEF vars, eventVars, workVars, alertVars
  <1> QED
    BY <1>1, <1>2, <1>3, <1>4, <1>5, <1>6, <1>7, <1>8, <1>9, <1>10 DEF Next, Drive

\* However the cycle, the backfill and the re-analyses interleave, and wherever a
\* restart falls, neither loop alerts twice on an event.
THEOREM OneAlert == Spec => []OneAlertPerLoop
  <1>1. Spec => [](TypeOK /\ WorkInv /\ Fresh)
    BY InitTypes, InitFresh, TypeInductive, FreshInductive, PTL DEF Spec
  <1>2. Fresh => OneAlertPerLoop
    BY DEF Fresh
  <1> QED
    BY <1>1, <1>2, PTL

-----------------------------------------------------------------------------
(* One wait per alert.  An alert passes from its analysis to the table of   *)
(* pending alerts, and from there to the list of those due or out of the    *)
(* wait altogether; it is never in two of these places, and an escalation   *)
(* or an answer takes it out of the last.                                   *)

Untouched(i) == i \notin pending \cup expired \cup stopped /\ auto[i] = 0

Placed(i) ==
    /\ i \in pending => i \notin expired \cup stopped /\ auto[i] = 0
    /\ i \in expired => i \notin stopped /\ auto[i] = 0
    /\ i \in stopped => auto[i] = 0
    /\ made[i] = 0 => Untouched(i) /\ i \notin sent
    /\ auto[i] <= 1
Carried(w) ==
    /\ phase[w] \in {"judge", "gate"} => made[<<w, at[w]>>] = 0
    /\ phase[w] \in {"send", "register"} => made[<<w, at[w]>>] > 0 /\ Untouched(<<w, at[w]>>)

Tokens == (\A i \in Alerts: Placed(i)) /\ (\A w \in Analysts: Carried(w))

\* Nothing waits in the first state.
LEMMA InitTokens == Init => Tokens
  BY DEF Init, Tokens, Placed, Carried, Untouched, Alerts

\* The steps of an analysis keep it: the gate makes an alert that is nowhere yet, and
\* only its own analysis puts it into the table.
LEMMA AnalyseTokens ==
    ASSUME TypeOK, WorkInv, Tokens, NEW w \in Analysts, Analyse(w)
    PROVE  Tokens'
  <1> DEFINE i == <<w, at[w]>>
  <1>a. phase[w] # "idle" /\ at[w] \in Events /\ i \in Alerts
    BY DEF Analyse, NoModel, Judge, Gate, Send, Register, WorkInv, Alerts
  <1>b. ASSUME NEW v \in Analysts, phase[v] # "idle", v # w
        PROVE  <<v, at[v]>> # i /\ <<v, at[v]>> \in Alerts
    BY <1>b DEF WorkInv, Alerts
  \* The others' phases stay.
  <1>c. ASSUME Ends(w) \/ (UNCHANGED at /\ \E next \in Phases: Goes(w, next)), NEW v \in Analysts, v # w
        PROVE  phase'[v] = phase[v] /\ at'[v] = at[v]
    BY <1>c DEF Ends, Goes, TypeOK, WorkTypes
  <1>d. Ends(w) => phase'[w] = "idle"
    BY DEF Ends, TypeOK, WorkTypes
  <1>1. ASSUME UNCHANGED <<made, sent, pending, expired, auto, stopped>>,
               Ends(w) \/ (phase[w] = "judge" /\ Goes(w, "gate") /\ UNCHANGED at)
        PROVE  Tokens'
    <2>1. ASSUME NEW j \in Alerts PROVE Placed(j)'
      BY <1>1 DEF Tokens, Placed, Untouched
    <2>2. ASSUME NEW v \in Analysts PROVE Carried(v)'
      <3>1. CASE v = w
        BY <1>1, <1>d, <3>1 DEF Tokens, Carried, Goes, TypeOK, WorkTypes
      <3>2. CASE v # w
        BY <1>1, <1>c, <3>2 DEF Tokens, Carried, Untouched, Phases
      <3> QED
        BY <3>1, <3>2
    <2> QED
      BY <2>1, <2>2 DEF Tokens
  <1>2. CASE NoModel(w) \/ Judge(w)
    BY <1>1, <1>2 DEF NoModel, Judge, Judged, Unavailable, alertVars, escVars
  <1>3. CASE Gate(w)
    <2>1. CASE Ends(w) /\ UNCHANGED made
      BY <1>1, <1>3, <2>1 DEF Gate, escVars
    <2>2. CASE /\ Goes(w, "send") /\ UNCHANGED at
               /\ made' = [made EXCEPT ![i] = IF @ < 2 THEN @ + 1 ELSE @]
      <3>1. made[i] = 0 /\ UNCHANGED <<sent, pending, expired, auto, stopped>>
        BY <1>3 DEF Gate, Tokens, Carried, escVars
      <3>2. made'[i] = 1 /\ Untouched(i) /\ \A j \in Alerts: j # i => made'[j] = made[j]
        BY <1>a, <2>2, <3>1 DEF Tokens, Placed, TypeOK, AlertTypes
      <3>3. ASSUME NEW j \in Alerts PROVE Placed(j)'
        BY <3>1, <3>2 DEF Tokens, Placed, Untouched
      <3>4. ASSUME NEW v \in Analysts PROVE Carried(v)'
        <4>1. CASE v = w
          BY <2>2, <3>1, <3>2, <4>1 DEF Carried, Untouched, Goes, TypeOK, WorkTypes
        <4>2. CASE v # w
          <5>1. phase'[v] = phase[v] /\ at'[v] = at[v]
            BY <1>c, <2>2, <4>2 DEF Phases
          <5> QED
            BY <1>b, <3>1, <3>2, <4>2, <5>1 DEF Tokens, Carried, Untouched
        <4> QED
          BY <4>1, <4>2
      <3> QED
        BY <3>3, <3>4 DEF Tokens
    <2> QED
      BY <1>3, <2>1, <2>2 DEF Gate
  <1>4. CASE Send(w)
    <2>1. /\ made[i] > 0 /\ Untouched(i) /\ sent' \subseteq sent \cup {i}
          /\ UNCHANGED <<made, pending, expired, auto, stopped>>
          /\ Ends(w) \/ (Goes(w, "register") /\ UNCHANGED at)
      BY <1>4 DEF Send, Tokens, Carried, escVars
    <2>2. ASSUME NEW j \in Alerts PROVE Placed(j)'
      BY <2>1 DEF Tokens, Placed, Untouched
    <2>3. ASSUME NEW v \in Analysts PROVE Carried(v)'
      <3>1. CASE v = w
        BY <1>d, <2>1, <3>1 DEF Carried, Untouched, Goes, TypeOK, WorkTypes
      <3>2. CASE v # w
        BY <1>c, <2>1, <3>2 DEF Tokens, Carried, Untouched, Phases
      <3> QED
        BY <3>1, <3>2
    <2> QED
      BY <2>2, <2>3 DEF Tokens
  <1>5. CASE Register(w)
    <2>1. /\ made[i] > 0 /\ Untouched(i) /\ pending' = pending \cup {i} /\ Ends(w)
          /\ UNCHANGED <<made, sent, expired, auto, stopped>>
      BY <1>5 DEF Register, Tokens, Carried, alertVars
    <2>2. ASSUME NEW j \in Alerts PROVE Placed(j)'
      BY <2>1 DEF Tokens, Placed, Untouched
    <2>3. ASSUME NEW v \in Analysts PROVE Carried(v)'
      <3>1. CASE v = w
        BY <1>d, <2>1, <3>1 DEF Carried
      <3>2. CASE v # w
        <4>1. phase'[v] = phase[v] /\ at'[v] = at[v]
          BY <1>c, <2>1, <3>2
        <4> QED
          BY <1>b, <2>1, <3>2, <4>1 DEF Tokens, Carried, Untouched
      <3> QED
        BY <3>1, <3>2
    <2> QED
      BY <2>2, <2>3 DEF Tokens
  <1> QED
    BY <1>2, <1>3, <1>4, <1>5 DEF Analyse

\* What begins has no alert yet: a loop's event by Fresh, a re-analysis's by its bound.
LEMMA BeginTokens ==
    ASSUME TypeOK, Tokens, NEW w \in Analysts, NEW e \in Events, Begins(w, e), made[<<w, e>>] = 0
    PROVE  Tokens'
  <1>1. /\ UNCHANGED <<made, sent, pending, expired, auto, stopped>>
        /\ \/ phase' = [phase EXCEPT ![w] = "judge"] /\ at' = [at EXCEPT ![w] = e]
           \/ phase' = [phase EXCEPT ![w] = "idle"] /\ at' = [at EXCEPT ![w] = 0]
    BY DEF Begins, Ends, alertVars, escVars
  <1>2. ASSUME NEW v \in Analysts PROVE Carried(v)'
    BY <1>1 DEF Tokens, Carried, Untouched, TypeOK, WorkTypes
  <1> QED
    BY <1>1, <1>2 DEF Tokens, Placed, Untouched

\* Steps that leave the alerts and the analyses alone keep it.
LEMMA StillTokens ==
    ASSUME Tokens, UNCHANGED <<phase, at, made, sent, pending, expired, auto, stopped>>
    PROVE  Tokens'
  BY DEF Tokens, Placed, Carried, Untouched

\* Every step keeps it.
LEMMA TokensInductive == TypeOK /\ WorkInv /\ Fresh /\ Tokens /\ [Next]_vars => Tokens'
  <1> SUFFICES ASSUME TypeOK, WorkInv, Fresh, Tokens, [Next]_vars PROVE Tokens'
    OBVIOUS
  <1>1. ASSUME NEW e \in Events, EventOpens(e) \/ EventCloses(e) \/ EventDeleted(e) PROVE Tokens'
    BY <1>1, StillTokens DEF EventOpens, EventCloses, EventDeleted, workVars, alertVars, escVars
  <1>2. CASE PrefsChange
    BY <1>2, StillTokens DEF PrefsChange, workVars, alertVars, escVars
  <1>3. ASSUME NEW w \in Loops, Select(w) PROVE Tokens'
    BY <1>3, StillTokens DEF Select, alertVars, escVars
  <1>4. ASSUME NEW w \in Loops, NEW e \in Events, TakeUp(w, e) PROVE Tokens'
    <2>1. w \in Analysts /\ Begins(w, e) /\ made[<<w, e>>] = 0
      BY <1>4 DEF TakeUp, Analysts, Fresh, FreshLoop
    <2> QED
      BY <2>1, BeginTokens
  <1>5. ASSUME NEW w \in Mids, NEW e \in Events, MidBegins(w, e) PROVE Tokens'
    <2>1. w \in Analysts /\ Begins(w, e) /\ made[<<w, e>>] = 0
      BY <1>5 DEF MidBegins, Analysts
    <2> QED
      BY <2>1, BeginTokens
  <1>6. ASSUME NEW w \in Analysts, Analyse(w) PROVE Tokens'
    BY <1>6, AnalyseTokens
  <1>7. ASSUME NEW due \in SUBSET pending, Expire(due) PROVE Tokens'
    <2>1. /\ pending' = pending \ due /\ expired' = due /\ due \subseteq pending
          /\ UNCHANGED <<phase, at, made, sent, auto, stopped>>
      BY <1>7 DEF Expire, Kept, Collected, workVars, alertVars
    <2>2. \A j \in Alerts: Placed(j)'
      BY <2>1 DEF Tokens, Placed, Untouched
    <2>3. \A v \in Analysts: Carried(v)'
      BY <2>1 DEF Tokens, Carried, Untouched
    <2> QED
      BY <2>2, <2>3 DEF Tokens
  <1>8. ASSUME NEW i \in Alerts, Escalate(i) PROVE Tokens'
    <2>1. /\ i \in expired /\ expired' = expired \ {i}
          /\ UNCHANGED <<phase, at, made, sent, pending, stopped>>
          /\ auto' = [auto EXCEPT ![i] = IF @ < 2 THEN @ + 1 ELSE @]
      BY <1>8 DEF Escalate, workVars, alertVars
    <2>2. i \notin pending \cup stopped /\ auto[i] = 0 /\ made[i] # 0
      BY <2>1 DEF Tokens, Placed, Untouched
    <2>3. auto'[i] = 1 /\ \A j \in Alerts: j # i => auto'[j] = auto[j]
      BY <2>1, <2>2 DEF TypeOK, AlertTypes
    <2>4. ASSUME NEW j \in Alerts PROVE Placed(j)'
      BY <2>1, <2>2, <2>3 DEF Tokens, Placed, Untouched
    <2>5. ASSUME NEW v \in Analysts PROVE Carried(v)'
      <3>1. phase[v] # "idle" => <<v, at[v]>> \in Alerts
        BY DEF WorkInv, Alerts
      <3> QED
        BY <2>1, <2>3, <3>1 DEF Tokens, Carried, Untouched
    <2> QED
      BY <2>4, <2>5 DEF Tokens
  <1>9. ASSUME NEW i \in Alerts, Answer(i) PROVE Tokens'
    <2>1. /\ pending' = pending \ {i} /\ stopped' = stopped \cup ({i} \cap pending)
          /\ UNCHANGED <<phase, at, made, sent, expired, auto>>
      BY <1>9 DEF Answer, Waiting, workVars, alertVars
    <2>2. \A j \in Alerts: Placed(j)'
      BY <2>1 DEF Tokens, Placed, Untouched
    <2>3. \A v \in Analysts: Carried(v)'
      BY <2>1 DEF Tokens, Carried, Untouched
    <2> QED
      BY <2>2, <2>3 DEF Tokens
  <1>10. CASE Restart
    <2>1. /\ pending' = {} /\ expired' = {} /\ phase' = [w \in Analysts |-> "idle"]
          /\ UNCHANGED <<made, sent, auto, stopped>>
      BY <1>10 DEF Restart, alertVars
    <2>2. \A j \in Alerts: Placed(j)'
      BY <2>1 DEF Tokens, Placed, Untouched
    <2> QED
      BY <2>1, <2>2 DEF Tokens, Carried
  <1>11. CASE UNCHANGED vars
    BY <1>11, StillTokens DEF vars, workVars, alertVars, escVars
  <1> QED
    BY <1>1, <1>2, <1>3, <1>4, <1>5, <1>6, <1>7, <1>8, <1>9, <1>10, <1>11
    DEF Next, Drive, Escalation

\* Together with the types and the loops' alerts.
LEMMA TokensAlways == Spec => []Tokens
  <1>1. Spec => [](TypeOK /\ WorkInv /\ Fresh /\ Tokens)
    BY InitTypes, InitFresh, InitTokens, TypeInductive, FreshInductive, TokensInductive, PTL DEF Spec
  <1> QED
    BY <1>1, PTL

\* An alert somebody answered while it waited is not escalated later, whatever the
\* escalation loop holds when the answer is handled.
THEOREM AnsweredStaysAnswered == Spec => []AnsweredNotEscalated
  <1>1. TypeOK /\ Tokens => AnsweredNotEscalated
    BY DEF Tokens, Placed, AnsweredNotEscalated, TypeOK, AlertTypes
  <1> QED
    BY <1>1, TokensAlways, TypeCorrect, PTL

\* No alert is escalated for no response more than once.
THEOREM EscalatedAtMostOnce == Spec => []EscalatedOnce
  <1>1. Tokens => EscalatedOnce
    BY DEF Tokens, Placed, EscalatedOnce
  <1> QED
    BY <1>1, TokensAlways, PTL

-----------------------------------------------------------------------------
(* What becomes of an alert, as AlertBook has it.                           *)

\* A message is sent once.
Unsent == \A w \in Analysts: phase[w] = "send" => <<w, at[w]>> \notin sent

BookInv == TypeOK /\ WorkInv /\ Fresh /\ Tokens /\ Unsent

\* An alert whose places do not change is where it was.
LEMMA StageKept ==
    ASSUME NEW j \in Alerts, made'[j] = made[j],
           j \in stopped' <=> j \in stopped, j \in expired' <=> j \in expired,
           j \in pending' <=> j \in pending, Carries(j[1], j)' <=> Carries(j[1], j)
    PROVE  Stage(j)' = Stage(j)
  BY DEF Stage

\* A step of one analysis is nothing to the alerts it is not about.
LEMMA CarriedByOthers ==
    ASSUME TypeOK, NEW w \in Analysts, NEW j \in Alerts, j # <<w, at[w]>>,
           Ends(w) \/ (UNCHANGED at /\ \E next \in Phases: Goes(w, next))
    PROVE  Carries(j[1], j)' <=> Carries(j[1], j)
  <1>1. j[1] \in Analysts
    BY DEF Alerts
  <1>2. CASE j[1] = w
    BY <1>1, <1>2 DEF Carries, Ends, Goes, TypeOK, WorkTypes
  <1>3. CASE j[1] # w
    BY <1>1, <1>3 DEF Carries, Ends, Goes, TypeOK, WorkTypes
  <1> QED
    BY <1>2, <1>3

\* An analysis that is not sending carries no alert, before a step and after.
LEMMA NothingCarried ==
    ASSUME TypeOK, NEW w \in Analysts, phase[w] \notin {"send", "register"},
           \E next \in {"idle", "judge", "gate"}: phase' = [phase EXCEPT ![w] = next],
           \E e \in 0..MaxEvent: at' = [at EXCEPT ![w] = e],
           UNCHANGED <<made, stopped, expired, pending>>
    PROVE  \A j \in Alerts: Stage(j)' = Stage(j)
  <1> TAKE j \in Alerts
  <1>1. j[1] \in Analysts
    BY DEF Alerts
  <1>2. CASE j[1] = w
    BY <1>1, <1>2, StageKept DEF Carries, TypeOK, WorkTypes
  <1>3. CASE j[1] # w
    BY <1>1, <1>3, StageKept DEF Carries, TypeOK, WorkTypes
  <1> QED
    BY <1>2, <1>3

\* What the abstract step has to show of the stages, told by the alerts one by one.
LEMMA BookStutter ==
    ASSUME \A j \in Alerts: Stage(j)' = Stage(j), UNCHANGED <<sent, auto>>
    PROVE  UNCHANGED Book!vars
  BY DEF Book!vars

LEMMA BookMoves ==
    ASSUME NEW i \in Alerts, NEW from, NEW to, Stage(i) = from, Stage(i)' = to,
           \A j \in Alerts: j # i => Stage(j)' = Stage(j)
    PROVE  Book!Moves(i, from, to)
  BY DEF Book!Moves

\* The steps of an analysis: it makes an alert, sends its message, and lets it wait.
LEMMA AnalyseRefines ==
    ASSUME BookInv, NEW w \in Analysts, Analyse(w)
    PROVE  [Book!Next]_(Book!vars)
  <1> USE DEF BookInv
  <1>0. PICK i \in Alerts: i = <<w, at[w]>>
    BY DEF Analyse, NoModel, Judge, Gate, Send, Register, WorkInv, Alerts
  <1>a. i = <<w, at[w]>> /\ i[1] = w
    BY <1>0
  <1>b. 0 \in 0..MaxEvent /\ at[w] \in 0..MaxEvent
    BY BoundAssumption DEF TypeOK, WorkTypes
  <1>c. ASSUME Ends(w) \/ (Goes(w, "gate") /\ UNCHANGED at), phase[w] \in {"judge", "gate"},
               UNCHANGED <<made, stopped, expired, pending, sent, auto>>
        PROVE  UNCHANGED Book!vars
    <2>1. at' = [at EXCEPT ![w] = 0] \/ at' = [at EXCEPT ![w] = at[w]]
      BY <1>c DEF Ends, TypeOK, WorkTypes
    <2> QED
      BY <1>b, <1>c, <2>1, NothingCarried, BookStutter DEF Ends, Goes
  <1>1. CASE NoModel(w) \/ Judge(w)
    BY <1>1, <1>c DEF NoModel, Judge, Judged, Unavailable, alertVars, escVars
  <1>2. CASE Gate(w)
    <2>1. CASE Ends(w) /\ UNCHANGED made
      BY <1>2, <2>1, <1>c DEF Gate, escVars
    <2>2. CASE /\ Goes(w, "send") /\ UNCHANGED at
               /\ made' = [made EXCEPT ![i] = IF @ < 2 THEN @ + 1 ELSE @]
      <3>1. made[i] = 0 /\ Untouched(i) /\ UNCHANGED <<sent, pending, expired, auto, stopped>>
        BY <1>a, <1>2 DEF Gate, Tokens, Carried, Placed, escVars
      <3>2. made'[i] = 1 /\ \A j \in Alerts: j # i => made'[j] = made[j]
        BY <1>a, <2>2, <3>1 DEF TypeOK, AlertTypes
      <3>3. Carries(w, i)'
        BY <1>a, <2>2 DEF Carries, Goes, TypeOK, WorkTypes
      <3>4. Stage(i) = "none" /\ Stage(i)' = "made"
        BY <1>a, <3>1, <3>2, <3>3 DEF Stage, Untouched
      <3>5. ASSUME NEW j \in Alerts, j # i PROVE Stage(j)' = Stage(j)
        BY <1>a, <2>2, <3>1, <3>2, <3>5, CarriedByOthers, StageKept DEF Phases
      <3>6. Book!Make(i)
        BY <1>a, <3>1, <3>4, <3>5, BookMoves DEF Book!Make
      <3> QED
        BY <1>a, <3>6 DEF Book!Next
    <2> QED
      BY <1>a, <1>2, <2>1, <2>2 DEF Gate
  <1>3. ASSUME phase[w] \in {"send", "register"} PROVE Stage(i) = "made" /\ Untouched(i)
    BY <1>a, <1>3 DEF Tokens, Carried, Untouched, Stage, Carries
  <1>4. CASE Send(w)
    <2>1. /\ phase[w] = "send" /\ i \notin sent /\ sent' \in {sent, sent \cup {i}}
          /\ UNCHANGED <<made, pending, expired, auto, stopped>>
      BY <1>a, <1>4 DEF Send, escVars, Unsent
    <2>2. Ends(w) \/ (Goes(w, "register") /\ UNCHANGED at)
      BY <1>4 DEF Send
    <2>3. ASSUME NEW j \in Alerts, j # i PROVE Stage(j)' = Stage(j)
      BY <1>a, <2>1, <2>2, <2>3, CarriedByOthers, StageKept DEF Phases
    <2>4. Stage(i)' = "made" \/ Stage(i)' = "over"
      BY <1>a, <1>3, <2>1 DEF Stage, Untouched, Tokens, Carried
    <2>5. Stage(i)' = "made" => UNCHANGED [j \in Alerts |-> Stage(j)]
      BY <1>3, <2>1, <2>3
    <2>6. Stage(i)' = "over" => Book!Moves(i, "made", "over")
      BY <1>a, <1>3, <2>1, <2>3, BookMoves
    <2>7. Book!Message(i)
      BY <1>a, <1>3, <2>1, <2>4, <2>5, <2>6 DEF Book!Message
    <2> QED
      BY <1>a, <2>7 DEF Book!Next
  <1>5. CASE Register(w)
    <2>1. /\ phase[w] = "register" /\ pending' = pending \cup {i} /\ Ends(w)
          /\ UNCHANGED <<made, sent, expired, auto, stopped>>
      BY <1>a, <1>5 DEF Register, alertVars
    <2>2. ASSUME NEW j \in Alerts, j # i PROVE Stage(j)' = Stage(j)
      BY <1>a, <2>1, <2>2, CarriedByOthers, StageKept
    <2>3. Stage(i)' = "waiting"
      BY <1>a, <1>3, <2>1 DEF Stage, Untouched, Tokens, Carried
    <2>4. Book!Wait(i)
      BY <1>a, <1>3, <2>1, <2>2, <2>3, BookMoves DEF Book!Wait
    <2> QED
      BY <1>a, <2>4 DEF Book!Next
  <1> QED
    BY <1>1, <1>2, <1>4, <1>5 DEF Analyse

\* What begins carries nothing yet.
LEMMA BeginRefines ==
    ASSUME BookInv, NEW w \in Analysts, NEW e \in Events, Begins(w, e)
    PROVE  UNCHANGED Book!vars
  <1>1. /\ phase[w] = "idle" /\ UNCHANGED <<made, sent, pending, expired, auto, stopped>>
        /\ \/ phase' = [phase EXCEPT ![w] = "judge"] /\ at' = [at EXCEPT ![w] = e]
           \/ phase' = [phase EXCEPT ![w] = "idle"] /\ at' = [at EXCEPT ![w] = 0]
    BY DEF Begins, Ends, alertVars, escVars
  <1>2. e \in 0..MaxEvent /\ 0 \in 0..MaxEvent
    BY BoundAssumption DEF Events
  <1> QED
    BY <1>1, <1>2, NothingCarried, BookStutter DEF BookInv

\* The timer and the buttons: what is in the table or due is nobody's analysis any more.
LEMMA WaitsRefine ==
    ASSUME BookInv
    PROVE  /\ \A due \in SUBSET pending: Expire(due) => Book!Next
           /\ \A i \in Alerts: Escalate(i) => Book!Next
           /\ \A i \in Alerts: Answer(i) => [Book!Next]_(Book!vars)
  <1> USE DEF BookInv
  <1>a. \A i \in Alerts: i \in pending \cup expired => made[i] # 0 /\ i \notin stopped
    BY DEF Tokens, Placed, Untouched
  <1>1. ASSUME NEW due \in SUBSET pending, Expire(due) PROVE Book!Next
    <2>1. /\ expired = {} /\ pending' = pending \ due /\ expired' = due
          /\ UNCHANGED <<phase, at, made, sent, auto, stopped>>
      BY <1>1 DEF Expire, Kept, Collected, workVars, alertVars
    <2>2. due \in SUBSET Alerts
      BY DEF TypeOK, AlertTypes
    <2>3. \A j \in Alerts: Stage(j) # "due"
      BY <2>1 DEF Stage
    <2>4. \A j \in due: Stage(j) = "waiting" /\ Stage(j)' = "due"
      BY <1>a, <2>1, <2>2 DEF Stage
    <2>5. ASSUME NEW j \in Alerts, j \notin due PROVE Stage(j)' = Stage(j)
      BY <2>1, <2>5, StageKept DEF Carries
    <2>6. Book!ComeDue(due)
      BY <2>1, <2>2, <2>3, <2>4, <2>5 DEF Book!ComeDue
    <2> QED
      BY <2>2, <2>6 DEF Book!Next
  <1>2. ASSUME NEW i \in Alerts, Escalate(i) PROVE Book!Next
    <2>1. /\ i \in expired /\ expired' = expired \ {i}
          /\ UNCHANGED <<phase, at, made, sent, pending, stopped>>
          /\ auto' = [auto EXCEPT ![i] = IF @ < 2 THEN @ + 1 ELSE @]
      BY <1>2 DEF Escalate, workVars, alertVars
    <2>2. i \notin pending /\ auto[i] = 0 /\ ~Carries(i[1], i)
      BY <2>1 DEF Tokens, Placed, Carried, Untouched, Carries, Alerts
    <2>3. Stage(i) = "due" /\ Stage(i)' = "over"
      BY <1>a, <2>1, <2>2 DEF Stage, Carries
    <2>4. ASSUME NEW j \in Alerts, j # i PROVE Stage(j)' = Stage(j)
      BY <2>1, <2>4, StageKept DEF Carries
    <2>5. auto' = [auto EXCEPT ![i] = @ + 1]
      BY <2>1, <2>2
    <2>6. Book!Escalate(i)
      BY <2>1, <2>3, <2>4, <2>5, BookMoves DEF Book!Escalate
    <2> QED
      BY <2>6 DEF Book!Next
  <1>3. ASSUME NEW i \in Alerts, Answer(i) PROVE [Book!Next]_(Book!vars)
    <2>1. /\ i \in sent
          /\ pending' = pending \ {i} /\ stopped' = stopped \cup ({i} \cap pending)
          /\ UNCHANGED <<phase, at, made, sent, expired, auto>>
      BY <1>3 DEF Answer, Waiting, workVars, alertVars
    <2>2. ASSUME NEW j \in Alerts, j # i \/ i \notin pending PROVE Stage(j)' = Stage(j)
      BY <2>1, <2>2, StageKept DEF Carries
    <2>3. CASE i \notin pending
      BY <2>1, <2>2, <2>3, BookStutter
    <2>4. CASE i \in pending
      <3>1. i \notin expired
        BY <2>4 DEF Tokens, Placed
      <3>2. Stage(i) = "waiting" /\ Stage(i)' = "over"
        BY <1>a, <2>1, <2>4, <3>1 DEF Stage
      <3>3. Book!Answer(i)
        BY <2>1, <2>2, <3>2, BookMoves DEF Book!Answer
      <3> QED
        BY <3>3 DEF Book!Next
    <2> QED
      BY <2>3, <2>4
  <1> QED
    BY <1>1, <1>2, <1>3

\* Every step is one of AlertBook, or shows nothing.
LEMMA StepRefines == BookInv /\ [Next]_vars => [Book!Next]_(Book!vars)
  <1> SUFFICES ASSUME BookInv, [Next]_vars PROVE [Book!Next]_(Book!vars)
    OBVIOUS
  <1>1. ASSUME UNCHANGED <<phase, at, made, sent, pending, expired, auto, stopped>>
        PROVE  UNCHANGED Book!vars
    BY <1>1, StageKept, BookStutter DEF Carries
  <1>2. ASSUME NEW e \in Events, EventOpens(e) \/ EventCloses(e) \/ EventDeleted(e)
        PROVE  UNCHANGED Book!vars
    BY <1>1, <1>2 DEF EventOpens, EventCloses, EventDeleted, workVars, alertVars, escVars
  <1>3. PrefsChange => UNCHANGED Book!vars
    BY <1>1 DEF PrefsChange, workVars, alertVars, escVars
  <1>4. ASSUME NEW w \in Loops, Select(w) PROVE UNCHANGED Book!vars
    BY <1>1, <1>4 DEF Select, alertVars, escVars
  <1>5. ASSUME NEW w \in Loops, NEW e \in Events, TakeUp(w, e) PROVE UNCHANGED Book!vars
    BY <1>5, BeginRefines DEF TakeUp, Analysts
  <1>6. ASSUME NEW w \in Mids, NEW e \in Events, MidBegins(w, e) PROVE UNCHANGED Book!vars
    BY <1>6, BeginRefines DEF MidBegins, Analysts
  <1>7. ASSUME NEW w \in Analysts, Analyse(w) PROVE [Book!Next]_(Book!vars)
    BY <1>7, AnalyseRefines
  <1>8. ASSUME Escalation \/ \E i \in Alerts: Answer(i) PROVE [Book!Next]_(Book!vars)
    BY <1>8, WaitsRefine DEF Escalation
  <1>9. CASE Restart
    <2>1. /\ pending' = {} /\ expired' = {} /\ phase' = [w \in Analysts |-> "idle"]
          /\ UNCHANGED <<made, sent, auto, stopped>>
      BY <1>9 DEF Restart, alertVars
    <2>2. ASSUME NEW j \in Alerts
          PROVE  Stage(j)' = IF Stage(j) = "none" THEN "none" ELSE "over"
      BY <2>1 DEF Stage, Carries, Alerts
    <2>3. Book!Die
      BY <2>1, <2>2 DEF Book!Die
    <2> QED
      BY <2>3 DEF Book!Next
  <1>10. UNCHANGED vars => UNCHANGED Book!vars
    BY <1>1 DEF vars, workVars, alertVars, escVars
  <1> QED
    BY <1>2, <1>3, <1>4, <1>5, <1>6, <1>7, <1>8, <1>9, <1>10 DEF Next, Drive

\* An alert is sent by its own analysis only, which then goes on.
LEMMA UnsentInductive == BookInv /\ [Next]_vars => Unsent'
  <1> SUFFICES ASSUME BookInv, [Next]_vars PROVE Unsent'
    OBVIOUS
  <1> USE DEF BookInv
  <1>1. ASSUME UNCHANGED <<phase, at, sent>> PROVE Unsent'
    BY <1>1 DEF Unsent
  <1>2. ASSUME NEW e \in Events, EventOpens(e) \/ EventCloses(e) \/ EventDeleted(e) PROVE Unsent'
    BY <1>1, <1>2 DEF EventOpens, EventCloses, EventDeleted, workVars, alertVars
  <1>3. PrefsChange => Unsent'
    BY <1>1 DEF PrefsChange, workVars, alertVars
  <1>4. ASSUME NEW w \in Loops, Select(w) PROVE Unsent'
    BY <1>1, <1>4 DEF Select, alertVars
  <1>5. ASSUME NEW w \in Analysts, NEW e \in Events, Begins(w, e) PROVE Unsent'
    BY <1>5 DEF Begins, Ends, alertVars, Unsent, TypeOK, WorkTypes
  <1>6. ASSUME NEW w \in Analysts, Analyse(w) PROVE Unsent'
    <2>1. CASE NoModel(w) \/ Judge(w) \/ Register(w)
      BY <2>1 DEF NoModel, Judge, Judged, Unavailable, Register, Ends, Goes, alertVars, Unsent,
                  TypeOK, WorkTypes
    <2>2. CASE Gate(w)
      <3>1. /\ UNCHANGED sent /\ <<w, at[w]>> \notin sent
            /\ Ends(w) \/ (Goes(w, "send") /\ UNCHANGED at)
        BY <2>2 DEF Gate, WorkInv, Tokens, Carried, Placed, Alerts
      <3> QED
        BY <3>1 DEF Ends, Goes, Unsent, TypeOK, WorkTypes
    <2>3. CASE Send(w)
      <3>1. /\ sent' \subseteq sent \cup {<<w, at[w]>>}
            /\ Ends(w) \/ (Goes(w, "register") /\ UNCHANGED at)
        BY <2>3 DEF Send
      <3> QED
        BY <3>1 DEF Ends, Goes, Unsent, TypeOK, WorkTypes
    <2> QED
      BY <1>6, <2>1, <2>2, <2>3 DEF Analyse
  <1>7. ASSUME Escalation \/ \E i \in Alerts: Answer(i) PROVE Unsent'
    BY <1>1, <1>7 DEF Escalation, Expire, Escalate, Answer, workVars, alertVars
  <1>8. Restart => Unsent'
    BY DEF Restart, Unsent, alertVars
  <1>9. UNCHANGED vars => Unsent'
    BY <1>1 DEF vars, workVars, alertVars
  <1> QED
    BY <1>2, <1>3, <1>4, <1>5, <1>6, <1>7, <1>8, <1>9
    DEF Next, Drive, TakeUp, MidBegins, Analysts

\* Whatever analyses, settings, buttons, timer and restarts do between them, what becomes
\* of the alerts is what AlertBook allows: each is made once, waits at most once, and has
\* one end.
THEOREM BookImplemented == Spec => ImplementsAlertBook
  <1>1. Init => BookInv
    BY InitTypes, InitFresh, InitTokens DEF BookInv, Unsent, Init
  <1>2. BookInv /\ [Next]_vars => BookInv'
    BY TypeInductive, FreshInductive, TokensInductive, UnsentInductive DEF BookInv
  <1>3. Init => Book!Init
    BY DEF Init, Book!Init, Stage
  <1> QED
    BY <1>1, <1>2, <1>3, StepRefines, PTL DEF Spec, ImplementsAlertBook, Book!Spec
=============================================================================
