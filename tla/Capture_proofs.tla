--------------------------- MODULE Capture_proofs ---------------------------
(* Proofs about Capture: types, one process to a camera, and that a removed *)
(* camera stays off, for any number of cameras, callers, commands, deaths   *)
(* and stalls.                                                              *)
EXTENDS Capture, FiniteSetTheorems, TLAPS

-----------------------------------------------------------------------------
(* The strengthening. *)

\* The phases in which a task is at a camera, and those it returns to.
AtCamera == Starting \cup {"check", "stop", "unkey", "pipe"}
Resting  == Phases \ AtCamera

AtInv ==
    \A t \in Tasks: (pc[t] \in AtCamera => on[t] \in Cams) /\ back[t] \in Resting

\* The phases between taking the lock and giving it back, those with a process in
\* hand, and those for which the camera has been cleared.
Locked   == Starting \ {"lock"}
InHand   == {"settle", "pipes", "publish"}
Emptied  == {"clean", "spawn"} \cup InHand

LockInv == \A t \in Tasks: pc[t] \in Locked => lock = t
HeldInv == \A t \in Tasks: held[t] # None => pc[t] \in InHand
CapInv  == \A t \in Tasks: pc[t] \in Emptied => cap[on[t]] = None
OffInv  ==
    \A c \in Cams \ (enabled \cup late):
        cap[c] = None /\ \A t \in Tasks: on[t] = c => pc[t] \notin Starting

CtlInv == LockInv /\ HeldInv /\ CapInv /\ OffInv
IInv   == TypeOK /\ AtInv /\ CtlInv

LEMMA TaskNames == Watch \in Tasks /\ Reshape \in Tasks /\ Clear \in Tasks /\ Users \subseteq Tasks
  BY DEF Tasks

\* The strengthening holds in the first state.
LEMMA InitInv == Init => IInv
  <1> SUFFICES ASSUME Init PROVE IInv
    OBVIOUS
  <1>1. ProcTypes /\ TaskTypes
    BY DEF Init, ProcTypes, TaskTypes, Phases, Starting
  <1>2. TypeOK
    BY <1>1, BoundAssumption DEF Init, TypeOK
  <1>3. AtInv /\ CtlInv
    BY DEF Init, AtInv, CtlInv, LockInv, HeldInv, CapInv, OffInv, AtCamera, Resting, Phases,
           Starting, Locked, InHand, Emptied
  <1> QED
    BY <1>2, <1>3 DEF IInv

-----------------------------------------------------------------------------
(* The steps of a task. *)

\* Going to another phase at the same camera.
LEMMA GoesTypes ==
    ASSUME TaskTypes, AtInv, NEW t \in Tasks, NEW p \in Phases, Goes(t, p), UNCHANGED <<on, back>>,
           p \in AtCamera => on[t] \in Cams
    PROVE  AtInv' /\ pc' \in [Tasks -> Phases]
  BY DEF TaskTypes, AtInv, Goes

\* Going to a camera.
LEMMA TakesTypes ==
    ASSUME TaskTypes, AtInv, NEW t \in Tasks, NEW c \in Cams \cup {None}, NEW p \in Phases,
           NEW b \in Resting, Takes(t, c, p, b), p \in AtCamera => c \in Cams
    PROVE  /\ AtInv' /\ pc' \in [Tasks -> Phases] /\ back' \in [Tasks -> Phases]
           /\ on' \in [Tasks -> Cams \cup {None}]
  BY DEF TaskTypes, AtInv, Takes, Goes, Resting

\* Leaving it.
LEMMA ReturnsTypes ==
    ASSUME TaskTypes, AtInv, NEW t \in Tasks, Returns(t)
    PROVE  /\ AtInv' /\ pc' \in [Tasks -> Phases] /\ back' \in [Tasks -> Phases]
           /\ on' \in [Tasks -> Cams \cup {None}] /\ pc'[t] \in Resting
  <1>1. back[t] \in Resting /\ back[t] \in Phases /\ "idle" \in Resting /\ Resting \subseteq Phases
    BY DEF AtInv, Resting, Phases, AtCamera, Starting
  <1>2. Resting \cap AtCamera = {}
    BY DEF Resting
  <1> QED
    BY <1>1, <1>2 DEF TaskTypes, AtInv, Returns, Goes

\* The entries of the maps.
LEMMA EntryTypes ==
    ASSUME ProcTypes, NEW c \in Cams
    PROVE  /\ NoCap(c) => cap' \in [Cams -> Shapes \cup {None}] /\ capDead' \subseteq Cams
           /\ \A S : NoRec(S) => rec' \in [Cams -> {"copy", "pipe", None}] /\ recDead' \subseteq Cams
           /\ \A r \in {"copy", "pipe"} :
                IsRec(c, r) => rec' \in [Cams -> {"copy", "pipe", None}] /\ recDead' \subseteq Cams
  BY DEF ProcTypes, NoCap, NoRec, IsRec

\* A step that only takes captures away, and moves only tasks that are not starting
\* anything to phases in which they do not either, touches no start.
LEMMA Bystander ==
    ASSUME IInv, UNCHANGED <<lock, held>>,
           \A t \in Tasks: \/ pc'[t] = pc[t] /\ on'[t] = on[t]
                           \/ pc[t] \notin Starting /\ pc'[t] \notin Starting,
           \A c \in Cams: cap'[c] = cap[c] \/ cap'[c] = None,
           \A c \in Cams \ (enabled' \cup late'):
              \/ c \notin enabled \cup late
              \/ cap'[c] = None /\ \A t \in Tasks: on[t] = c => pc[t] \notin Starting
    PROVE  CtlInv'
  <1> USE DEF IInv, CtlInv, Locked, InHand, Emptied, Starting
  <1>1. LockInv'
    BY DEF LockInv
  <1>2. HeldInv'
    BY DEF HeldInv
  <1>3. CapInv'
    BY DEF CapInv, AtInv, AtCamera
  <1>4. OffInv'
    BY DEF OffInv
  <1> QED
    BY <1>1, <1>2, <1>3, <1>4

-----------------------------------------------------------------------------
(* A start, step by step. *)

\* The shape of a capture is one.
LEMMA ShapeTypes == \A c \in Cams: Shape(c) \in Shapes
  BY DEF Shape, Shapes

\* Every phase is one, and none of a start is a place to return to.
LEMMA PhaseNames ==
    /\ Starting \subseteq AtCamera /\ AtCamera \subseteq Phases
    /\ Resting \cap Starting = {} /\ Resting \subseteq Phases
    /\ {"idle", "stale", "next", "usb", "net", "dead", "started"} \subseteq Resting
    /\ {"idle", "stale", "list", "next", "usb", "net", "dead", "started", "captures", "resume",
        "refill"} \subseteq Phases \ AtCamera
    /\ {"check", "stop", "unkey", "pipe"} \subseteq AtCamera \ Starting
  BY DEF Resting, AtCamera, Starting, Phases

\* A start keeps the types.
LEMMA StartTypes ==
    ASSUME IInv, NEW t \in Tasks, Start(t)
    PROVE  TypeOK' /\ AtInv'
  <1> USE DEF IInv, TypeOK, camVars, procVars, recVars, clearVars, histVars
  <1>a. on[t] \in Cams /\ pc[t] \in AtCamera
    BY PhaseNames DEF Start, Check, Lock, Clean, Spawn, Settle, Pipes, Publish, Record, AtInv, AtCamera,
                      Starting
  <1>1. CASE Check(t)
    <2>1. CASE Goes(t, "lock") /\ UNCHANGED <<on, back>>
      BY <1>1, <1>a, <2>1, GoesTypes, PhaseNames DEF Check, ProcTypes, TaskTypes, Starting
    <2>2. CASE Returns(t)
      BY <1>1, <2>2, ReturnsTypes DEF Check, ProcTypes, TaskTypes
    <2> QED
      BY <1>1, <2>1, <2>2 DEF Check
  <1>2. CASE Lock(t)
    <2>1. CASE Returns(t) /\ UNCHANGED <<lock, procVars>>
      BY <1>2, <2>1, ReturnsTypes DEF Lock, ProcTypes, TaskTypes
    <2>2. CASE lock' = t /\ NoCap(on[t]) /\ Goes(t, "clean") /\ UNCHANGED <<key, on, back>>
      <3>1. AtInv' /\ pc' \in [Tasks -> Phases]
        BY <1>a, <2>2, GoesTypes, PhaseNames DEF Starting
      <3>2. cap' \in [Cams -> Shapes \cup {None}] /\ capDead' \subseteq Cams
        BY <1>a, <2>2, EntryTypes
      <3> QED
        BY <1>2, <2>2, <3>1, <3>2 DEF Lock, ProcTypes, TaskTypes
    <2> QED
      BY <1>2, <2>1, <2>2 DEF Lock
  <1>3. CASE Clean(t)
    <2>1. AtInv' /\ pc' \in [Tasks -> Phases]
      BY <1>3, <1>a, GoesTypes, PhaseNames DEF Clean, Starting
    <2>2. ProcTypes'
      BY <1>3, <1>a, EntryTypes DEF Clean, StopRest, ProcTypes
    <2> QED
      BY <1>3, <2>1, <2>2 DEF Clean, TaskTypes
  <1>4. CASE Spawn(t)
    <2>1. AtInv' /\ pc' \in [Tasks -> Phases]
      BY <1>4, <1>a, GoesTypes, PhaseNames DEF Spawn, Starting
    <2>2. held' \in [Tasks -> Shapes \cup {None}]
      BY <1>4, <1>a, ShapeTypes DEF Spawn, TaskTypes
    <2> QED
      BY <1>4, <2>1, <2>2 DEF Spawn, ProcTypes, TaskTypes
  <1>5. CASE Settle(t)
    <2>1. AtInv' /\ pc' \in [Tasks -> Phases]
      BY <1>5, <1>a, GoesTypes, PhaseNames DEF Settle, Starting
    <2> QED
      BY <1>5, <1>a, <2>1, EntryTypes DEF Settle, ProcTypes, TaskTypes
  <1>6. CASE Pipes(t)
    <2>1. AtInv' /\ pc' \in [Tasks -> Phases]
      BY <1>6, <1>a, GoesTypes, PhaseNames DEF Pipes, Starting
    <2> QED
      BY <1>6, <1>a, <2>1, EntryTypes DEF Pipes, PipeOn, ProcTypes, TaskTypes
  <1>7. CASE Publish(t)
    <2>1. AtInv' /\ pc' \in [Tasks -> Phases] /\ back' \in [Tasks -> Phases]
          /\ on' \in [Tasks -> Cams \cup {None}]
      <3>1. CASE Goes(t, "record") /\ UNCHANGED <<lock, on, back>>
        BY <1>a, <3>1, GoesTypes, PhaseNames DEF Starting, TaskTypes
      <3>2. CASE Returns(t)
        BY <3>2, ReturnsTypes
      <3> QED
        BY <1>7, <3>1, <3>2 DEF Publish
    <2>2. cap' \in [Cams -> Shapes \cup {None}] /\ held' \in [Tasks -> Shapes \cup {None}]
      BY <1>7, <1>a DEF Publish, ProcTypes, TaskTypes
    <2>3. ProcTypes' /\ lock' \in Tasks \cup {None}
      BY <1>7, <1>a, <2>2 DEF Publish, ProcTypes, TaskTypes
    <2> QED
      BY <1>7, <2>1, <2>2, <2>3 DEF Publish, TaskTypes
  <1>8. CASE Record(t)
    <2>1. AtInv' /\ pc' \in [Tasks -> Phases] /\ back' \in [Tasks -> Phases]
          /\ on' \in [Tasks -> Cams \cup {None}]
      BY <1>8, ReturnsTypes DEF Record
    <2> QED
      BY <1>8, <1>a, <2>1, EntryTypes DEF Record, ProcTypes, TaskTypes
  <1> QED
    BY <1>1, <1>2, <1>3, <1>4, <1>5, <1>6, <1>7, <1>8 DEF Start

\* Whoever has the lock is alone between taking it and giving it back: nobody else's start
\* is at a process, and no capture but its own camera's changes.
LEMMA StartCtl ==
    ASSUME IInv, NEW t \in Tasks, Start(t)
    PROVE  CtlInv'
  <1> USE DEF IInv, TypeOK, camVars, procVars, recVars, clearVars, histVars
  <1>a. on[t] \in Cams /\ pc \in [Tasks -> Phases] /\ on \in [Tasks -> Cams \cup {None}]
        /\ held \in [Tasks -> Shapes \cup {None}] /\ cap \in [Cams -> Shapes \cup {None}]
    BY PhaseNames DEF Start, Check, Lock, Clean, Spawn, Settle, Pipes, Publish, Record, AtInv, AtCamera,
                      Starting, TaskTypes, ProcTypes
  <1>1. CASE Check(t)
    <2>1. CASE Allowed(on[t]) /\ Goes(t, "lock") /\ UNCHANGED <<on, back>>
      <3>1. LockInv' /\ HeldInv' /\ CapInv'
        BY <1>1, <1>a, <2>1 DEF Check, Goes, CtlInv, LockInv, HeldInv, CapInv, Locked, InHand, Emptied,
                                Starting
      <3>2. OffInv'
        BY <1>1, <1>a, <2>1 DEF Check, Goes, Allowed, CtlInv, OffInv
      <3> QED
        BY <3>1, <3>2 DEF CtlInv
    <2>2. CASE Returns(t)
      <3>1. pc'[t] \notin Starting /\ pc[t] \notin Starting
        BY <1>1, <2>2, ReturnsTypes, PhaseNames DEF Check, Starting
      <3>2. \A u \in Tasks \ {t}: pc'[u] = pc[u] /\ on'[u] = on[u]
        BY <1>a, <2>2 DEF Returns, Goes
      <3> QED
        BY <1>1, <3>1, <3>2, Bystander DEF Check
    <2> QED
      BY <1>1, <2>1, <2>2 DEF Check
  <1>2. CASE Lock(t)
    <2>1. CASE Returns(t) /\ UNCHANGED <<lock, procVars>>
      <3>1. pc'[t] \notin Starting /\ \A u \in Tasks \ {t}: pc'[u] = pc[u] /\ on'[u] = on[u]
        BY <1>a, <2>1, ReturnsTypes, PhaseNames DEF Returns, Goes
      <3>2. LockInv' /\ HeldInv' /\ CapInv'
        BY <1>2, <1>a, <2>1, <3>1 DEF Lock, CtlInv, LockInv, HeldInv, CapInv, Locked, InHand, Emptied,
                                      Starting
      <3>3. OffInv'
        BY <1>2, <1>a, <2>1, <3>1 DEF Lock, CtlInv, OffInv
      <3> QED
        BY <3>2, <3>3 DEF CtlInv
    <2>2. CASE lock' = t /\ NoCap(on[t]) /\ Goes(t, "clean") /\ UNCHANGED <<key, on, back>>
      <3>1. LockInv' /\ HeldInv' /\ CapInv'
        BY <1>2, <1>a, <2>2, TaskAssumption
           DEF Lock, Free, NoCap, Goes, CtlInv, LockInv, HeldInv, CapInv, Locked, InHand, Emptied,
               Starting, Tasks
      <3>2. OffInv'
        BY <1>2, <1>a, <2>2 DEF Lock, NoCap, Goes, CtlInv, OffInv, Starting
      <3> QED
        BY <3>1, <3>2 DEF CtlInv
    <2> QED
      BY <1>2, <2>1, <2>2 DEF Lock
  <1>3. CASE Clean(t) \/ Spawn(t) \/ Settle(t) \/ Pipes(t)
    <2>1. /\ pc[t] \in Emptied /\ pc'[t] \in Emptied
          /\ \A u \in Tasks \ {t}: pc'[u] = pc[u] /\ held'[u] = held[u]
          /\ UNCHANGED <<cap, lock, on, enabled, late>>
      BY <1>3, <1>a DEF Clean, Spawn, Settle, Pipes, Goes, Emptied, InHand
    <2>2. held'[t] # None => pc'[t] \in InHand
      BY <1>3, <1>a DEF Clean, Spawn, Settle, Pipes, Goes, InHand, CtlInv, HeldInv
    <2>3. LockInv' /\ HeldInv' /\ CapInv'
      BY <1>a, <2>1, <2>2 DEF CtlInv, LockInv, HeldInv, CapInv, Locked, InHand, Emptied, Starting
    <2>4. OffInv'
      BY <1>a, <2>1 DEF CtlInv, OffInv, Emptied, InHand, Starting
    <2> QED
      BY <2>3, <2>4 DEF CtlInv
  <1>4. CASE Publish(t)
    <2>1. /\ lock = t /\ held'[t] = None /\ pc'[t] \notin Emptied
          /\ pc[t] \in Starting /\ on[t] \in enabled \cup late
      BY <1>4, <1>a, ReturnsTypes, PhaseNames
         DEF Publish, Goes, CtlInv, LockInv, OffInv, Locked, Starting, Emptied, InHand
    <2>2. pc'[t] \in Locked => lock' = t
      BY <1>4, <1>a, <2>1, ReturnsTypes, PhaseNames DEF Publish, Locked
    <2>3. \A u \in Tasks \ {t}: /\ pc[u] \notin Locked
                                /\ pc'[u] = pc[u] /\ on'[u] = on[u] /\ held'[u] = held[u]
      BY <1>4, <1>a, <2>1 DEF Publish, Goes, Returns, CtlInv, LockInv
    <2>4. pc'[t] \in Starting => on'[t] = on[t]
      BY <1>4, <1>a, ReturnsTypes, PhaseNames DEF Publish
    <2>5. LockInv' /\ HeldInv' /\ CapInv'
      BY <2>1, <2>2, <2>3 DEF CtlInv, LockInv, HeldInv, CapInv, Locked, InHand, Emptied, Starting
    <2>6. OffInv'
      BY <1>4, <1>a, <2>1, <2>3, <2>4 DEF Publish, CtlInv, OffInv
    <2> QED
      BY <2>5, <2>6 DEF CtlInv
  <1>5. CASE Record(t)
    <2>1. /\ lock = t /\ pc'[t] \notin Starting /\ held' = held /\ held[t] = None
          /\ \A u \in Tasks \ {t}: pc[u] \notin Locked /\ pc'[u] = pc[u] /\ on'[u] = on[u]
      BY <1>5, <1>a, ReturnsTypes, PhaseNames
         DEF Record, Returns, Goes, CtlInv, LockInv, HeldInv, Locked, Starting, InHand
    <2>2. LockInv' /\ HeldInv' /\ CapInv'
      BY <2>1 DEF CtlInv, LockInv, HeldInv, CapInv, Locked, InHand, Emptied, Starting
    <2>3. OffInv'
      BY <1>5, <2>1 DEF Record, CtlInv, OffInv
    <2> QED
      BY <2>2, <2>3 DEF CtlInv
  <1> QED
    BY <1>1, <1>2, <1>3, <1>4, <1>5 DEF Start

-----------------------------------------------------------------------------
(* Everything else that tasks do is no step of a start. *)

\* The rest of a stop, the user's or the watchdog's.
LEMMA StopInv ==
    ASSUME IInv, NEW t \in Tasks, Stop(t)
    PROVE  IInv'
  <1> USE DEF IInv, TypeOK, camVars, procVars, recVars, clearVars, histVars
  <1>a. /\ pc \in [Tasks -> Phases] /\ TaskTypes /\ ProcTypes /\ on[t] \in Cams
    BY PhaseNames DEF Stop, AtInv, TaskTypes, ProcTypes
  <1>1. /\ AtInv' /\ pc' \in [Tasks -> Phases] /\ back' \in [Tasks -> Phases]
        /\ on' \in [Tasks -> Cams \cup {None}] /\ pc'[t] \notin Starting
        /\ \A u \in Tasks \ {t}: pc'[u] = pc[u] /\ on'[u] = on[u]
    <2>1. CASE Goes(t, "check") /\ UNCHANGED <<on, back>>
      BY <1>a, <2>1, GoesTypes, PhaseNames DEF Goes, TaskTypes
    <2>2. CASE Returns(t)
      BY <1>a, <2>2, ReturnsTypes, PhaseNames DEF Returns, Goes, TaskTypes
    <2> QED
      BY <2>1, <2>2 DEF Stop
  <1>2. CtlInv'
    BY <1>a, <1>1, Bystander, PhaseNames DEF Stop
  <1>3. ProcTypes'
    BY <1>a, EntryTypes DEF Stop, StopRest, ProcTypes
  <1> QED
    BY <1>a, <1>1, <1>2, <1>3 DEF Stop, TaskTypes

\* The user's commands.
LEMMA CommandInv ==
    ASSUME IInv, Commands
    PROVE  IInv'
  <1> USE DEF IInv, TypeOK, camVars, procVars, recVars, clearVars, histVars, Command
  <1>a. /\ pc \in [Tasks -> Phases] /\ on \in [Tasks -> Cams \cup {None}] /\ TaskTypes
        /\ cap \in [Cams -> Shapes \cup {None}] /\ ProcTypes
        /\ commands < MaxCommands /\ commands \in Nat => commands + 1 \in 0..MaxCommands
    BY BoundAssumption DEF TaskTypes, ProcTypes
  <1>1. ASSUME NEW u \in Users, NEW c \in Cams, UserStart(u, c) PROVE IInv'
    <2>1. /\ AtInv' /\ pc' \in [Tasks -> Phases] /\ back' \in [Tasks -> Phases]
          /\ on' \in [Tasks -> Cams \cup {None}]
      BY <1>1, TakesTypes, PhaseNames, TaskNames DEF UserStart
    <2>2. CtlInv'
      BY <1>1, <1>a, Bystander, PhaseNames DEF UserStart, Takes, Goes
    <2> QED
      BY <1>1, <1>a, <2>1, <2>2 DEF UserStart, ProcTypes, TaskTypes
  <1>2. ASSUME NEW u \in Users, NEW c \in Cams, UserStop(u, c) PROVE IInv'
    <2>1. /\ AtInv' /\ pc' \in [Tasks -> Phases] /\ back' \in [Tasks -> Phases]
          /\ on' \in [Tasks -> Cams \cup {None}]
      BY <1>2, TakesTypes, PhaseNames, TaskNames DEF UserStop
    <2>2. CtlInv'
      BY <1>2, <1>a, Bystander, PhaseNames DEF UserStop, Takes, Goes, NoCap
    <2> QED
      BY <1>2, <1>a, <2>1, <2>2, EntryTypes DEF UserStop, ProcTypes, TaskTypes
  <1>3. ASSUME NEW u \in Users, NEW c \in Cams, Remove(u, c) PROVE IInv'
    <2>1. /\ AtInv' /\ pc' \in [Tasks -> Phases] /\ back' \in [Tasks -> Phases]
          /\ on' \in [Tasks -> Cams \cup {None}]
      BY <1>3, TakesTypes, PhaseNames, TaskNames DEF Remove
    <2>2. \A d \in Cams \ (enabled' \cup late'):
             \/ d \notin enabled \cup late
             \/ cap'[d] = None /\ \A t \in Tasks: on[t] = d => pc[t] \notin Starting
      BY <1>3, <1>a DEF Remove, NoCap
    <2>3. CtlInv'
      BY <1>3, <1>a, <2>2, Bystander, PhaseNames DEF Remove, Takes, Goes, NoCap
    <2> QED
      BY <1>3, <1>a, <2>1, <2>3, EntryTypes DEF Remove, ProcTypes, TaskTypes
  <1>4. ASSUME NEW u \in Users, NEW c \in Cams, Add(u, c) PROVE IInv'
    <2>1. /\ AtInv' /\ pc' \in [Tasks -> Phases] /\ back' \in [Tasks -> Phases]
          /\ on' \in [Tasks -> Cams \cup {None}]
      BY <1>4, TakesTypes, PhaseNames, TaskNames DEF Add
    <2>2. CtlInv'
      BY <1>4, <1>a, Bystander, PhaseNames DEF Add, Takes, Goes
    <2> QED
      BY <1>4, <1>a, <2>1, <2>2 DEF Add, ProcTypes, TaskTypes
  <1>5. ASSUME NEW c \in Cams, Anonymize(c) PROVE IInv'
    <2>1. AtInv' /\ pc' \in [Tasks -> Phases]
      BY <1>5, GoesTypes, PhaseNames, TaskNames DEF Anonymize
    <2>2. CtlInv'
      BY <1>5, <1>a, Bystander, PhaseNames, TaskNames DEF Anonymize, Goes
    <2> QED
      BY <1>5, <1>a, <2>1, <2>2 DEF Anonymize, Usb, ProcTypes, TaskTypes
  <1>6. CASE ClearBegins
    <2>1. AtInv' /\ pc' \in [Tasks -> Phases]
      BY <1>6, GoesTypes, PhaseNames, TaskNames DEF ClearBegins
    <2>2. CtlInv'
      BY <1>6, <1>a, Bystander, PhaseNames, TaskNames DEF ClearBegins, Goes
    <2> QED
      BY <1>6, <1>a, <2>1, <2>2 DEF ClearBegins, NoRec, ProcTypes, TaskTypes
  <1> QED
    BY <1>1, <1>2, <1>3, <1>4, <1>5, <1>6 DEF Commands

\* What a user's command goes on with.
LEMMA UserInv ==
    ASSUME IInv, NEW u \in Users, UserSteps(u)
    PROVE  IInv'
  <1> USE DEF IInv, TypeOK, camVars, procVars, recVars, clearVars, histVars
  <1>a. /\ pc \in [Tasks -> Phases] /\ on \in [Tasks -> Cams \cup {None}] /\ TaskTypes
        /\ cap \in [Cams -> Shapes \cup {None}] /\ ProcTypes /\ u \in Tasks
    BY TaskNames DEF TaskTypes, ProcTypes
  <1>1. CASE Start(u)
    BY <1>1, <1>a, StartTypes, StartCtl
  <1>2. CASE Stop(u)
    BY <1>2, <1>a, StopInv
  <1>3. CASE Stale(u)
    <2>1. AtInv' /\ pc' \in [Tasks -> Phases]
      BY <1>3, <1>a, PhaseNames, TaskNames DEF Stale, Goes, AtInv
    <2>2. \A t \in Tasks \ {u, Reshape}: pc'[t] = pc[t]
      BY <1>3, <1>a, TaskNames DEF Stale, Goes
    <2>3. pc[u] \notin Starting /\ pc'[u] \notin Starting
      BY <1>3, <1>a, PhaseNames, TaskNames, TaskAssumption DEF Stale, Goes
    <2>4. \/ pc'[Reshape] = pc[Reshape]
          \/ pc[Reshape] \notin Starting /\ pc'[Reshape] \notin Starting
      BY <1>3, <1>a, <2>3, PhaseNames, TaskNames DEF Stale, Goes
    <2>5. \A t \in Tasks: \/ pc'[t] = pc[t] /\ on'[t] = on[t]
                          \/ pc[t] \notin Starting /\ pc'[t] \notin Starting
      BY <1>3, <2>2, <2>3, <2>4 DEF Stale
    <2>6. CtlInv'
      BY <1>3, <2>5, Bystander DEF Stale
    <2> QED
      BY <1>3, <1>a, <2>1, <2>6 DEF Stale, ProcTypes, TaskTypes
  <1> QED
    BY <1>1, <1>2, <1>3 DEF UserSteps

\* Re-shaping the captures.
LEMMA ReshapeInv ==
    ASSUME IInv, ReshapeSteps
    PROVE  IInv'
  <1> USE DEF IInv, TypeOK, camVars, procVars, recVars, clearVars, histVars
  <1>a. /\ pc \in [Tasks -> Phases] /\ on \in [Tasks -> Cams \cup {None}] /\ TaskTypes
        /\ cap \in [Cams -> Shapes \cup {None}] /\ ProcTypes /\ Reshape \in Tasks
    BY TaskNames DEF TaskTypes, ProcTypes
  <1>1. CASE Start(Reshape)
    BY <1>1, <1>a, StartTypes, StartCtl
  <1>2. CASE List(Reshape)
    <2>1. AtInv' /\ pc' \in [Tasks -> Phases]
      BY <1>2, <1>a, GoesTypes, PhaseNames, TaskNames DEF List, TaskTypes
    <2>2. CtlInv'
      BY <1>2, <1>a, Bystander, PhaseNames, TaskNames DEF List, Goes, Usb
    <2> QED
      BY <1>2, <1>a, <2>1, <2>2, EntryTypes, TaskNames DEF List, Usb, ProcTypes, TaskTypes
  <1>3. ASSUME NEW c \in Cams, ReshapeNext(c) PROVE IInv'
    <2>1. /\ AtInv' /\ pc' \in [Tasks -> Phases] /\ back' \in [Tasks -> Phases]
          /\ on' \in [Tasks -> Cams \cup {None}]
      BY <1>3, TakesTypes, PhaseNames, TaskNames DEF ReshapeNext
    <2>2. CtlInv'
      BY <1>3, <1>a, Bystander, PhaseNames, TaskNames DEF ReshapeNext, Takes, Goes, NoCap
    <2> QED
      BY <1>3, <1>a, <2>1, <2>2, EntryTypes, TaskNames DEF ReshapeNext, NoCap, ProcTypes, TaskTypes
  <1>4. CASE ReshapeUnkey
    <2>1. AtInv' /\ pc' \in [Tasks -> Phases]
      BY <1>4, <1>a, GoesTypes, PhaseNames, TaskNames DEF ReshapeUnkey, TaskTypes, AtInv, AtCamera
    <2>2. CtlInv'
      BY <1>4, <1>a, Bystander, PhaseNames, TaskNames DEF ReshapeUnkey, Goes, NoRec
    <2> QED
      BY <1>4, <1>a, <2>1, <2>2, EntryTypes, TaskNames DEF ReshapeUnkey, NoRec, ProcTypes, TaskTypes
  <1>5. CASE Done(Reshape)
    <2>1. AtInv' /\ pc' \in [Tasks -> Phases]
      BY <1>5, <1>a, GoesTypes, PhaseNames, TaskNames DEF Done, TaskTypes
    <2>2. CtlInv'
      BY <1>5, <1>a, Bystander, PhaseNames, TaskNames DEF Done, Goes
    <2> QED
      BY <1>5, <1>a, <2>1, <2>2, EntryTypes, TaskNames DEF Done, ProcTypes, TaskTypes
  <1> QED
    BY <1>1, <1>2, <1>3, <1>4, <1>5 DEF ReshapeSteps

\* Deleting footage.
LEMMA ClearInv ==
    ASSUME IInv, ClearSteps
    PROVE  IInv'
  <1> USE DEF IInv, TypeOK, camVars, procVars, recVars, clearVars, histVars
  <1>a. /\ pc \in [Tasks -> Phases] /\ on \in [Tasks -> Cams \cup {None}] /\ TaskTypes
        /\ cap \in [Cams -> Shapes \cup {None}] /\ ProcTypes /\ Clear \in Tasks
    BY TaskNames DEF TaskTypes, ProcTypes
  <1>1. CASE Start(Clear)
    BY <1>1, <1>a, StartTypes, StartCtl
  <1>2. CASE ClearCaptures
    <2>1. AtInv' /\ pc' \in [Tasks -> Phases]
      BY <1>2, <1>a, GoesTypes, PhaseNames, TaskNames DEF ClearCaptures, TaskTypes
    <2>2. CtlInv'
      BY <1>2, <1>a, Bystander, PhaseNames, TaskNames DEF ClearCaptures, Goes, Usb
    <2> QED
      BY <1>2, <1>a, <2>1, <2>2, EntryTypes, TaskNames DEF ClearCaptures, Usb, ProcTypes, TaskTypes
  <1>3. CASE Resume
    <2>1. AtInv' /\ pc' \in [Tasks -> Phases]
      BY <1>3, <1>a, GoesTypes, PhaseNames, TaskNames DEF Resume, TaskTypes
    <2>2. CtlInv'
      BY <1>3, <1>a, Bystander, PhaseNames, TaskNames DEF Resume, Goes
    <2> QED
      BY <1>3, <1>a, <2>1, <2>2, EntryTypes, TaskNames DEF Resume, ProcTypes, TaskTypes
  <1>4. ASSUME NEW c \in Cams, ClearNext(c) PROVE IInv'
    <2>1. /\ AtInv' /\ pc' \in [Tasks -> Phases] /\ back' \in [Tasks -> Phases]
          /\ on' \in [Tasks -> Cams \cup {None}]
      BY <1>4, TakesTypes, PhaseNames, TaskNames DEF ClearNext
    <2>2. CtlInv'
      BY <1>4, <1>a, Bystander, PhaseNames, TaskNames DEF ClearNext, Takes, Goes
    <2> QED
      BY <1>4, <1>a, <2>1, <2>2, EntryTypes, TaskNames DEF ClearNext, ProcTypes, TaskTypes
  <1>5. ASSUME NEW c \in Cams, Refill(c) PROVE IInv'
    <2>1. AtInv' /\ CtlInv'
      BY <1>5, <1>a, Bystander DEF Refill, taskVars, AtInv
    <2> QED
      BY <1>5, <1>a, <2>1, EntryTypes DEF Refill, PipeOn, taskVars, ProcTypes, TaskTypes
  <1>6. CASE Done(Clear)
    <2>1. AtInv' /\ pc' \in [Tasks -> Phases]
      BY <1>6, <1>a, GoesTypes, PhaseNames, TaskNames DEF Done, TaskTypes
    <2>2. CtlInv'
      BY <1>6, <1>a, Bystander, PhaseNames, TaskNames DEF Done, Goes
    <2> QED
      BY <1>6, <1>a, <2>1, <2>2, EntryTypes, TaskNames DEF Done, ProcTypes, TaskTypes
  <1> QED
    BY <1>1, <1>2, <1>3, <1>4, <1>5, <1>6 DEF ClearSteps

\* The watchdog.
LEMMA WatchInv ==
    ASSUME IInv, WatchSteps
    PROVE  IInv'
  <1> USE DEF IInv, TypeOK, camVars, procVars, recVars, clearVars, histVars
  <1>a. /\ pc \in [Tasks -> Phases] /\ on \in [Tasks -> Cams \cup {None}] /\ TaskTypes
        /\ cap \in [Cams -> Shapes \cup {None}] /\ ProcTypes /\ Watch \in Tasks
    BY TaskNames DEF TaskTypes, ProcTypes
  <1>1. CASE Start(Watch)
    BY <1>1, <1>a, StartTypes, StartCtl
  <1>2. CASE Stop(Watch)
    BY <1>2, <1>a, StopInv
  <1>3. CASE Tick
    <2>1. AtInv' /\ pc' \in [Tasks -> Phases]
      BY <1>3, <1>a, GoesTypes, PhaseNames, TaskNames DEF Tick, Looks, TaskTypes
    <2>2. CtlInv'
      BY <1>3, <1>a, Bystander, PhaseNames, TaskNames DEF Tick, Looks, Goes, Usb
    <2> QED
      BY <1>3, <1>a, <2>1, <2>2, EntryTypes, TaskNames DEF Tick, Looks, Usb, ProcTypes, TaskTypes
  <1>4. CASE WatchNet
    <2>1. AtInv' /\ pc' \in [Tasks -> Phases]
      BY <1>4, <1>a, GoesTypes, PhaseNames, TaskNames DEF WatchNet, Looks, TaskTypes
    <2>2. CtlInv'
      BY <1>4, <1>a, Bystander, PhaseNames, TaskNames DEF WatchNet, Looks, Goes, Usb
    <2> QED
      BY <1>4, <1>a, <2>1, <2>2, EntryTypes, TaskNames DEF WatchNet, Looks, Usb, ProcTypes, TaskTypes
  <1>5. CASE WatchDead
    <2>1. AtInv' /\ pc' \in [Tasks -> Phases]
      BY <1>5, <1>a, GoesTypes, PhaseNames, TaskNames DEF WatchDead, Looks, TaskTypes
    <2>2. CtlInv'
      BY <1>5, <1>a, Bystander, PhaseNames, TaskNames DEF WatchDead, Looks, Goes, Usb, NoRec
    <2> QED
      BY <1>5, <1>a, <2>1, <2>2, EntryTypes, TaskNames DEF WatchDead, Looks, Usb, NoRec, ProcTypes, TaskTypes
  <1>6. CASE WatchStarted
    <2>1. AtInv' /\ pc' \in [Tasks -> Phases]
      BY <1>6, <1>a, GoesTypes, PhaseNames, TaskNames DEF WatchStarted, Looks, TaskTypes
    <2>2. CtlInv'
      BY <1>6, <1>a, Bystander, PhaseNames, TaskNames DEF WatchStarted, Looks, Goes, Usb
    <2> QED
      BY <1>6, <1>a, <2>1, <2>2, EntryTypes, TaskNames DEF WatchStarted, Looks, Usb, ProcTypes, TaskTypes
  <1>7. CASE TickEnds
    <2>1. AtInv' /\ pc' \in [Tasks -> Phases]
      BY <1>7, <1>a, GoesTypes, PhaseNames, TaskNames DEF TickEnds, TaskTypes
    <2>2. CtlInv'
      BY <1>7, <1>a, Bystander, PhaseNames, TaskNames DEF TickEnds, Goes
    <2> QED
      BY <1>7, <1>a, <2>1, <2>2, EntryTypes, TaskNames DEF TickEnds, ProcTypes, TaskTypes
  <1>8. CASE WatchUnkey
    <2>1. AtInv' /\ pc' \in [Tasks -> Phases]
      BY <1>8, <1>a, GoesTypes, PhaseNames, TaskNames DEF WatchUnkey, TaskTypes, AtInv, AtCamera
    <2>2. CtlInv'
      BY <1>8, <1>a, Bystander, PhaseNames, TaskNames DEF WatchUnkey, Goes
    <2> QED
      BY <1>8, <1>a, <2>1, <2>2, EntryTypes, TaskNames DEF WatchUnkey, ProcTypes, TaskTypes
  <1>9. CASE Pipe
    <2>1. /\ on[Watch] \in Cams /\ pc[Watch] \notin Starting
      BY <1>9, PhaseNames, TaskNames DEF Pipe, AtInv
    <2>2. /\ AtInv' /\ pc' \in [Tasks -> Phases] /\ back' \in [Tasks -> Phases]
          /\ on' \in [Tasks -> Cams \cup {None}] /\ pc'[Watch] \notin Starting
      BY <1>9, ReturnsTypes, PhaseNames, TaskNames DEF Pipe
    <2>3. CtlInv'
      BY <1>9, <1>a, <2>1, <2>2, Bystander DEF Pipe, Returns, Goes
    <2> QED
      BY <1>9, <1>a, <2>1, <2>2, <2>3, EntryTypes DEF Pipe, PipeOn, ProcTypes, TaskTypes
  <1>10. ASSUME NEW c \in Cams, WatchRepipe(c) PROVE IInv'
    <2>1. /\ AtInv' /\ pc' \in [Tasks -> Phases] /\ back' \in [Tasks -> Phases]
          /\ on' \in [Tasks -> Cams \cup {None}]
      BY <1>10, TakesTypes, PhaseNames, TaskNames DEF WatchRepipe
    <2>2. CtlInv'
      BY <1>10, <1>a, Bystander, PhaseNames, TaskNames DEF WatchRepipe, Takes, Goes, Seen
    <2> QED
      BY <1>10, <1>a, <2>1, <2>2, EntryTypes, TaskNames DEF WatchRepipe, Seen, ProcTypes, TaskTypes
  <1>11. ASSUME NEW c \in Cams, NEW bad \in BOOLEAN, Verdict(c, bad) PROVE IInv'
    <2>1. /\ AtInv' /\ pc' \in [Tasks -> Phases] /\ back' \in [Tasks -> Phases]
          /\ on' \in [Tasks -> Cams \cup {None}]
      <3>1. CASE UNCHANGED <<pc, on, back>>
        BY <1>a, <3>1 DEF AtInv, TaskTypes
      <3>2. CASE Takes(Watch, c, IF pc[Watch] = "usb" THEN "unkey" ELSE "stop", pc[Watch])
        BY <1>11, <3>2, TakesTypes, PhaseNames, TaskNames DEF Verdict
      <3> QED
        BY <1>11, <3>1, <3>2 DEF Verdict
    <2>2. cap' \in [Cams -> Shapes \cup {None}] /\ capDead' \subseteq Cams
      BY <1>11, <1>a, EntryTypes DEF Verdict, ProcTypes
    <2>3. todo' \in [Tasks -> SUBSET Cams]
      BY <1>11, <1>a DEF Verdict, Seen, TaskTypes
    <2>4. faults' \in 0..MaxFaults
      BY <1>11, BoundAssumption DEF Verdict, Stalled, Fault
    <2>5. /\ pc[Watch] \notin Starting /\ pc'[Watch] \notin Starting
          /\ \A t \in Tasks \ {Watch}: pc'[t] = pc[t] /\ on'[t] = on[t]
          /\ \A d \in Cams: cap'[d] = cap[d] \/ cap'[d] = None
      BY <1>11, <1>a, PhaseNames, TaskNames DEF Verdict, Takes, Goes, NoCap, Starting
    <2>6. CtlInv'
      BY <1>11, <2>5, Bystander DEF Verdict
    <2> QED
      BY <1>11, <1>a, <2>1, <2>2, <2>3, <2>4, <2>6 DEF Verdict, ProcTypes, TaskTypes
  <1>12. ASSUME NEW c \in Cams, NEW bad \in BOOLEAN, StartedVerdict(c, bad) PROVE IInv'
    <2>1. /\ AtInv' /\ pc' \in [Tasks -> Phases] /\ back' \in [Tasks -> Phases]
          /\ on' \in [Tasks -> Cams \cup {None}]
      <3>1. CASE UNCHANGED <<pc, on, back>>
        BY <1>a, <3>1 DEF AtInv, TaskTypes
      <3>2. CASE Takes(Watch, c, "pipe", "started")
        BY <1>12, <3>2, TakesTypes, PhaseNames, TaskNames DEF StartedVerdict
      <3> QED
        BY <1>12, <3>1, <3>2 DEF StartedVerdict
    <2>2. rec' \in [Cams -> {"copy", "pipe", None}] /\ recDead' \subseteq Cams /\ tx' \subseteq Cams
      BY <1>12, <1>a, EntryTypes DEF StartedVerdict, ProcTypes
    <2>3. todo' \in [Tasks -> SUBSET Cams]
      BY <1>12, <1>a DEF StartedVerdict, Seen, TaskTypes
    <2>4. faults' \in 0..MaxFaults
      BY <1>12, BoundAssumption DEF StartedVerdict, Stalled, Fault
    <2>5. /\ pc[Watch] \notin Starting /\ pc'[Watch] \notin Starting
          /\ \A t \in Tasks \ {Watch}: pc'[t] = pc[t] /\ on'[t] = on[t]
      BY <1>12, <1>a, PhaseNames, TaskNames DEF StartedVerdict, Takes, Goes, Starting
    <2>6. CtlInv'
      BY <1>12, <2>5, Bystander DEF StartedVerdict
    <2> QED
      BY <1>12, <1>a, <2>1, <2>2, <2>3, <2>4, <2>6 DEF StartedVerdict, ProcTypes, TaskTypes
  <1> QED
    BY <1>1, <1>2, <1>3, <1>4, <1>5, <1>6, <1>7, <1>8, <1>9, <1>10, <1>11, <1>12 DEF WatchSteps

\* Every step keeps the strengthening.
LEMMA NextInv == IInv /\ [Next]_vars => IInv'
  <1> SUFFICES ASSUME IInv, [Next]_vars PROVE IInv'
    OBVIOUS
  <1>1. ASSUME NEW c \in Cams, CapDies(c) \/ RecDies(c) PROVE IInv'
    <2>1. UNCHANGED <<taskVars, enabled, late, cap, rec, camVars, clearVars, wanted, commands, key, tx>>
          /\ capDead' \subseteq Cams /\ recDead' \subseteq Cams
      BY <1>1 DEF CapDies, RecDies, camVars, procVars, recVars, IInv, TypeOK, ProcTypes
    <2>2. faults' \in 0..MaxFaults
      BY <1>1, BoundAssumption DEF CapDies, RecDies, Fault, IInv, TypeOK
    <2>3. AtInv' /\ CtlInv'
      BY <2>1, Bystander DEF taskVars, AtInv, IInv
    <2> QED
      BY <2>1, <2>2, <2>3 DEF IInv, TypeOK, ProcTypes, TaskTypes, taskVars, camVars, clearVars
  <1>2. CASE UNCHANGED vars
    BY <1>2 DEF vars, camVars, procVars, recVars, taskVars, clearVars, histVars, IInv, TypeOK, AtInv,
                CtlInv, LockInv, HeldInv, CapInv, OffInv, ProcTypes, TaskTypes
  <1> QED
    BY <1>1, <1>2, CommandInv, UserInv, ReshapeInv, ClearInv, WatchInv DEF Next

\* The strengthening holds throughout.
THEOREM Strengthened == Spec => []IInv
  BY InitInv, NextInv, PTL DEF Spec

-----------------------------------------------------------------------------
(* What it gives. *)

\* Every variable keeps its type, whoever commands, dies or stalls.
THEOREM TypeCorrect == Spec => []TypeOK
  <1>1. IInv => TypeOK
    BY DEF IInv
  <1> QED
    BY <1>1, Strengthened, PTL

\* start_usb_capture and start_rtsp_relay: the lock leaves one process to a camera, for
\* any number of callers.
THEOREM OneProcess == Spec => []OneCapture
  <1>1. IInv => OneCapture
    <2> SUFFICES ASSUME IInv, NEW c \in Cams
                 PROVE  LET spawned == {t \in Tasks : on[t] = c /\ held[t] # None}
                        IN  Cardinality(spawned) <= 1 /\ (spawned # {} => cap[c] = None)
      BY DEF OneCapture
    <2> DEFINE spawned == {t \in Tasks : on[t] = c /\ held[t] # None}
    <2>1. \A t \in spawned: pc[t] \in Locked /\ lock = t /\ cap[c] = None
      BY DEF IInv, CtlInv, LockInv, HeldInv, CapInv, InHand, Emptied, Locked, Starting
    <2>2. spawned = {} \/ spawned = {lock}
      BY <2>1
    <2>3. Cardinality(spawned) <= 1
      <3>1. CASE spawned = {}
        BY <3>1, FS_EmptySet
      <3>2. CASE spawned = {lock}
        <4>1. Cardinality({lock}) = 1
          BY FS_Singleton
        <4> QED
          BY <3>2, <4>1
      <3> QED
        BY <2>2, <3>1, <3>2
    <2>4. spawned # {} => cap[c] = None
      BY <2>1
    <2> HIDE DEF spawned
    <2> QED
      BY <2>3, <2>4 DEF spawned
  <1> QED
    BY <1>1, Strengthened, PTL

\* camera_start_allowed: once a removal has stopped a camera it stays off, whoever asks,
\* unless a start was past its check.
THEOREM RemovedOff == Spec => []RemovedStaysOff
  <1>1. IInv => RemovedStaysOff
    BY DEF IInv, CtlInv, OffInv, HeldInv, RemovedStaysOff, InHand, Starting
  <1> QED
    BY <1>1, Strengthened, PTL
=============================================================================
