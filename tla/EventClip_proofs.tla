-------------------------- MODULE EventClip_proofs --------------------------
(***************************************************************************)
(* Proofs about EventClip, for any number of requests and of segments.     *)
(***************************************************************************)
EXTENDS EventClip, TLAPS

USE DEF history

-----------------------------------------------------------------------------
(* Type correctness. *)

\* A request that leaves keeps the types of the requests.
LEMMA LeavesTypes ==
    ASSUME RequestTypes, NEW c \in Callers, Leaves(c), UNCHANGED temp
    PROVE  RequestTypes'
  BY RunAssumption DEF RequestTypes, Leaves, RequestPhases

\* A request that moves on does too.
LEMMA GoesTypes ==
    ASSUME RequestTypes, NEW c \in Callers, NEW next \in RequestPhases, Goes(c, next),
           UNCHANGED <<gate, aim, growing, temp>>
    PROVE  RequestTypes'
  BY DEF RequestTypes, Goes, RequestPhases

\* Every step of a request keeps the types of the requests.
LEMMA ServeRequestTypes ==
    ASSUME ClipTypes, RequestTypes, NEW c \in Callers, Serve(c)
    PROVE  RequestTypes'
  <1>1. CASE ReadPath(c)
    BY <1>1, GoesTypes DEF ReadPath, RequestPhases
  <1>2. CASE Probe(c)
    BY <1>2, GoesTypes, LeavesTypes DEF Probe, RequestPhases
  <1>3. CASE DropFile(c)
    BY <1>3, GoesTypes DEF DropFile, RequestPhases
  <1>4. CASE ClearPath(c)
    BY <1>4, GoesTypes DEF ClearPath, RequestPhases
  <1>5. CASE Recheck(c)
    BY <1>5, GoesTypes, LeavesTypes DEF Recheck, RequestPhases
  <1>6. CASE Window(c)
    <2>1. Sent(Footage) \in 0..Segments /\ StillGrowing \in BOOLEAN
      BY RunAssumption DEF Footage, StillGrowing, ClipTypes, Sent
    <2>2. CASE Leaves(c)
      BY <1>6, <2>2, LeavesTypes DEF Window
    <2>3. CASE aim' = [aim EXCEPT ![c] = Sent(Footage)] /\ growing' = [growing EXCEPT ![c] = StillGrowing]
               /\ Goes(c, "export") /\ UNCHANGED <<gate, temp>>
      BY <2>1, <2>3, RunAssumption DEF RequestTypes, Goes, RequestPhases
    <2> QED
      BY <1>6, <2>2, <2>3 DEF Window
  <1>7. CASE Export(c)
    BY <1>7 DEF Export, Goes, RequestTypes, RequestPhases
  <1>8. CASE Publish(c)
    BY <1>8 DEF Publish, Goes, RequestTypes, RequestPhases
  <1>9. CASE Measure(c)
    BY <1>9, GoesTypes DEF Measure, RequestPhases
  <1>10. CASE RemoveJunk(c)
    BY <1>10, LeavesTypes DEF RemoveJunk
  <1>11. CASE Cache(c)
    BY <1>11, LeavesTypes DEF Cache
  <1> QED
    BY <1>1, <1>2, <1>3, <1>4, <1>5, <1>6, <1>7, <1>8, <1>9, <1>10, <1>11 DEF Serve

\* And those of the clip.
LEMMA ServeClipTypes ==
    ASSUME ClipTypes, RequestTypes, NEW c \in Callers, Serve(c)
    PROVE  ClipTypes'
  <1> USE RunAssumption DEF ClipTypes, eventVars, clipVars
  <1>1. CASE ReadPath(c) \/ Probe(c) \/ Recheck(c) \/ Window(c) \/ Measure(c)
    BY <1>1 DEF ReadPath, Probe, Recheck, Window, Measure
  <1>6. CASE Export(c)
    <2>1. missed' \in BOOLEAN
      BY <1>6 DEF Export
    <2> QED
      BY <1>6, <2>1 DEF Export
  <1>2. CASE DropFile(c) \/ RemoveJunk(c)
    <2>1. corrupt' \in BOOLEAN /\ file' = 0
      BY <1>2 DEF DropFile, RemoveJunk
    <2> QED
      BY <1>2, <2>1 DEF DropFile, RemoveJunk
  <1>4. CASE ClearPath(c)
    BY <1>4 DEF ClearPath
  <1>5. CASE Cache(c)
    <2>1. path' \in BOOLEAN
      BY <1>5 DEF Cache
    <2> QED
      BY <1>5, <2>1 DEF Cache
  <1>3. CASE Publish(c)
    <2>1. aim[c] \in 0..Segments
      BY DEF RequestTypes
    <2> QED
      BY <1>3, <2>1 DEF Publish
  <1> QED
    BY <1>1, <1>2, <1>3, <1>4, <1>5, <1>6, Serve(c) DEF Serve

\* A command that begins is a command.
LEMMA BeginTypes ==
    ASSUME NEW kind \in {"delete", "range", "history", "purge"}, NEW step \in CommandSteps,
           Begin(kind, step)
    PROVE  CommandTypes'
  <1> DEFINE sees == Exists /\ path
  <1>1. sees \in BOOLEAN
    OBVIOUS
  <1>2. command' = [kind |-> kind, step |-> step, saw |-> sees] /\ kind \in Commands
    BY DEF Begin
  <1> HIDE DEF sees
  <1> QED
    BY <1>1, <1>2 DEF CommandTypes

\* Every step preserves the types.
LEMMA TypeInductive == TypeOK /\ [Next]_vars => TypeOK'
  <1> SUFFICES ASSUME ClipTypes, RequestTypes, CommandTypes, [Next]_vars
               PROVE  ClipTypes' /\ RequestTypes' /\ CommandTypes'
    BY DEF TypeOK
  <1> USE RunAssumption DEF eventVars, clipVars, requestVars
  <1>1. ASSUME NEW c \in Callers, ViewerAsks(c) \/ TakeGate(c)
        PROVE  ClipTypes' /\ RequestTypes' /\ CommandTypes'
    <2>1. ClipTypes'
      BY <1>1 DEF ViewerAsks, TakeGate, ClipTypes
    <2>2. RequestTypes'
      BY <1>1 DEF ViewerAsks, Ask, Goes, TakeGate, FreeGate, RequestTypes, RequestPhases
    <2>3. CommandTypes'
      BY <1>1 DEF ViewerAsks, TakeGate, CommandTypes
    <2> QED
      BY <2>1, <2>2, <2>3
  <1>2. ASSUME NEW c \in Callers, Serve(c)
        PROVE  ClipTypes' /\ RequestTypes' /\ CommandTypes'
    <2>1. UNCHANGED command
      BY <1>2 DEF Serve, ReadPath, Probe, DropFile, ClearPath, Recheck, Window, Export,
                  Publish, Measure, RemoveJunk, Cache
    <2> QED
      BY <1>2, <2>1, ServeClipTypes, ServeRequestTypes DEF CommandTypes
  <1>3. CASE IndexSegment \/ CloseEvent \/ MinutePasses
    <2>1. ClipTypes'
      <3>1. CASE IndexSegment
        BY <3>1 DEF IndexSegment, ClipTypes
      <3>2. CASE CloseEvent
        BY <3>2 DEF CloseEvent, ClipTypes
      <3>3. CASE MinutePasses
        BY <3>3 DEF MinutePasses, ClipTypes
      <3> QED
        BY <1>3, <3>1, <3>2, <3>3
    <2> QED
      BY <1>3, <2>1 DEF IndexSegment, CloseEvent, MinutePasses, RequestTypes, CommandTypes
  <1>4. CASE RetentionStarts \/ RetentionPassesOver \/ FootageCut \/ FootagelessSwept
    <2>1. ClipTypes'
      BY <1>4 DEF RetentionStarts, RetentionPassesOver, FootageCut, FootagelessSwept, ClipTypes
    <2>2. RequestTypes'
      <3>1. CASE Ask(Keeper)
        BY <3>1, GoesTypes DEF Ask, RequestPhases, Callers
      <3>2. CASE UNCHANGED requestVars
        BY <3>2 DEF RequestTypes
      <3> QED
        BY <1>4, <3>1, <3>2 DEF RetentionStarts, RetentionPassesOver, FootageCut, FootagelessSwept
    <2>3. CommandTypes'
      BY <1>4 DEF RetentionStarts, RetentionPassesOver, FootageCut, FootagelessSwept, CommandTypes
    <2> QED
      BY <2>1, <2>2, <2>3
  <1>5. CASE DeleteBegins \/ RangeBegins \/ HistoryBegins \/ PurgeBegins
    <2>1. ClipTypes' /\ RequestTypes'
      BY <1>5 DEF DeleteBegins, RangeBegins, HistoryBegins, PurgeBegins, ClipTypes, RequestTypes
    <2>2. CommandTypes'
      BY <1>5, BeginTypes DEF DeleteBegins, RangeBegins, HistoryBegins, PurgeBegins,
                              CommandSteps
    <2> QED
      BY <2>1, <2>2
  <1>6. CASE DeleteTakesGate
    <2>1. ClipTypes'
      BY <1>6 DEF DeleteTakesGate, ClipTypes
    <2>2. RequestTypes'
      BY <1>6 DEF DeleteTakesGate, FreeGate, RequestTypes
    <2>3. CommandTypes'
      BY <1>6 DEF DeleteTakesGate, Then, CommandTypes, CommandSteps
    <2> QED
      BY <2>1, <2>2, <2>3
  <1>7. CASE Command
    <2>1. ClipTypes'
      <3>1. CASE DeleteRow \/ RangeCutsFootage \/ DropRow
        BY <3>1 DEF DeleteRow, RangeCutsFootage, DropRow, ClipTypes
      <3>2. CASE DeleteRemovesFile \/ UnlinkClip \/ PurgeSweeps
        <4>1. corrupt' \in BOOLEAN
          BY <3>2 DEF DeleteRemovesFile, UnlinkClip, PurgeSweeps
        <4>2. file' \in 0..Segments
          BY <3>2 DEF DeleteRemovesFile, LeftByDelete, UnlinkClip, PurgeSweeps, ClipTypes
        <4> QED
          BY <3>2, <4>1, <4>2 DEF DeleteRemovesFile, UnlinkClip, PurgeSweeps, ClipTypes
      <3> QED
        BY <1>7, <3>1, <3>2 DEF Command
    <2>2. RequestTypes'
      BY <1>7 DEF Command, DeleteRow, DeleteRemovesFile, RangeCutsFootage, UnlinkClip,
                  DropRow, PurgeSweeps, RequestTypes
    <2>3. CommandTypes'
      <3>1. CASE DeleteRow \/ UnlinkClip
        BY <3>1 DEF DeleteRow, UnlinkClip, Then, CommandTypes, CommandSteps
      <3>2. CASE DeleteRemovesFile \/ DropRow \/ PurgeSweeps
        <4>1. command' = NoCommand
          BY <3>2 DEF DeleteRemovesFile, DropRow, PurgeSweeps
        <4> QED
          BY <4>1 DEF NoCommand, CommandTypes, CommandSteps
      <3>3. CASE RangeCutsFootage
        <4> DEFINE sees == Exists /\ path
        <4>1. command' = [command EXCEPT !.step = "unlink", !.saw = sees] /\ sees \in BOOLEAN
          BY <3>3 DEF RangeCutsFootage
        <4> HIDE DEF sees
        <4> QED
          BY <4>1 DEF CommandTypes, CommandSteps
      <3> QED
        BY <1>7, <3>1, <3>2, <3>3 DEF Command
    <2> QED
      BY <2>1, <2>2, <2>3
  <1>8. CASE UNCHANGED vars
    BY <1>8 DEF vars, ClipTypes, RequestTypes, CommandTypes
  <1> QED
    BY <1>1, <1>2, <1>3, <1>4, <1>5, <1>6, <1>7, <1>8 DEF Next

\* The types hold when the system starts.
LEMMA TypeInitial == Init => TypeOK
  <1> SUFFICES ASSUME Init PROVE ClipTypes /\ RequestTypes /\ CommandTypes
    BY DEF TypeOK
  <1>1. ClipTypes
    <2>1. /\ legacy \in BOOLEAN /\ late \in BOOLEAN /\ cut \in BOOLEAN
          /\ path \in BOOLEAN /\ corrupt \in BOOLEAN /\ missed \in BOOLEAN
      BY DEF Init
    <2>2. recorded \in 0..Segments /\ file \in 0..Segments
      BY RunAssumption DEF Init, Sent
    <2> QED
      BY <2>1, <2>2 DEF Init, ClipTypes
  <1>2. RequestTypes
    BY RunAssumption DEF Init, RequestTypes, RequestPhases
  <1>3. CommandTypes
    BY DEF Init, CommandTypes, CommandSteps, NoCommand
  <1> QED
    BY <1>1, <1>2, <1>3

\* Every variable keeps its type, whatever commands are run.
THEOREM TypeCorrect == Spec => []TypeOK
  BY TypeInitial, TypeInductive, PTL DEF Spec

-----------------------------------------------------------------------------
(* The invariant.  It speaks of an event that is still there: the row goes  *)
(* before the files, and what a request does afterwards reaches no reader.  *)

Gated    == {"recheck", "window", "export", "publish", "measure", "junk", "cache"}
Working  == Gated \ {"recheck"}
Building == {"export", "publish", "measure", "cache"}

\* The gate is held by whoever is past it.
GateHeld ==
    /\ \A c \in Callers: phase[c] \in Gated <=> gate = c
    /\ gate = Deleter <=> command.step = "remove"

\* Only delete_events removes files, and the row is gone by then.
RowFollows == command.step \in {"queue", "remove"} => event = "deleted"

\* A remembered clip is readable, and final.
PathSound ==
    /\ ~corrupt
    /\ path => /\ event = "closed" /\ file = Sent(recorded) /\ recorded > 0
               /\ recorded < Segments => late

\* A request past the recheck works because there is no clip, what it makes of a
\* final window is final, and it finds on disk what it published.
RequestSound(c) ==
    /\ phase[c] \in Working => ~path
    /\ phase[c] = "probe" => path
    /\ phase[c] \notin {"drop", "clear"}
    /\ phase[c] \in Building /\ ~growing[c] =>
          /\ event = "closed"
          /\ aim[c] > 0 => aim[c] = Sent(recorded) /\ (recorded < Segments => late)
    /\ phase[c] \in {"publish", "measure", "cache"} => aim[c] > 0
    /\ phase[c] \in {"measure", "cache"} => file = aim[c]

ClipSound ==
    ~legacy /\ Exists => PathSound /\ \A c \in Callers: RequestSound(c)

ClipInv == TypeOK /\ GateHeld /\ RowFollows /\ ClipSound

\* With no other command allowed, deletions are all the commands there are.
LEMMA DeletionsOnly ==
    ASSUME Commands \subseteq {"delete"}, CommandTypes, Next
    PROVE  \/ IndexSegment \/ CloseEvent \/ MinutePasses
           \/ \E c \in Callers: ViewerAsks(c) \/ TakeGate(c) \/ Serve(c)
           \/ RetentionStarts \/ RetentionPassesOver \/ FootageCut \/ FootagelessSwept
           \/ DeleteBegins \/ DeleteRow \/ DeleteTakesGate \/ DeleteRemovesFile
  <1>1. command.kind \in {"delete", "none"}
    BY DEF CommandTypes
  <1>2. ~RangeBegins /\ ~HistoryBegins /\ ~PurgeBegins
    BY DEF RangeBegins, HistoryBegins, PurgeBegins, Begin
  <1>3. ~RangeCutsFootage /\ ~UnlinkClip /\ ~DropRow /\ ~PurgeSweeps
    BY <1>1 DEF RangeCutsFootage, UnlinkClip, DropRow, PurgeSweeps, At
  <1> QED
    BY <1>2, <1>3 DEF Next, Command

\* The gate never has two holders.
LEMMA GateInductive ==
    ASSUME TypeOK, GateHeld, Next, Commands \subseteq {"delete"}
    PROVE  GateHeld'
  <1> USE CallerAssumption DEF requestVars
  <1>1. gate \in Callers \cup {Nobody, Deleter} /\ phase \in [Callers -> RequestPhases]
    BY DEF TypeOK, RequestTypes
  <1>2. Nobody \notin Callers /\ Deleter \notin Callers /\ Nobody # Deleter
    BY DEF Nobody, Deleter
  <1>3. ASSUME NEW c \in Callers, Serve(c)
        PROVE  GateHeld'
    <2>1. CASE UNCHANGED gate /\ \E next \in RequestPhases:
                  Goes(c, next) /\ (next \in Gated <=> phase[c] \in Gated)
      BY <1>1, <1>3, <2>1 DEF Goes, GateHeld, Serve, ReadPath, Probe, DropFile, ClearPath,
             Recheck, Window, Export, Publish, Measure, RemoveJunk, Cache
    <2>2. CASE Leaves(c)
      BY <1>1, <1>2, <1>3, <2>2 DEF Leaves, GateHeld, Gated, Serve, ReadPath, Probe, DropFile,
         ClearPath,
             Recheck, Window, Export, Publish, Measure, RemoveJunk, Cache
    <2>3. \/ UNCHANGED gate /\ \E next \in RequestPhases:
                Goes(c, next) /\ (next \in Gated <=> phase[c] \in Gated)
          \/ Leaves(c)
      <3> USE DEF Gated, RequestPhases
      <3>1. CASE ReadPath(c) \/ Probe(c) \/ DropFile(c) \/ ClearPath(c)
        BY <3>1 DEF ReadPath, Probe, DropFile, ClearPath
      <3>2. CASE Recheck(c) \/ Window(c)
        BY <3>2 DEF Recheck, Window
      <3>3. CASE Export(c) \/ Publish(c) \/ Measure(c)
        BY <3>3 DEF Export, Publish, Measure
      <3>4. CASE RemoveJunk(c) \/ Cache(c)
        BY <3>4 DEF RemoveJunk, Cache
      <3> QED
        BY <1>3, <3>1, <3>2, <3>3, <3>4 DEF Serve
    <2> QED
      BY <2>1, <2>2, <2>3
  <1>4. ASSUME NEW c \in Callers, ViewerAsks(c)
        PROVE  GateHeld'
    BY <1>1, <1>4 DEF ViewerAsks, Ask, Goes, GateHeld, Gated
  <1>5. ASSUME NEW c \in Callers, TakeGate(c)
        PROVE  GateHeld'
    BY <1>1, <1>2, <1>5 DEF TakeGate, FreeGate, Goes, GateHeld, Gated
  <1>6. CASE IndexSegment \/ CloseEvent \/ MinutePasses \/ RetentionPassesOver \/ FootageCut
        \/ FootagelessSwept
    BY <1>6 DEF IndexSegment, CloseEvent, MinutePasses, RetentionPassesOver, FootageCut,
                FootagelessSwept, GateHeld
  <1>7. CASE RetentionStarts
    BY <1>1, <1>7 DEF RetentionStarts, Ask, Goes, GateHeld, Gated, Callers
  <1>8. CASE DeleteBegins \/ DeleteRow
    <2>1. command.step # "remove" /\ command'.step # "remove" /\ UNCHANGED <<gate, phase>>
      BY <1>8 DEF DeleteBegins, Begin, NoCommand, DeleteRow, At, Then, TypeOK, CommandTypes
    <2> QED
      BY <2>1 DEF GateHeld
  <1>9. CASE DeleteTakesGate
    <2>1. command'.step = "remove" /\ gate = Nobody /\ gate' = Deleter /\ UNCHANGED phase
      BY <1>9 DEF DeleteTakesGate, FreeGate, Then, TypeOK, CommandTypes
    <2> QED
      BY <1>2, <2>1 DEF GateHeld
  <1>10. CASE DeleteRemovesFile
    <2>1. command'.step = "none" /\ gate = Deleter /\ gate' = Nobody /\ UNCHANGED phase
      BY <1>10 DEF DeleteRemovesFile, At, NoCommand, GateHeld
    <2> QED
      BY <1>2, <2>1 DEF GateHeld
  <1> QED
    BY <1>3, <1>4, <1>5, <1>6, <1>7, <1>8, <1>9, <1>10, DeletionsOnly DEF TypeOK

\* A row that is gone never comes back.
LEMMA RowInductive ==
    ASSUME TypeOK, RowFollows, Next, Commands \subseteq {"delete"}
    PROVE  RowFollows' /\ (Exists' => Exists)
  <1> USE DEF Exists, RowFollows, eventVars
  <1>1. CASE DeleteBegins
    BY <1>1 DEF DeleteBegins, Begin
  <1>2. CASE DeleteRow
    BY <1>2 DEF DeleteRow
  <1>3. CASE DeleteTakesGate
    BY <1>3 DEF DeleteTakesGate, At
  <1>4. CASE DeleteRemovesFile
    BY <1>4 DEF DeleteRemovesFile, NoCommand
  <1>5. CASE IndexSegment \/ CloseEvent \/ MinutePasses
    BY <1>5 DEF IndexSegment, CloseEvent, MinutePasses
  <1>6. CASE RetentionStarts \/ RetentionPassesOver \/ FootageCut \/ FootagelessSwept
    BY <1>6 DEF RetentionStarts, RetentionPassesOver, FootageCut, FootagelessSwept
  <1>7. ASSUME NEW c \in Callers, ViewerAsks(c) \/ TakeGate(c) \/ Serve(c)
        PROVE  UNCHANGED <<event, command>>
    BY <1>7 DEF ViewerAsks, TakeGate, Serve, ReadPath, Probe, DropFile, ClearPath, Recheck,
                Window, Export, Publish, Measure, RemoveJunk, Cache
  <1> QED
    BY <1>1, <1>2, <1>3, <1>4, <1>5, <1>6, <1>7, DeletionsOnly DEF TypeOK

\* A clip holds something of any footage, and never more than there is.
LEMMA SentSound ==
    \A n \in Nat: Sent(n) \in Nat /\ Sent(n) <= n /\ (Sent(n) = 0 <=> n = 0)
  BY RunAssumption DEF Sent

\* What a request does leaves the clip sound, of an event that is there.
LEMMA ServeSound ==
    ASSUME ClipInv, ~legacy, Exists, NEW c \in Callers, Serve(c)
    PROVE  PathSound' /\ \A d \in Callers: RequestSound(d)'
  <1> USE DEF requestVars, clipVars, eventVars
  <1>1. /\ event = "open" \/ event = "closed"
        /\ recorded \in 0..Segments /\ file \in 0..Segments
        /\ phase \in [Callers -> RequestPhases] /\ aim \in [Callers -> 0..Segments]
        /\ growing \in [Callers -> BOOLEAN]
    BY DEF ClipInv, TypeOK, ClipTypes, RequestTypes, Exists
  <1>2. PathSound /\ \A d \in Callers: RequestSound(d)
    BY DEF ClipInv, ClipSound
  <1>3. \A d \in Callers: phase[c] \in Gated /\ phase[d] \in Gated => d = c
    BY DEF ClipInv, GateHeld
  <1>4. ASSUME Leaves(c), UNCHANGED <<file, path, event, recorded, late>>
        PROVE  \A d \in Callers: RequestSound(d)'
    BY <1>1, <1>2, <1>4 DEF Leaves, RequestSound, Working, Gated, Building
  <1>5. CASE ReadPath(c)
    BY <1>1, <1>2, <1>5 DEF ReadPath, Goes, PathSound, RequestSound, Working, Gated, Building
  <1>6. CASE Probe(c)
    <2>1. Healthy
      BY <1>1, <1>2, <1>6, SentSound DEF Probe, Healthy, PathSound, RequestSound
    <2> QED
      BY <1>2, <1>4, <1>6, <2>1 DEF Probe, PathSound
  <1>7. CASE DropFile(c) \/ ClearPath(c)
    BY <1>2, <1>7 DEF DropFile, ClearPath, RequestSound
  <1>8. CASE Recheck(c)
    <2>1. CASE path /\ file > 0
      BY <1>2, <1>4, <1>8, <2>1 DEF Recheck, PathSound
    <2>2. CASE ~(path /\ file > 0)
      <3>1. ~path
        BY <1>1, <1>2, <2>2, SentSound DEF PathSound
      <3> QED
        BY <1>1, <1>2, <1>8, <2>2, <3>1 DEF Recheck, Goes, PathSound, RequestSound, Working,
                                           Gated, Building
    <2> QED
      BY <2>1, <2>2
  <1>9. CASE Window(c)
    <2>1. CASE Leaves(c)
      BY <1>2, <1>4, <1>9, <2>1 DEF Window, PathSound
    <2>2. CASE /\ aim' = [aim EXCEPT ![c] = Sent(Footage)]
               /\ growing' = [growing EXCEPT ![c] = StillGrowing] /\ Goes(c, "export")
      <3>1. PathSound'
        BY <1>2, <1>9 DEF Window, PathSound
      <3>2. ASSUME NEW d \in Callers, d # c PROVE RequestSound(d)'
        BY <1>1, <1>2, <1>9, <2>2, <3>2 DEF Window, Goes, RequestSound, Working, Gated, Building
      <3>3. ~path
        BY <1>2, <1>9 DEF Window, RequestSound, Working, Gated
      <3>4. ~StillGrowing => /\ event = "closed"
                             /\ Footage > 0 => Footage = recorded /\ (recorded < Segments => late)
        BY <1>1 DEF StillGrowing, Footage
      <3>7. ~StillGrowing => /\ event = "closed"
                             /\ Sent(Footage) > 0 => /\ Sent(Footage) = Sent(recorded)
                                                     /\ recorded < Segments => late
        <4>1. Footage \in Nat
          BY <1>1 DEF Footage
        <4> QED
          BY <3>4, <4>1, SentSound
      <3>5. phase'[c] = "export" /\ aim'[c] = Sent(Footage) /\ growing'[c] = StillGrowing
        BY <1>1, <2>2 DEF Goes
      <3>6. RequestSound(c)'
        BY <1>9, <3>3, <3>7, <3>5 DEF Window, RequestSound, Working, Gated, Building
      <3> QED
        BY <3>1, <3>2, <3>6
    <2> QED
      BY <1>9, <2>1, <2>2 DEF Window
  <1>10. CASE Export(c)
    BY <1>1, <1>2, <1>10 DEF Export, Goes, PathSound, RequestSound, Working, Gated, Building
  <1>11. CASE Publish(c)
    <2>1. ~path /\ aim[c] > 0
      BY <1>2, <1>11 DEF Publish, RequestSound, Working, Gated
    <2> QED
      BY <1>1, <1>2, <1>3, <1>11, <2>1 DEF Publish, Goes, PathSound, RequestSound, Working,
                                          Gated, Building
  <1>12. CASE Measure(c)
    BY <1>1, <1>2, <1>12 DEF Measure, Goes, PathSound, RequestSound, Working, Gated, Building
  <1>13. CASE RemoveJunk(c)
    BY <1>1, <1>2, <1>3, <1>13 DEF RemoveJunk, Leaves, PathSound, RequestSound, Working,
                                   Gated, Building
  <1>14. CASE Cache(c)
    <2>1. CASE growing[c]
      BY <1>2, <1>4, <1>14, <2>1 DEF Cache, Caches, PathSound
    <2>2. CASE ~growing[c]
      <3>1. /\ event = "closed" /\ file = Sent(recorded) /\ recorded > 0
            /\ recorded < Segments => late
        BY <1>1, <1>2, <1>14, <2>2, SentSound DEF Cache, RequestSound, Building
      <3> QED
        BY <1>1, <1>2, <1>3, <1>14, <2>2, <3>1 DEF Cache, Caches, Leaves, PathSound, RequestSound,
                                        Working, Gated, Building
    <2> QED
      BY <2>1, <2>2
  <1> QED
    BY <1>5, <1>6, <1>7, <1>8, <1>9, <1>10, <1>11, <1>12, <1>13, <1>14, Serve(c) DEF Serve

\* Every step of the invariant.
LEMMA ClipInductive ==
    ASSUME ClipInv, Commands \subseteq {"delete"}, [Next]_vars
    PROVE  ClipInv'
  <1> USE DEF requestVars, clipVars, eventVars
  <1>1. TypeOK'
    BY TypeInductive DEF ClipInv
  <1>2. CASE UNCHANGED vars
    BY <1>1, <1>2 DEF vars, ClipInv, GateHeld, RowFollows, ClipSound, PathSound, RequestSound,
       Exists
  <1>3. CASE Next
    <2>1. GateHeld' /\ RowFollows' /\ (Exists' => Exists)
      BY <1>3, GateInductive, RowInductive DEF ClipInv
    <2>2. ASSUME ~legacy', Exists'
          PROVE  PathSound' /\ \A d \in Callers: RequestSound(d)'
      <3>1. Exists
        BY <2>1, <2>2
      <3>2. ASSUME NEW c \in Callers, Serve(c)
            PROVE  PathSound' /\ \A d \in Callers: RequestSound(d)'
        <4>1. UNCHANGED legacy
          BY <3>2 DEF Serve, ReadPath, Probe, DropFile, ClearPath, Recheck,
                Window, Export, Publish, Measure, RemoveJunk, Cache
        <4> QED
          BY <2>2, <3>1, <3>2, <4>1, ServeSound
      <3>3. CASE ~\E c \in Callers: Serve(c)
        <4>1. UNCHANGED legacy
          BY <1>3, <3>3, DeletionsOnly DEF IndexSegment, CloseEvent, MinutePasses, ViewerAsks,
             TakeGate,
              RetentionStarts, RetentionPassesOver, FootageCut, FootagelessSwept, DeleteBegins,
              DeleteRow,
              DeleteTakesGate, DeleteRemovesFile, ClipInv, TypeOK
        <4>2. /\ PathSound /\ \A d \in Callers: RequestSound(d)
              /\ recorded \in 0..Segments /\ file \in 0..Segments
              /\ phase \in [Callers -> RequestPhases]
          BY <2>2, <3>1, <4>1 DEF ClipInv, ClipSound, TypeOK, ClipTypes, RequestTypes
        <4>3. CASE IndexSegment
          BY <4>2, <4>3 DEF IndexSegment, PathSound, RequestSound
        <4>4. CASE CloseEvent \/ MinutePasses
          BY <4>2, <4>4 DEF CloseEvent, MinutePasses, PathSound, RequestSound
        <4>5. ASSUME NEW c \in Callers, Ask(c), UNCHANGED <<event, late, recorded, clipVars>>
              PROVE  PathSound' /\ \A d \in Callers: RequestSound(d)'
          BY <4>2, <4>5 DEF Ask, Goes, PathSound, RequestSound, Working, Gated, Building
        <4>6. ASSUME NEW c \in Callers, TakeGate(c)
              PROVE  PathSound' /\ \A d \in Callers: RequestSound(d)'
          BY <4>2, <4>6 DEF TakeGate, Goes, PathSound, RequestSound, Working, Gated, Building
        <4>7. CASE RetentionStarts
          <5>1. CASE Ask(Keeper)
            BY <4>5, <4>7, <5>1 DEF RetentionStarts, Callers
          <5>2. CASE UNCHANGED requestVars
            BY <4>2, <4>7, <5>2 DEF RetentionStarts, PathSound, RequestSound
          <5> QED
            BY <4>7, <5>1, <5>2 DEF RetentionStarts
        <4>8. CASE RetentionPassesOver \/ FootageCut \/ DeleteBegins \/ DeleteTakesGate
          BY <4>2, <4>8 DEF RetentionPassesOver, FootageCut, DeleteBegins, DeleteTakesGate,
             PathSound, RequestSound
        <4>9. CASE FootagelessSwept \/ DeleteRow
          <5>1. UNCHANGED event
            BY <2>2, <4>9 DEF FootagelessSwept, DeleteRow, Exists
          <5> QED
            BY <4>2, <4>9, <5>1 DEF FootagelessSwept, DeleteRow, PathSound, RequestSound
        <4>10. ~DeleteRemovesFile
          BY <3>1 DEF DeleteRemovesFile, At, Exists, ClipInv, RowFollows
        <4>11. ASSUME NEW c \in Callers, ViewerAsks(c)
               PROVE  PathSound' /\ \A d \in Callers: RequestSound(d)'
          BY <4>5, <4>11 DEF ViewerAsks
        <4> QED
          BY <1>3, <3>3, <4>3, <4>4, <4>6, <4>7, <4>8, <4>9, <4>10, <4>11, DeletionsOnly
             DEF ClipInv, TypeOK
      <3> QED
        BY <3>2, <3>3
    <2> QED
      BY <1>1, <2>1, <2>2 DEF ClipInv, ClipSound
  <1> QED
    BY <1>2, <1>3

\* The invariant holds when the system starts.
LEMMA ClipInitial == Init => ClipInv
  <1> SUFFICES ASSUME Init PROVE ClipInv
    OBVIOUS
  <1>1. TypeOK
    BY TypeInitial
  <1>2. GateHeld /\ RowFollows
    BY CallerAssumption DEF Init, GateHeld, RowFollows, Gated, NoCommand, Nobody, Deleter
  <1>3. ASSUME ~legacy PROVE PathSound
    BY <1>3 DEF Init, PathSound
  <1>4. ASSUME NEW c \in Callers PROVE RequestSound(c)
    BY <1>4 DEF Init, RequestSound, Working, Gated, Building
  <1> QED
    BY <1>1, <1>2, <1>3, <1>4 DEF ClipInv, ClipSound

\* "Only CACHE a FINAL window": whatever requests, retention and deletions do
\* together, a clip clip_path names holds all the footage its
\* event will ever have, as far as a clip goes.
THEOREM CachedFinal ==
    ASSUME Commands \subseteq {"delete"}
    PROVE  Spec => []CachedClipFinal
  <1>1. ClipInv /\ [Next]_vars => ClipInv'
    BY ClipInductive
  <1>2. ClipInv => CachedClipFinal
    BY SentSound, RunAssumption DEF ClipInv, TypeOK, ClipTypes, ClipSound, PathSound,
                                    CachedClipFinal, Exists
  <1> QED
    BY <1>1, <1>2, ClipInitial, PTL DEF Spec

-----------------------------------------------------------------------------
(* keep_event_clips: what retention's own request leaves behind.            *)

\* Retention starts late and works alone.
LateSound ==
    /\ late => event = "closed"
    /\ cut => late
    /\ retention # "none" => late
    /\ retention # "export" => phase[Keeper] = "idle"

\* Unless its export misses, it cuts the footage only of an event that has its clip or
\* never had any footage.
CutSound ==
    /\ cut => path \/ recorded = 0
    /\ retention = "cut" => path
    /\ retention = "export" /\ phase[Keeper] = "idle" => path \/ recorded = 0

\* It asks once the window is final: what it is making is the final clip.
KeeperSound ==
    /\ phase[Keeper] \in Building => aim[Keeper] = Sent(recorded) /\ ~growing[Keeper]
    /\ phase[Keeper] = "publish" => temp[Keeper]
    /\ phase[Keeper] # "junk"

KeptSound == LateSound /\ (~missed => CutSound /\ KeeperSound)

KeptInv == ClipInv /\ (~legacy /\ Exists => KeptSound)

\* A request that is not retention's changes nothing this invariant speaks of but
\* clip_path, and a clip_path once set stays.
LEMMA OthersKept ==
    ASSUME KeptInv, ~legacy, Exists, NEW c \in Viewers, Serve(c)
    PROVE  KeptSound'
  <1> USE DEF requestVars, clipVars, eventVars
  <1>1. c \in Callers /\ Keeper \in Callers /\ c # Keeper
    BY CallerAssumption DEF Callers
  <1>2. path => path'
    BY <1>1 DEF KeptInv, ClipInv, ClipSound, RequestSound, Serve, ReadPath, Probe, DropFile,
         ClearPath, Recheck, Window, Export, Publish, Measure, RemoveJunk, Cache
  <1>3. UNCHANGED <<event, late, cut, recorded, retention>>
    BY DEF Serve, ReadPath, Probe, DropFile, ClearPath, Recheck, Window, Export, Publish,
           Measure, RemoveJunk, Cache
  <1>4. /\ phase'[Keeper] = phase[Keeper] /\ aim'[Keeper] = aim[Keeper]
        /\ growing'[Keeper] = growing[Keeper] /\ temp'[Keeper] = temp[Keeper]
    BY <1>1 DEF KeptInv, ClipInv, TypeOK, RequestTypes, Serve, ReadPath, Probe, DropFile,
         ClearPath, Recheck, Window, Export, Publish, Measure, RemoveJunk, Cache, Goes, Leaves
  <1>5. missed' = missed
    BY <1>1 DEF KeptInv, ClipInv, TypeOK, ClipTypes, Serve, ReadPath, Probe, DropFile,
         ClearPath, Recheck, Window, Export, Publish, Measure, RemoveJunk, Cache
  <1> QED
    BY <1>2, <1>3, <1>4, <1>5 DEF KeptInv, KeptSound, LateSound, CutSound, KeeperSound

\* Retention's request ends with the clip, without any footage to make it of, or as
\* a miss.
LEMMA KeeperKept ==
    ASSUME KeptInv, ~legacy, Exists, Serve(Keeper)
    PROVE  KeptSound'
  <1> USE DEF requestVars, clipVars, eventVars
  <1>1. /\ Keeper \in Callers /\ recorded \in 0..Segments /\ file \in 0..Segments
        /\ phase \in [Callers -> RequestPhases] /\ aim \in [Callers -> 0..Segments]
        /\ growing \in [Callers -> BOOLEAN] /\ temp \in [Callers -> BOOLEAN]
        /\ missed \in BOOLEAN
    BY DEF KeptInv, ClipInv, TypeOK, ClipTypes, RequestTypes, Callers
  <1>2. LateSound /\ PathSound /\ RequestSound(Keeper)
    BY <1>1 DEF KeptInv, KeptSound, ClipInv, ClipSound
  <1>4. UNCHANGED <<event, late, cut, recorded, retention>>
    BY DEF Serve, ReadPath, Probe, DropFile, ClearPath, Recheck, Window, Export, Publish,
           Measure, RemoveJunk, Cache
  <1>5. phase[Keeper] # "idle"
    BY DEF Serve, ReadPath, Probe, DropFile, ClearPath, Recheck, Window, Export, Publish,
           Measure, RemoveJunk, Cache
  <1>3. retention = "export" /\ late /\ event = "closed"
    BY <1>2, <1>5 DEF LateSound
  <1>18. LateSound'
    BY <1>2, <1>3, <1>4 DEF LateSound
  <1> SUFFICES ASSUME ~missed' PROVE CutSound' /\ KeeperSound'
    BY <1>18 DEF KeptSound
  <1>19. CutSound /\ KeeperSound
    <2>1. ~missed
      BY <1>1 DEF Serve, ReadPath, Probe, DropFile, ClearPath, Recheck, Window, Export, Publish,
           Measure, RemoveJunk, Cache
    <2> QED
      BY <2>1 DEF KeptInv, KeptSound
  <1>6. ASSUME Leaves(Keeper), path => path', path' \/ recorded = 0
        PROVE  CutSound' /\ KeeperSound'
    BY <1>1, <1>19, <1>3, <1>4, <1>6 DEF Leaves, CutSound, KeeperSound, Building
  <1>7. ASSUME NEW next \in RequestPhases \ (Building \cup {"junk", "idle"}),
               Goes(Keeper, next), UNCHANGED path
        PROVE  CutSound' /\ KeeperSound'
    BY <1>1, <1>19, <1>3, <1>4, <1>7 DEF Goes, CutSound, KeeperSound, Building, RequestPhases
  <1>8. CASE ReadPath(Keeper)
    BY <1>7, <1>8 DEF ReadPath, RequestPhases, Building
  <1>9. CASE Probe(Keeper)
    BY <1>2, <1>6, <1>7, <1>9 DEF Probe, RequestPhases, Building, RequestSound
  <1>10. CASE DropFile(Keeper) \/ ClearPath(Keeper)
    BY <1>2, <1>10 DEF DropFile, ClearPath, RequestSound
  <1>11. CASE Recheck(Keeper)
    BY <1>6, <1>7, <1>11 DEF Recheck, RequestPhases, Building
  <1>12. CASE Window(Keeper)
    <2>1. ~path /\ Footage = recorded /\ ~StillGrowing
      BY <1>1, <1>2, <1>19, <1>3, <1>12 DEF Window, RequestSound, Working, Gated, CutSound,
                                           Footage, StillGrowing
    <2>2. CASE Footage = 0 /\ Leaves(Keeper)
      BY <1>6, <1>12, <2>1, <2>2 DEF Window
    <2>3. CASE /\ aim' = [aim EXCEPT ![Keeper] = Sent(Footage)]
               /\ growing' = [growing EXCEPT ![Keeper] = StillGrowing] /\ Goes(Keeper, "export")
      <3>1. phase'[Keeper] = "export" /\ aim'[Keeper] = Sent(recorded) /\ ~growing'[Keeper]
        BY <1>1, <2>1, <2>3 DEF Goes
      <3>2. UNCHANGED path
        BY <1>12 DEF Window
      <3> QED
        BY <1>19, <1>3, <1>4, <1>5, <3>1, <3>2 DEF CutSound, KeeperSound, Building
    <2> QED
      BY <1>12, <2>1, <2>2, <2>3 DEF Window, Exists
  <1>13. CASE Export(Keeper)
    <2>1. aim[Keeper] = Sent(recorded) /\ ~growing[Keeper]
      BY <1>19, <1>13 DEF Export, KeeperSound, Building
    <2>2. Goes(Keeper, "publish") /\ temp' = [temp EXCEPT ![Keeper] = TRUE]
          /\ UNCHANGED <<path, aim, growing>>
      BY <1>13 DEF Export
    <2> QED
      BY <1>1, <1>19, <1>3, <1>4, <2>1, <2>2 DEF Goes, CutSound, KeeperSound, Building
  <1>14. CASE Publish(Keeper)
    <2>1. temp[Keeper]
      BY <1>19, <1>14 DEF Publish, KeeperSound
    <2> QED
      BY <1>1, <1>19, <1>3, <1>4, <1>14, <2>1 DEF Publish, Goes, CutSound, KeeperSound, Building
  <1>15. CASE Measure(Keeper)
    <2>1. file > 0
      BY <1>1, <1>2, <1>15 DEF Measure, RequestSound
    <2> QED
      BY <1>1, <1>19, <1>3, <1>4, <1>15, <2>1 DEF Measure, Goes, CutSound, KeeperSound, Building
  <1>16. ~RemoveJunk(Keeper)
    BY <1>19 DEF RemoveJunk, KeeperSound
  <1>17. CASE Cache(Keeper)
    <2>1. Caches(Keeper)
      BY <1>19, <1>17 DEF Cache, Caches, KeeperSound, Building
    <2>2. path' = TRUE
      BY <1>17, <2>1 DEF Cache
    <2> QED
      BY <1>6, <1>17, <2>2 DEF Cache
  <1> QED
    BY <1>8, <1>9, <1>10, <1>11, <1>12, <1>13, <1>14, <1>15, <1>16, <1>17, Serve(Keeper) DEF Serve

\* Every step of the invariant.
LEMMA KeptInductive ==
    ASSUME KeptInv, KeepClips, Commands \subseteq {"delete"}, [Next]_vars
    PROVE  KeptInv'
  <1> USE DEF requestVars, clipVars, eventVars
  <1>1. ClipInv'
    BY ClipInductive DEF KeptInv
  <1> SUFFICES ASSUME ~legacy', Exists' PROVE KeptSound'
    BY <1>1 DEF KeptInv
  <1>2. CASE UNCHANGED vars
    BY <1>2 DEF vars, KeptInv, KeptSound, LateSound, CutSound, KeeperSound, Exists
  <1>3. CASE Next
    <2>1. Exists /\ TypeOK
      BY <1>3, RowInductive DEF KeptInv, ClipInv
    <2>2. ~legacy
      BY <1>3, <2>1, DeletionsOnly DEF IndexSegment, CloseEvent, MinutePasses, ViewerAsks,
         TakeGate, RetentionStarts, RetentionPassesOver, FootageCut, FootagelessSwept,
         DeleteBegins, DeleteRow, DeleteTakesGate, DeleteRemovesFile, TypeOK, Serve, ReadPath,
         Probe, DropFile, ClearPath, Recheck, Window, Export, Publish, Measure, RemoveJunk, Cache
    <2>3. /\ LateSound /\ (~missed => CutSound /\ KeeperSound)
          /\ event = "open" \/ event = "closed"
          /\ phase \in [Callers -> RequestPhases] /\ Keeper \in Callers
          /\ recorded \in 0..Segments
      BY <2>1, <2>2 DEF KeptInv, KeptSound, TypeOK, ClipTypes, RequestTypes, Exists, Callers
    <2> USE DEF KeptSound, LateSound
    <2>4. ASSUME NEW c \in Callers, Serve(c) PROVE KeptSound'
      BY <2>1, <2>2, <2>4, OthersKept, KeeperKept DEF Callers
    <2>5. CASE IndexSegment
      BY <2>3, <2>5 DEF IndexSegment, CutSound, KeeperSound, Building
    <2>6. CASE CloseEvent \/ MinutePasses
      BY <2>3, <2>6 DEF CloseEvent, MinutePasses, CutSound, KeeperSound, Building
    <2>7. ASSUME NEW c \in Callers, ViewerAsks(c) PROVE KeptSound'
      <3>1. c # Keeper
        BY <2>7, CallerAssumption DEF ViewerAsks
      <3> QED
        BY <2>3, <2>7, <3>1 DEF ViewerAsks, Ask, Goes, CutSound, KeeperSound
    <2>8. ASSUME NEW c \in Callers, TakeGate(c) PROVE KeptSound'
      BY <2>3, <2>8 DEF TakeGate, Goes, CutSound, KeeperSound, Building
    <2>9. CASE RetentionStarts
      <3>1. CASE MustExport
        BY <2>3, <2>9, <3>1 DEF RetentionStarts, Ask, Goes, CutSound, KeeperSound, Building
      <3>2. CASE ~MustExport
        BY <2>3, <2>9, <3>2, KeepClips DEF MustExport, RetentionStarts, CutSound, KeeperSound
      <3> QED
        BY <3>1, <3>2
    <2>14. CASE RetentionPassesOver
      BY <2>3, <2>14 DEF RetentionPassesOver
    <2>10. CASE FootageCut
      BY <2>3, <2>10 DEF FootageCut, CutSound, KeeperSound
    <2>11. CASE FootagelessSwept
      <3>1. UNCHANGED event
        BY <2>11 DEF FootagelessSwept, Exists
      <3> QED
        BY <2>3, <2>11, <3>1 DEF FootagelessSwept, CutSound, KeeperSound
    <2>12. CASE DeleteBegins \/ DeleteTakesGate \/ DeleteRemovesFile
      BY <2>3, <2>12 DEF DeleteBegins, DeleteTakesGate, DeleteRemovesFile, CutSound, KeeperSound
    <2>13. ~DeleteRow
      BY DEF DeleteRow, Exists
    <2> QED
      BY <1>3, <2>1, <2>4, <2>5, <2>6, <2>7, <2>8, <2>9, <2>10, <2>11, <2>12, <2>13, <2>14,
         DeletionsOnly DEF TypeOK
  <1> QED
    BY <1>2, <1>3

LEMMA KeptInitial == Init => KeptInv
  <1> SUFFICES ASSUME Init, ~legacy PROVE KeptSound
    BY ClipInitial DEF KeptInv
  <1>1. ~late /\ ~cut /\ retention = "none"
    BY DEF Init
  <1>2. phase[Keeper] = "idle"
    BY DEF Init, Callers
  <1> QED
    BY <1>1, <1>2 DEF KeptSound, LateSound, CutSound, KeeperSound, Building

\* "The moment survives while the bulk recording is deleted": with keep_event_clips,
\* an event whose footage retention has cut has as much of it in its clip as a clip may
\* hold, unless retention's own export missed; whatever fails for others.
THEOREM MomentsKept ==
    ASSUME KeepClips, Commands \subseteq {"delete"}
    PROVE  Spec => []KeptMoments
  <1>1. KeptInv /\ [Next]_vars => KeptInv'
    BY KeptInductive
  <1>2. KeptInv => KeptMoments
    BY DEF KeptInv, KeptSound, ClipInv, TypeOK, ClipTypes, ClipSound, PathSound, CutSound,
           KeptMoments, Exists
  <1> QED
    BY <1>1, <1>2, KeptInitial, PTL DEF Spec

-----------------------------------------------------------------------------
(* The clip store. *)

\* A working request meets no remembered clip; what it does to the file shows to nobody,
\* and what it remembers is all there is.
LEMMA ServeRefines ==
    ASSUME KeptInv, ~legacy, NEW c \in Callers, Serve(c)
    PROVE  [Store!Next]_(Store!vars)
  <1> DEFINE remembered == IF Exists /\ path THEN file ELSE 0
  <1> USE DEF requestVars, clipVars, eventVars
  <1>1. UNCHANGED <<event, recorded, cut>>
    BY DEF Serve, ReadPath, Probe, DropFile, ClearPath, Recheck, Window, Export, Publish,
           Measure, RemoveJunk, Cache
  <1>4. CASE Export(c)
    <2>1. missed' = missed \/ (missed' = TRUE /\ UNCHANGED <<path, file>>)
      BY <1>4 DEF Export, KeptInv, ClipInv, TypeOK, ClipTypes
    <2>2. Exists => ~path
      BY <1>4 DEF Export, KeptInv, ClipInv, ClipSound, RequestSound, Working, Gated
    <2>3. CASE missed' = missed
      BY <1>1, <1>4, <2>3 DEF Export, Store!vars, Exists
    <2>4. CASE missed' = TRUE
      BY <1>1, <1>4, <2>2, <2>4 DEF Export, Store!Miss, Store!Next, Exists
    <2> QED
      BY <2>1, <2>3, <2>4
  <1> SUFFICES ASSUME ~Export(c) PROVE [Store!Next]_(Store!vars)
    BY <1>4
  <1>5. UNCHANGED missed
    BY DEF Serve, ReadPath, Probe, DropFile, ClearPath, Recheck, Window, Export, Publish,
           Measure, RemoveJunk, Cache
  <1>2. CASE ~Exists
    BY <1>1, <1>2, <1>5 DEF Store!vars, Exists
  <1>3. CASE Exists
    <2>1. RequestSound(c) /\ (~missed => CutSound) /\ recorded \in Nat
      BY <1>3, RunAssumption DEF KeptInv, KeptSound, ClipInv, ClipSound, TypeOK, ClipTypes
    <2>2. CASE UNCHANGED <<path, file>>
      BY <1>1, <1>5, <2>2 DEF Store!vars, Exists
    <2>3. CASE Publish(c) \/ RemoveJunk(c)
      <3>1. ~path /\ UNCHANGED path
        BY <2>1, <2>3 DEF Publish, RemoveJunk, RequestSound, Working, Gated
      <3> QED
        BY <1>1, <1>5, <3>1 DEF Store!vars, Exists
    <2>4. CASE Cache(c) /\ path'
      <3>1. ~path /\ ~growing[c] /\ file' = file
        BY <2>1, <2>4 DEF Cache, Caches, RequestSound, Working, Gated
      <3>2. file = Sent(recorded) /\ recorded > 0
        BY <2>1, <2>4, <3>1, SentSound DEF Cache, RequestSound, Building
      <3>3. ~cut \/ missed
        BY <2>1, <3>1, <3>2 DEF CutSound
      <3>4. Store!Remember
        BY <1>1, <1>3, <1>5, <2>4, <3>1, <3>2, <3>3 DEF Store!Remember, Store!Held, Sent, Exists
      <3> QED
        BY <3>4 DEF Store!Next
    <2>5. CASE Cache(c) /\ ~path'
      BY <1>1, <1>5, <2>1, <2>5 DEF Cache, RequestSound, Working, Gated, Store!vars, Exists
    <2>6. ~DropFile(c) /\ ~ClearPath(c)
      BY <2>1 DEF RequestSound, DropFile, ClearPath
    <2> QED
      BY <2>2, <2>3, <2>4, <2>5, <2>6 DEF Serve, ReadPath, Probe, Recheck, Window, Measure
  <1> QED
    BY <1>2, <1>3

\* How the run began is settled at its beginning.
LEMMA LegacyStays ==
    ASSUME [Next]_vars
    PROVE  UNCHANGED legacy
  BY DEF vars, Next, IndexSegment, CloseEvent, MinutePasses, ViewerAsks, TakeGate, Serve, ReadPath,
     Probe, DropFile, ClearPath, Recheck, Window, Export, Publish, Measure, RemoveJunk, Cache,
     RetentionStarts, RetentionPassesOver, FootageCut, FootagelessSwept, DeleteBegins, RangeBegins, HistoryBegins,
     PurgeBegins, DeleteTakesGate, Command, DeleteRow, DeleteRemovesFile, RangeCutsFootage,
     UnlinkClip, DropRow, PurgeSweeps

\* Every step is one of the store or changes nothing it shows.
LEMMA StepRefines ==
    ASSUME KeptInv, ~legacy, Commands \subseteq {"delete"}, [Next]_vars
    PROVE  [Store!Next]_(Store!vars)
  <1> USE DEF requestVars, clipVars, eventVars
  <1>1. CASE UNCHANGED vars
    BY <1>1 DEF vars, Store!vars, Exists
  <1>2. CASE Next
    <2>1. TypeOK
      BY DEF KeptInv, ClipInv
    <2>2. Exists => PathSound /\ LateSound /\ (~missed => CutSound)
      BY DEF KeptInv, KeptSound, ClipInv, ClipSound
    <2>3. recorded \in 0..Segments /\ cut \in BOOLEAN /\ path \in BOOLEAN
      BY <2>1 DEF TypeOK, ClipTypes
    <2>4. CASE IndexSegment
      <3>1. ~path /\ ~cut /\ Exists
        BY <2>2, <2>3, <2>4, RunAssumption DEF IndexSegment, PathSound, LateSound
      <3>2. Store!Record
        BY <2>4, <3>1 DEF IndexSegment, Store!Record, Exists
      <3> QED
        BY <3>2 DEF Store!Next
    <2>5. CASE CloseEvent \/ MinutePasses
      BY <2>5 DEF CloseEvent, MinutePasses, Store!vars, Exists
    <2>6. ASSUME NEW c \in Callers, ViewerAsks(c) \/ TakeGate(c)
          PROVE  [Store!Next]_(Store!vars)
      BY <2>6 DEF ViewerAsks, TakeGate, Store!vars, Exists
    <2>7. ASSUME NEW c \in Callers, Serve(c) PROVE [Store!Next]_(Store!vars)
      BY <2>7, ServeRefines
    <2>8. CASE RetentionStarts \/ DeleteBegins \/ DeleteTakesGate
      BY <2>8 DEF RetentionStarts, DeleteBegins, DeleteTakesGate, Store!vars, Exists
    <2>9. CASE FootageCut
      <3>1. Exists => missed \/ (IF path THEN file ELSE 0) = Sent(recorded)
        BY <2>2, <2>3, <2>9, SentSound DEF FootageCut, PathSound, CutSound
      <3>2. CASE cut
        BY <2>9, <3>2 DEF FootageCut, Store!vars, Exists
      <3>3. CASE ~cut
        <4>1. Store!Cut
          BY <2>9, <3>1, <3>3 DEF FootageCut, Store!Cut, Store!Held, Sent, Exists
        <4> QED
          BY <4>1 DEF Store!Next
      <3> QED
        BY <3>2, <3>3
    <2>10. CASE FootagelessSwept
      <3>1. CASE event = "closed" /\ ~path
        BY <2>10, <3>1 DEF FootagelessSwept, Store!Delete, Store!Next, Exists
      <3>2. CASE ~(event = "closed" /\ ~path)
        BY <2>10, <3>2 DEF FootagelessSwept, Store!vars, Exists
      <3> QED
        BY <3>1, <3>2
    <2>11. CASE DeleteRow
      <3>1. CASE Exists
        BY <2>11, <3>1 DEF DeleteRow, Store!Delete, Store!Next, Exists
      <3>2. CASE ~Exists
        BY <2>11, <3>2 DEF DeleteRow, Store!vars, Exists
      <3> QED
        BY <3>1, <3>2
    <2>12. CASE DeleteRemovesFile
      <3>1. ~Exists
        BY <2>12 DEF DeleteRemovesFile, At, KeptInv, ClipInv, RowFollows, Exists
      <3> QED
        BY <2>12, <3>1 DEF DeleteRemovesFile, Store!vars, Exists
    <2>13. CASE RetentionPassesOver
      <3>1. Exists => ~path
        BY <2>13 DEF RetentionPassesOver, MustExport
      <3> QED
        BY <2>13, <3>1 DEF RetentionPassesOver, Store!Miss, Store!Next, Exists
    <2> QED
      BY <1>2, <2>1, <2>4, <2>5, <2>6, <2>7, <2>8, <2>9, <2>10, <2>11, <2>12, <2>13,
         DeletionsOnly DEF TypeOK
  <1> QED
    BY <1>1, <1>2

\* "The moment survives", as what an owner may rely on: with keep_event_clips, the user's
\* deletion as the only command and no unreadable clip to start with, EventClip implements
\* ClipStore.
THEOREM StoreImplemented ==
    ASSUME KeepClips, ~BadClips, Commands \subseteq {"delete"}
    PROVE  Spec => ImplementsClipStore
  <1>1. Init => ~legacy /\ Store!Init
    BY DEF Init, Store!Init, Exists
  <1>2. KeptInv /\ [Next]_vars => KeptInv'
    BY KeptInductive
  <1>3. ~legacy /\ [Next]_vars => ~legacy'
    BY LegacyStays
  <1>4. KeptInv /\ ~legacy /\ [Next]_vars => [Store!Next]_(Store!vars)
    BY StepRefines
  <1> QED
    BY <1>1, <1>2, <1>3, <1>4, KeptInitial, PTL DEF Spec, ImplementsClipStore, Store!Spec

-----------------------------------------------------------------------------
(* No clip outlives its event.                                              *)

\* No clip is longer than the footage there ever was.
Measured ==
    Exists => /\ file <= recorded
              /\ \A c \in Callers: phase[c] \in Building => aim[c] <= recorded

\* Once the event is gone and its deletion over, nothing is on disk and nobody is
\* about to put anything there.
SweptClean ==
    ~Exists /\ command = NoCommand =>
        /\ file = 0
        /\ \A c \in Callers: /\ phase[c] \notin {"publish", "measure", "cache"}
                             /\ phase[c] = "export" => aim[c] = 0

Clean == Measured /\ (~missed => SweptClean)

OrphanInv ==
    KeptInv /\ ~legacy /\ (retention = "sweep" => cut) /\ Clean

\* A request that has lost its event puts nothing on disk.
LEMMA ServeClean ==
    ASSUME OrphanInv, NEW c \in Callers, Serve(c)
    PROVE  Clean'
  <1> USE DEF requestVars, clipVars, eventVars
  <1>1. /\ recorded \in 0..Segments /\ file \in 0..Segments
        /\ phase \in [Callers -> RequestPhases] /\ aim \in [Callers -> 0..Segments]
        /\ missed \in BOOLEAN /\ Clean
    BY DEF OrphanInv, KeptInv, ClipInv, TypeOK, ClipTypes, RequestTypes
  <1>2. UNCHANGED <<event, recorded, command>>
    BY DEF Serve, ReadPath, Probe, DropFile, ClearPath, Recheck, Window, Export, Publish,
           Measure, RemoveJunk, Cache
  <1>11. missed => missed'
    BY DEF Serve, ReadPath, Probe, DropFile, ClearPath, Recheck, Window, Export, Publish,
           Measure, RemoveJunk, Cache
  <1>3. ASSUME Leaves(c), file' = file \/ file' = 0
        PROVE  Clean'
    BY <1>1, <1>2, <1>11, <1>3 DEF Leaves, Clean, Measured, SweptClean, Exists, Building
  <1>4. ASSUME NEW next \in RequestPhases \ Building, Goes(c, next), UNCHANGED aim,
               file' = file \/ file' = 0
        PROVE  Clean'
    BY <1>1, <1>2, <1>11, <1>4 DEF Goes, Clean, Measured, SweptClean, Exists, Building
  <1>5. CASE ReadPath(c) \/ Probe(c) \/ DropFile(c) \/ ClearPath(c) \/ Recheck(c)
    BY <1>3, <1>4, <1>5 DEF ReadPath, Probe, DropFile, ClearPath, Recheck, RequestPhases, Building
  <1>6. CASE Window(c)
    <2>1. CASE Leaves(c)
      BY <1>3, <1>6, <2>1 DEF Window
    <2>2. CASE Exists /\ aim' = [aim EXCEPT ![c] = Sent(Footage)] /\ Goes(c, "export")
      <3>1. Sent(Footage) \in Nat /\ Sent(Footage) <= recorded
        <4>1. Footage \in Nat /\ Footage <= recorded
          BY <1>1 DEF Footage
        <4> QED
          BY <1>1, <4>1, SentSound
      <3> QED
        BY <1>1, <1>2, <1>11, <1>6, <2>2, <3>1 DEF Window, Goes, Clean, Measured, SweptClean,
           Exists, Building
    <2> QED
      BY <1>6, <2>1, <2>2 DEF Window
  <1>7. CASE Export(c)
    BY <1>1, <1>2, <1>11, <1>7 DEF Export, Goes, Clean, Measured, SweptClean, Exists, Building
  <1>8. CASE Publish(c)
    BY <1>1, <1>2, <1>11, <1>8 DEF Publish, Goes, Clean, Measured, SweptClean, Exists, Building
  <1>9. CASE Measure(c)
    BY <1>1, <1>2, <1>11, <1>9 DEF Measure, Goes, Clean, Measured, SweptClean, Exists, Building
  <1>10. CASE RemoveJunk(c) \/ Cache(c)
    BY <1>3, <1>10 DEF RemoveJunk, Cache
  <1> QED
    BY <1>5, <1>6, <1>7, <1>8, <1>9, <1>10, Serve(c) DEF Serve

\* Every step of the invariant.
LEMMA OrphanInductive ==
    ASSUME OrphanInv, KeepClips, Commands \subseteq {"delete"}, [Next]_vars
    PROVE  OrphanInv'
  <1> USE DEF requestVars, clipVars, eventVars
  <1>1. KeptInv'
    BY KeptInductive DEF OrphanInv
  <1>2. CASE UNCHANGED vars
    BY <1>1, <1>2 DEF vars, OrphanInv, Clean, Measured, SweptClean, Exists
  <1>3. CASE Next
    <2>1. TypeOK
      BY DEF OrphanInv, KeptInv, ClipInv
    <2>2. ~legacy'
      BY <1>3, <2>1, DeletionsOnly DEF OrphanInv, IndexSegment, CloseEvent, MinutePasses,
         ViewerAsks, TakeGate, RetentionStarts, RetentionPassesOver, FootageCut, FootagelessSwept,
         DeleteBegins, DeleteRow, DeleteTakesGate, DeleteRemovesFile, TypeOK, Serve, ReadPath,
         Probe, DropFile,
         ClearPath, Recheck, Window, Export, Publish, Measure, RemoveJunk, Cache
    <2>3. (retention = "sweep" => cut)'
      BY <1>3, <2>1, DeletionsOnly DEF OrphanInv, IndexSegment, CloseEvent, MinutePasses,
         ViewerAsks, TakeGate, RetentionStarts, RetentionPassesOver, FootageCut, FootagelessSwept,
         DeleteBegins, DeleteRow, DeleteTakesGate, DeleteRemovesFile, TypeOK, Serve, ReadPath,
         Probe, DropFile,
         ClearPath, Recheck, Window, Export, Publish, Measure, RemoveJunk, Cache
    <2>4. /\ recorded \in Nat /\ file \in Nat
          /\ phase \in [Callers -> RequestPhases] /\ aim \in [Callers -> Nat]
          /\ Clean
      BY <2>1, RunAssumption DEF OrphanInv, TypeOK, ClipTypes, RequestTypes
    <2> SUFFICES Clean'
      BY <1>1, <2>2, <2>3 DEF OrphanInv
    <2>5. ASSUME NEW c \in Callers, Serve(c) PROVE Clean'
      BY <2>5, ServeClean
    <2>6. CASE IndexSegment
      BY <2>4, <2>6 DEF IndexSegment, Clean, Measured, SweptClean, Exists
    <2>7. CASE CloseEvent \/ MinutePasses \/ FootageCut
      BY <2>4, <2>7 DEF CloseEvent, MinutePasses, FootageCut, Clean, Measured, SweptClean, Exists
    <2>8. ASSUME NEW c \in Callers, Ask(c), UNCHANGED <<event, recorded, file, command, missed>>
          PROVE  Clean'
      BY <2>4, <2>8 DEF Ask, Goes, Clean, Measured, SweptClean, Exists, Building
    <2>9. ASSUME NEW c \in Callers, ViewerAsks(c) PROVE Clean'
      BY <2>8, <2>9 DEF ViewerAsks
    <2>10. ASSUME NEW c \in Callers, TakeGate(c) PROVE Clean'
      BY <2>4, <2>10 DEF TakeGate, Goes, Clean, Measured, SweptClean, Exists, Building
    <2>11. CASE RetentionStarts
      <3>1. CASE Ask(Keeper)
        BY <2>8, <2>11, <3>1 DEF RetentionStarts, Callers
      <3>2. CASE UNCHANGED requestVars
        BY <2>4, <2>11, <3>2 DEF RetentionStarts, Clean, Measured, SweptClean, Exists
      <3> QED
        BY <2>11, <3>1, <3>2 DEF RetentionStarts
    <2>12. CASE FootagelessSwept
      <3>1. CASE event = "closed" /\ ~path
        <4>5. Measured'
          BY <2>12, <3>1 DEF FootagelessSwept, Measured, Exists
        <4> SUFFICES ASSUME ~missed PROVE SweptClean'
          BY <2>12, <4>5 DEF FootagelessSwept, Clean
        <4>1. cut /\ Measured
          BY <2>4, <2>12 DEF FootagelessSwept, OrphanInv, Clean
        <4>2. recorded = 0 /\ ClipSound
          BY <3>1, <4>1 DEF OrphanInv, KeptInv, KeptSound, CutSound, Exists, ClipInv
        <4>3. file = 0
          BY <2>4, <3>1, <4>1, <4>2 DEF Measured, Exists
        <4>4. ASSUME NEW c \in Callers, phase[c] \in Building
              PROVE  phase[c] = "export" /\ aim[c] = 0
          <5>1. aim[c] = 0
            BY <2>4, <3>1, <4>1, <4>2, <4>4 DEF Measured, Exists
          <5>2. RequestSound(c)
            BY <3>1, <4>2 DEF ClipSound, Exists, OrphanInv
          <5> QED
            BY <4>4, <5>1, <5>2 DEF RequestSound, Building
        <4> QED
          BY <2>12, <3>1, <4>3, <4>4 DEF FootagelessSwept, SweptClean, Exists, Building
      <3>2. CASE ~(event = "closed" /\ ~path)
        BY <2>4, <2>12, <3>2 DEF FootagelessSwept, Clean, Measured, SweptClean, Exists
      <3> QED
        BY <3>1, <3>2
    <2>16. CASE RetentionPassesOver
      BY <2>4, <2>16 DEF RetentionPassesOver, Clean, Measured, Exists
    <2>13. CASE DeleteBegins
      <3>1. command' # NoCommand
        BY <2>13 DEF DeleteBegins, Begin, NoCommand
      <3> QED
        BY <2>4, <2>13, <3>1 DEF DeleteBegins, Clean, Measured, SweptClean, Exists
    <2>14. CASE DeleteRow \/ DeleteTakesGate
      <3>1. command' # NoCommand
        BY <2>1, <2>14 DEF DeleteRow, DeleteTakesGate, Then, NoCommand, TypeOK, CommandTypes
      <3> QED
        BY <2>4, <2>14, <3>1 DEF DeleteRow, DeleteTakesGate, Clean, Measured, SweptClean, Exists,
           Building
    <2>15. CASE DeleteRemovesFile
      <3>1. ~Exists' /\ file' = 0
        BY <2>15 DEF DeleteRemovesFile, LeftByDelete, At, OrphanInv, KeptInv, ClipInv,
           RowFollows, Exists
      <3>2. ASSUME NEW c \in Callers PROVE phase'[c] \notin Building
        <4>1. gate = Deleter /\ Deleter # c
          BY <2>15, CallerAssumption DEF DeleteRemovesFile, At, OrphanInv, KeptInv, ClipInv,
             GateHeld
        <4>2. phase[c] \notin Gated
          BY <4>1 DEF OrphanInv, KeptInv, ClipInv, GateHeld
        <4> QED
          BY <2>15, <4>2 DEF DeleteRemovesFile, Gated, Building
      <3> QED
        BY <3>1, <3>2 DEF Clean, Measured, SweptClean, Building
    <2> QED
      BY <1>3, <2>1, <2>5, <2>6, <2>7, <2>9, <2>10, <2>11, <2>12, <2>13, <2>14, <2>15, <2>16,
         DeletionsOnly DEF TypeOK
  <1> QED
    BY <1>2, <1>3

\* With keep_event_clips and no clip from an older version, a clip on disk is the
\* clip of an event that is still there whenever nothing is under way, unless retention's
\* own export missed.
THEOREM NoOrphan ==
    ASSUME KeepClips, ~BadClips, Commands \subseteq {"delete"}
    PROVE  Spec => []NoOrphanClip
  <1>1. Init => OrphanInv
    <2> SUFFICES ASSUME Init PROVE OrphanInv
      OBVIOUS
    <2>1. ~legacy
      BY ~BadClips DEF Init
    <2>2. Clean
      BY <2>1 DEF Init, Clean, Measured, SweptClean, Exists, Building
    <2> QED
      BY <2>1, <2>2, KeptInitial DEF Init, OrphanInv
  <1>2. OrphanInv /\ [Next]_vars => OrphanInv'
    BY OrphanInductive
  <1>3. OrphanInv => NoOrphanClip
    BY DEF OrphanInv, KeptInv, ClipInv, TypeOK, ClipTypes, Clean, SweptClean, NoOrphanClip, Quiet
  <1> QED
    BY <1>1, <1>2, <1>3, PTL DEF Spec

=============================================================================
