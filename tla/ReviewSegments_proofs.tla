------------------------ MODULE ReviewSegments_proofs ------------------------
(***************************************************************************)
(* Proofs about ReviewSegments, for any number of events and lanes and for *)
(* any gap, cap and floor: deletions, rebuilds, restarts and contention    *)
(* included.                                                               *)
(***************************************************************************)
EXTENDS ReviewSegments, TLAPS

USE DEF history

-----------------------------------------------------------------------------
(* Type correctness. *)

\* Staling keeps the phases, and leaves no upsert with a snapshot it can write from.
LEMMA StaleTypes ==
    ASSUME NEW tasks \in [Events -> Phases]
    PROVE  /\ Stale(tasks) \in [Events -> Phases]
           /\ \A e \in Events: Stale(tasks)[e] # "selected"
           /\ \A e \in Events: Stale(tasks)[e] # "stale" => Stale(tasks)[e] = tasks[e]
  BY DEF Stale, Phases

\* The end of an event, and of a widened window, is on the extended clock.
LEMMA EndTypes ==
    ASSUME EventTypes, NEW e \in Events
    PROVE  /\ event[e].start \in Times /\ event[e].lane \in Lanes
           /\ EndOf(e) \in Windows
  BY WindowAssumption DEF EventTypes, EndOf, Times, Windows

LEMMA WidenedTypes ==
    ASSUME NEW start \in Times, NEW end \in Windows
    PROVE  /\ Widened(start, end) \in Windows
           /\ end <= Widened(start, end)
  BY WindowAssumption DEF Widened, Times, Windows

\* A card made for one event is a card.
LEMMA FreshTypes ==
    ASSUME EventTypes, TaskTypes, NEW e \in Events
    PROVE  FreshCard(e) \in Card
  <1>1. upTo[e] \in Windows
    BY DEF TaskTypes
  <1> QED
    BY <1>1, EndTypes, WidenedTypes DEF FreshCard, Card

\* So is a merged one.
LEMMA MergeTypes ==
    ASSUME EventTypes, cards \subseteq Card, NEW e \in Events,
           NEW merged \in SUBSET Card, Merge(e, merged)
    PROVE  cards' \subseteq Card
  <1> DEFINE members == Members(e, merged)
  <1>1. members \subseteq Events
    BY DEF Members, Card
  <1>2. Starts(merged, members) \subseteq Times
    BY <1>1, EndTypes DEF Starts, Card
  <1>3. Ends(merged, members) \subseteq Windows
    BY <1>1, EndTypes DEF Ends, Card
  <1>4. PICK start \in Starts(merged, members), end \in Ends(merged, members):
            cards' = (cards \ merged)
                \cup {[lane |-> event[e].lane, start |-> start, end |-> Widened(start, end),
                       members |-> members]}
    BY DEF Merge, Folded
  <1>5. start \in Times /\ Widened(start, end) \in Windows /\ event[e].lane \in Lanes
    BY <1>2, <1>3, <1>4, EndTypes, WidenedTypes
  <1> HIDE DEF members
  <1>6. [lane |-> event[e].lane, start |-> start, end |-> Widened(start, end),
         members |-> members] \in Card
    BY <1>1, <1>5 DEF Card
  <1> QED
    BY <1>4, <1>6

\* Every step preserves the types of rows and cards.
LEMMA RowTypes ==
    ASSUME TypeOK, [Next]_vars
    PROVE  EventTypes' /\ cards' \subseteq Card
  <1> USE DEF TypeOK
  <1>1. ASSUME NEW e \in Events, StartEvent(e) \/ CloseEvent(e)
        PROVE  EventTypes' /\ cards' \subseteq Card
    BY <1>1 DEF StartEvent, CloseEvent, EventTypes, States
  <1>2. ASSUME NEW e \in Events, Write(e)
        PROVE  EventTypes' /\ cards' \subseteq Card
    <2>1. found[e] \in SUBSET Card
      BY DEF TaskTypes
    <2> QED
      BY <1>2, <2>1, FreshTypes, MergeTypes DEF Write, EventTypes
  <1>3. ASSUME NEW e \in Events, Repair(e)
        PROVE  EventTypes' /\ cards' \subseteq Card
    BY <1>3 DEF Repair, RepairCard, EventTypes
  <1>4. ASSUME NEW e \in Events,
               Reanalyse(e) \/ LoadEvent(e) \/ SelectCards(e) \/ Lose(e) \/ RebuildEvent(e)
        PROVE  EventTypes' /\ cards' \subseteq Card
    BY <1>4 DEF Reanalyse, LoadEvent, SelectCards, Lose, RebuildEvent, EventTypes
  <1>5. ASSUME NEW ids \in SUBSET Events, DeleteRows(ids)
        PROVE  EventTypes' /\ cards' \subseteq Card
    BY <1>5 DEF DeleteRows, EventTypes, States
  <1>6. CASE Tick
    BY <1>6, WindowAssumption DEF Tick, EventTypes, Times
  <1>7. CASE Sweep \/ RebuildClear \/ RebuildDone \/ UNCHANGED vars
    BY <1>7 DEF Sweep, RebuildClear, RebuildDone, vars, EventTypes
  <1>8. CASE Restart
    BY <1>8 DEF Restart, EventTypes, States
  <1> QED
    BY <1>1, <1>2, <1>3, <1>4, <1>5, <1>6, <1>7, <1>8 DEF Next

\* Of upserts.
LEMMA UpsertTypes ==
    ASSUME TypeOK, [Next]_vars
    PROVE  TaskTypes'
  <1> USE DEF TypeOK, TaskTypes
  <1>1. task \in [Events -> Phases] /\ upTo \in [Events -> Windows] /\ found \in [Events -> SUBSET Card]
    OBVIOUS
  <1>2. ASSUME NEW e \in Events, StartEvent(e) \/ CloseEvent(e)
        PROVE  TaskTypes'
    <2>1. \A p \in Phases: [task EXCEPT ![e] = p] \in [Events -> Phases]
      BY <1>1
    <2>2. \E p \in Phases: task' = Stale([task EXCEPT ![e] = p])
      <3>1. "due" \in Phases /\ (IF OpenUpserts THEN "due" ELSE "none") \in Phases
        BY DEF Phases
      <3>2. \/ task' = Stale([task EXCEPT ![e] = IF OpenUpserts THEN "due" ELSE "none"])
            \/ task' = Stale([task EXCEPT ![e] = "due"])
        BY <1>2 DEF StartEvent, CloseEvent
      <3> QED
        BY <3>1, <3>2, Zenon
    <2>3. task' \in [Events -> Phases]
      <3>1. PICK p \in Phases: task' = Stale([task EXCEPT ![e] = p])
        BY <2>2
      <3>2. [task EXCEPT ![e] = p] \in [Events -> Phases]
        BY <2>1
      <3>3. Stale([task EXCEPT ![e] = p]) \in [Events -> Phases]
        BY <3>2, StaleTypes
      <3> QED
        BY <3>1, <3>3
    <2>4. UNCHANGED <<upTo, found>>
      BY <1>2 DEF StartEvent, CloseEvent
    <2> QED
      BY <1>1, <2>3, <2>4
  <1>3. ASSUME NEW e \in Events, Reanalyse(e) \/ RebuildEvent(e)
        PROVE  TaskTypes'
    BY <1>1, <1>3 DEF Reanalyse, RebuildEvent, Phases
  <1>4. ASSUME NEW e \in Events, LoadEvent(e)
        PROVE  TaskTypes'
    BY <1>1, <1>4, EndTypes DEF LoadEvent, Phases
  <1>5. ASSUME NEW e \in Events, SelectCards(e)
        PROVE  TaskTypes'
    BY <1>1, <1>5 DEF SelectCards, Phases
  <1>6. ASSUME NEW e \in Events, Write(e) \/ Lose(e)
        PROVE  TaskTypes'
    <2>1. [task EXCEPT ![e] = "none"] \in [Events -> Phases]
      BY <1>1 DEF Phases
    <2>2. 0 \in Windows
      BY WindowAssumption DEF Windows
    <2>3. Stale([task EXCEPT ![e] = "none"]) \in [Events -> Phases]
      BY <2>1, StaleTypes
    <2>4. /\ task' \in {[task EXCEPT ![e] = "none"], Stale([task EXCEPT ![e] = "none"])}
          /\ upTo' = [upTo EXCEPT ![e] = 0] /\ found' = [found EXCEPT ![e] = {}]
      BY <1>6 DEF Write, Lose
    <2> QED
      BY <1>1, <2>1, <2>2, <2>3, <2>4
  <1>7. ASSUME NEW e \in Events, Repair(e)
        PROVE  TaskTypes'
    <2>1. CASE UNCHANGED task \/ task' = Stale(task)
      BY <1>1, <1>7, <2>1, StaleTypes DEF Repair
    <2>2. CASE \E m \in Events: task' = [task EXCEPT ![m] = "due"]
      BY <1>1, <1>7, <2>2 DEF Repair, Phases
    <2>3. \A c \in cards: c.members \subseteq Events
      BY DEF Card
    <2> QED
      BY <1>7, <2>1, <2>2, <2>3 DEF Repair, RepairCard
  <1>8. ASSUME NEW ids \in SUBSET Events, DeleteRows(ids)
        PROVE  TaskTypes'
    BY <1>1, <1>8, StaleTypes DEF DeleteRows
  <1>9. CASE Tick \/ Sweep \/ RebuildClear \/ RebuildDone \/ UNCHANGED vars
    BY <1>1, <1>9, StaleTypes DEF Tick, Sweep, RebuildClear, RebuildDone, vars
  <1>10. CASE Restart
    <2>1. "none" \in Phases /\ 0 \in Windows
      BY WindowAssumption DEF Phases, Windows
    <2> QED
      BY <1>10, <2>1 DEF Restart
  <1> QED
    BY <1>2, <1>3, <1>4, <1>5, <1>6, <1>7, <1>8, <1>9, <1>10 DEF Next

\* Of deletions and rebuilds.
LEMMA OtherTypes ==
    ASSUME TypeOK, [Next]_vars
    PROVE  JobTypes'
  <1> USE DEF TypeOK, JobTypes
  <1>1. ASSUME NEW e \in Events,
               StartEvent(e) \/ CloseEvent(e) \/ Reanalyse(e) \/ LoadEvent(e) \/ SelectCards(e)
               \/ Write(e) \/ Lose(e)
        PROVE  JobTypes'
    BY <1>1 DEF StartEvent, CloseEvent, Reanalyse, LoadEvent, SelectCards, Write, Lose
  <1>2. ASSUME NEW e \in Events, Repair(e)
        PROVE  JobTypes'
    <2>1. \A c \in cards: c.members \subseteq Events
      BY DEF Card
    <2>2. \E awaits \in SUBSET Events:
              deletion' = [deletion EXCEPT !.ids = @ \ {e}, !.awaits = awaits]
      <3>1. CASE \E c \in cards: e \in c.members /\ RepairCard(e, c)
        <4>1. PICK c \in cards: RepairCard(e, c)
          BY <3>1
        <4>2. CASE \E m \in c.members: deletion' = [deletion EXCEPT !.ids = @ \ {e}, !.awaits = {m}]
          BY <2>1, <4>2
        <4>3. CASE deletion' = [deletion EXCEPT !.ids = @ \ {e}, !.awaits = {}]
          BY <4>3
        <4> QED
          BY <4>1, <4>2, <4>3 DEF RepairCard
      <3>2. CASE deletion' = [deletion EXCEPT !.ids = @ \ {e}, !.awaits = {}]
        BY <3>2
      <3> QED
        BY <1>2, <3>1, <3>2 DEF Repair
    <2> QED
      BY <1>2, <2>2 DEF Repair
  <1>3. ASSUME NEW e \in Events, RebuildEvent(e)
        PROVE  JobTypes'
    BY <1>3 DEF RebuildEvent
  <1>4. ASSUME NEW ids \in SUBSET Events, DeleteRows(ids)
        PROVE  JobTypes'
    BY <1>4 DEF DeleteRows, AfterRows, NoDeletion
  <1>5. CASE Tick \/ Sweep \/ UNCHANGED vars
    BY <1>5 DEF Tick, Sweep, NoDeletion, vars
  <1>6. CASE RebuildClear \/ RebuildDone
    <2>1. rebuild' \in [phase : {"none", "replay"}, done : SUBSET Events, awaits : SUBSET Events]
      BY <1>6 DEF RebuildClear, RebuildDone, NoRebuild
    <2>2. rebuilt' \in BOOLEAN /\ UNCHANGED <<deletion, boots>>
      BY <1>6 DEF RebuildClear, RebuildDone
    <2> QED
      BY <2>1, <2>2
  <1>7. CASE Restart
    <2>1. boots' \in 0..MaxBoots
      <3>1. boots \in 0..MaxBoots /\ boots < MaxBoots /\ boots' = boots + 1
        BY <1>7 DEF Restart
      <3> QED
        BY <3>1, RunAssumption
    <2>2. deletion' = NoDeletion /\ rebuild' = NoRebuild /\ UNCHANGED rebuilt
      BY <1>7 DEF Restart
    <2> QED
      BY <2>1, <2>2 DEF NoDeletion, NoRebuild
  <1> QED
    BY <1>1, <1>2, <1>3, <1>4, <1>5, <1>6, <1>7 DEF Next

\* What is remembered, and by which steps.
LEMMA HistorySteps ==
    ASSUME [Next]_vars
    PROVE  /\ UNCHANGED missed \/ RebuildDone \/ Restart
           /\ \/ UNCHANGED lost \/ \E e \in Events: Write(e) \/ Lose(e)
              \/ \E ids \in SUBSET Events: DeleteRows(ids)
           /\ UNCHANGED <<opened, brief>> \/ \E e \in Events: LoadEvent(e)
  BY DEF Next, vars, Tick, StartEvent, CloseEvent, Reanalyse, LoadEvent, SelectCards, Write, Lose,
         Repair, RebuildEvent, DeleteRows, Sweep, RebuildClear, RebuildDone, Restart

LEMMA RememberedTypes ==
    ASSUME TypeOK, [Next]_vars
    PROVE  HistoryTypes'
  <1> USE DEF TypeOK, HistoryTypes
  <1>1. missed' \subseteq Events
    BY HistorySteps DEF RebuildDone, Restart, JobTypes
  <1>2. lost' \subseteq Events
    BY HistorySteps DEF Write, Lose, DeleteRows
  <1>3. opened' \subseteq Lanes /\ brief' \subseteq Lanes
    <2>1. \A e \in Events: event[e].lane \in Lanes
      BY DEF EventTypes
    <2> QED
      BY <2>1, HistorySteps DEF LoadEvent
  <1> QED
    BY <1>1, <1>2, <1>3

LEMMA TypeInductive == TypeOK /\ [Next]_vars => TypeOK'
  BY RowTypes, UpsertTypes, OtherTypes, RememberedTypes DEF TypeOK

LEMMA TypeInitial == Init => TypeOK
  <1> SUFFICES ASSUME Init PROVE EventTypes /\ cards \subseteq Card /\ TaskTypes /\ JobTypes /\ HistoryTypes
    BY DEF TypeOK
  <1>1. EventTypes
    BY WindowAssumption DEF Init, EventTypes, Times, States
  <1>2. TaskTypes /\ cards \subseteq Card
    BY WindowAssumption DEF Init, TaskTypes, Phases, Windows
  <1>3. JobTypes /\ HistoryTypes
    BY RunAssumption DEF Init, JobTypes, NoDeletion, NoRebuild, HistoryTypes
  <1> QED
    BY <1>1, <1>2, <1>3

\* Every variable keeps its type: no merge, however many cards it folds, leaves the
\* clock's range.
THEOREM TypeCorrect == Spec => []TypeOK
  BY TypeInitial, TypeInductive, PTL DEF Spec

-----------------------------------------------------------------------------
(* The invariant: an event is only on a card that shows its beginning, and   *)
(* an upsert that may still write saw every card it could be on.             *)

\* An event ends after it starts, and starts in the past.
InOrder ==
    \A e \in Events: /\ event[e].state = "open" => event[e].start <= now
                     /\ event[e].state \in {"closed", "deleted"} => event[e].start <= event[e].end

\* An upsert under way has loaded an event that was there.
Loaded ==
    \A e \in Events: task[e] \in {"loaded", "selected"}
        => event[e].state # "absent" /\ event[e].start <= upTo[e]

\* A card shows the beginning of each of its events, and its lane is theirs.
ShowsMembers(c) ==
    \A e \in c.members: /\ event[e].state # "absent" /\ event[e].lane = c.lane
                        /\ c.start <= event[e].start /\ event[e].start <= c.end

\* A snapshot the upsert can still write from is the table as it is.
FreshSnapshots ==
    \A e \in Events: task[e] = "selected" => found[e] = {c \in cards : Absorbs(e, c)}

\* The ids of a deletion under way are deleted.
CallGone == \A e \in deletion.call: event[e].state = "deleted"

CardInv ==
    /\ TypeOK /\ InOrder /\ Loaded /\ CallGone
    /\ \A c \in cards: ShowsMembers(c)
    /\ FreshSnapshots /\ OneCardPerEvent

\* What is loaded of an event does not end before it starts.
LEMMA EndAfterStart ==
    ASSUME EventTypes, InOrder, NEW e \in Events, event[e].state # "absent"
    PROVE  event[e].start <= EndOf(e)
  <1>1. event[e].start \in Nat /\ event[e].end \in Nat /\ event[e].state \in States
    BY WindowAssumption DEF EventTypes, Times
  <1> QED
    BY <1>1, WindowAssumption DEF InOrder, EndOf, States

\* An upsert finds the card its event is on.
LEMMA FindsItsCard ==
    ASSUME CardInv, NEW e \in Events, task[e] = "selected", NEW c \in cards, e \in c.members
    PROVE  c \in found[e]
  <1>1. /\ c.lane = event[e].lane /\ c.start <= event[e].start /\ event[e].start <= c.end
        /\ event[e].start <= upTo[e]
    BY DEF CardInv, ShowsMembers, Loaded
  <1>2. c.start \in Nat /\ c.end \in Nat /\ event[e].start \in Nat /\ upTo[e] \in Nat
    BY WindowAssumption DEF CardInv, TypeOK, EventTypes, TaskTypes, Card, Times, Windows
  <1>3. Absorbs(e, c)
    BY <1>1, <1>2, WindowAssumption DEF Absorbs, Near, Overlaps
  <1> QED
    BY <1>3 DEF CardInv, FreshSnapshots

\* A merge replaces the merged cards by one that shows all they showed, and the
\* surviving events of all of them.
LEMMA MergeCovers ==
    ASSUME CardInv, NEW e \in Events, task[e] = "selected", Merge(e, found[e])
    PROVE  \E new \in Card:
              /\ cards' = (cards \ found[e]) \cup {new}
              /\ new.members = Members(e, found[e]) /\ new.lane = event[e].lane
              /\ \A c \in found[e]: new.start <= c.start /\ c.end <= new.end
              /\ \A m \in new.members: /\ new.start <= event[m].start /\ event[m].start <= new.end
                                       /\ EndOf(m) <= new.end
  <1> DEFINE members == Members(e, found[e])
             starts  == Starts(found[e], members)
             ends    == Ends(found[e], members)
  <1>1. found[e] \subseteq Card /\ EventTypes /\ InOrder
    BY DEF CardInv, TypeOK, TaskTypes
  <1>2. members \subseteq Events /\ \A m \in members: event[m].state # "absent"
    BY <1>1 DEF Members, Card, Exists
  <1>3. /\ \A m \in members: event[m].start \in starts /\ EndOf(m) \in ends
        /\ \A c \in found[e]: c.start \in starts /\ c.end \in ends
    BY DEF Starts, Ends
  <1>4. starts \subseteq Times /\ ends \subseteq Windows
    BY <1>1, <1>2, EndTypes DEF Starts, Ends, Card
  <1>5. PICK start \in starts, end \in ends:
            /\ Earliest(start, starts) /\ Latest(end, ends)
            /\ cards' = (cards \ found[e])
                  \cup {[lane |-> event[e].lane, start |-> start, end |-> Widened(start, end),
                         members |-> members]}
    BY DEF Merge, Folded
  <1>6. \A m \in members: event[m].start <= EndOf(m)
    BY <1>1, <1>2, EndAfterStart
  <1> HIDE DEF members, starts, ends
  <1> DEFINE new == [lane |-> event[e].lane, start |-> start, end |-> Widened(start, end),
                     members |-> members]
  <1>7. start \in Times /\ end \in Windows /\ Widened(start, end) \in Windows
        /\ end <= Widened(start, end) /\ event[e].lane \in Lanes
    BY <1>1, <1>4, <1>5, WidenedTypes, EndTypes
  <1>8. new \in Card
    BY <1>2, <1>7 DEF Card
  <1>9. ASSUME NEW c \in found[e] PROVE start <= c.start /\ c.end <= Widened(start, end)
    <2>1. start <= c.start /\ c.end <= end
      BY <1>3, <1>5 DEF Earliest, Latest
    <2> QED
      BY <1>1, <1>7, <2>1, WindowAssumption DEF Card, Windows
  <1>10. ASSUME NEW m \in members
         PROVE  /\ start <= event[m].start /\ event[m].start <= Widened(start, end)
                /\ EndOf(m) <= Widened(start, end)
    <2>1. start <= event[m].start /\ EndOf(m) <= end /\ event[m].start <= EndOf(m)
      BY <1>3, <1>5, <1>6 DEF Earliest, Latest
    <2>2. event[m].start \in Nat /\ EndOf(m) \in Nat
      BY <1>1, <1>2, EndTypes, WindowAssumption DEF Times, Windows
    <2> QED
      BY <1>7, <2>1, <2>2, WindowAssumption DEF Windows
  <1> QED
    BY <1>5, <1>8, <1>9, <1>10 DEF members

\* A write leaves every event on one card, which shows its beginning.
LEMMA WriteInv ==
    ASSUME CardInv, NEW e \in Events, Write(e)
    PROVE  (\A c \in cards': ShowsMembers(c)') /\ OneCardPerEvent'
  <1>1. task[e] = "selected" /\ UNCHANGED event
    BY DEF Write
  <1>2. \A c \in cards: ShowsMembers(c) /\ c.members \subseteq Events
    BY DEF CardInv, TypeOK, Card
  <1>3. OneCardPerEvent /\ found[e] \subseteq cards /\ \A c \in found[e]: c.lane = event[e].lane
    BY <1>1 DEF CardInv, FreshSnapshots, Absorbs
  <1>4. event[e].state # "absent" /\ event[e].start <= upTo[e]
    BY <1>1 DEF CardInv, Loaded
  <1>5. CASE found[e] = {}
    <2>1. \A c \in cards: e \notin c.members
      BY <1>1, <1>5, FindsItsCard
    <2>2. PICK new: new = FreshCard(e) /\ cards' = cards \cup {new}
      BY <1>5 DEF Write
    <2>3. event[e].start \in Times /\ upTo[e] \in Windows
      BY DEF CardInv, TypeOK, EventTypes, TaskTypes
    <2>4. event[e].start <= Widened(event[e].start, upTo[e])
      BY <1>4, <2>3, WindowAssumption DEF Widened, Times, Windows
    <2>5. /\ new.members = {e} /\ new.lane = event[e].lane
          /\ new.start = event[e].start
          /\ new.end = Widened(event[e].start, upTo[e])
      BY <2>2 DEF FreshCard
    <2>6. ShowsMembers(new)'
      BY <1>1, <1>4, <2>3, <2>4, <2>5, WindowAssumption DEF ShowsMembers, Times
    <2>7. \A c \in cards: ShowsMembers(c)'
      BY <1>1, <1>2 DEF ShowsMembers
    <2>8. OneCardPerEvent'
      BY <1>3, <2>1, <2>2, <2>5 DEF OneCardPerEvent
    <2> QED
      BY <2>2, <2>6, <2>7, <2>8
  <1>6. CASE UNCHANGED cards
    BY <1>1, <1>2, <1>3, <1>6 DEF ShowsMembers, OneCardPerEvent
  <1>7. CASE Merge(e, found[e])
    <2>1. PICK new \in Card:
              /\ cards' = (cards \ found[e]) \cup {new}
              /\ new.members = Members(e, found[e]) /\ new.lane = event[e].lane
              /\ \A m \in new.members: new.start <= event[m].start /\ event[m].start <= new.end
      BY <1>1, <1>7, MergeCovers
    <2>2. ASSUME NEW m \in new.members
          PROVE  event[m].state # "absent" /\ event[m].lane = new.lane
      <3>1. m = e \/ \E c \in found[e]: m \in c.members
        BY <2>1 DEF Members
      <3> QED
        BY <1>2, <1>3, <1>4, <2>1, <3>1 DEF ShowsMembers
    <2>3. ShowsMembers(new)'
      BY <1>1, <2>1, <2>2 DEF ShowsMembers
    <2>4. \A c \in cards: ShowsMembers(c)'
      BY <1>1, <1>2 DEF ShowsMembers
    <2>5. ASSUME NEW c \in cards \ found[e]
          PROVE  c.members \cap new.members = {}
      <3>1. e \notin c.members
        BY <1>1, <2>5, FindsItsCard
      <3>2. \A d \in found[e]: c.members \cap d.members = {}
        BY <1>3, <2>5 DEF OneCardPerEvent
      <3> QED
        BY <2>1, <3>1, <3>2 DEF Members
    <2>6. OneCardPerEvent'
      BY <1>3, <2>1, <2>5 DEF OneCardPerEvent
    <2> QED
      BY <2>1, <2>3, <2>4, <2>6
  <1> QED
    BY <1>5, <1>6, <1>7 DEF Write

\* Rows move on without leaving their place in time or their lane.
LEMMA RowsInOrder ==
    ASSUME CardInv, [Next]_vars
    PROVE  /\ InOrder'
           /\ \A e \in Events: event[e].state # "absent" =>
                 /\ event'[e].state # "absent"
                 /\ event'[e].start = event[e].start /\ event'[e].lane = event[e].lane
  <1>1. event \in [Events -> [state : States, lane : Lanes, start : Times, end : Times]]
        /\ now \in Times /\ InOrder
    BY DEF CardInv, TypeOK, EventTypes
  <1>2. ASSUME UNCHANGED event, now <= now'
        PROVE  InOrder'
    <2>1. now \in Nat /\ now' \in Nat /\ \A e \in Events: event[e].start \in Nat
      BY <1>1, TypeInductive, WindowAssumption DEF CardInv, TypeOK, EventTypes, Times
    <2> QED
      BY <1>1, <1>2, <2>1 DEF InOrder
  <1>3. ASSUME NEW e \in Events, StartEvent(e) \/ CloseEvent(e)
        PROVE  /\ InOrder'
               /\ \A m \in Events: event[m].state # "absent" =>
                     /\ event'[m].state # "absent"
                     /\ event'[m].start = event[m].start /\ event'[m].lane = event[m].lane
    BY <1>1, <1>3, WindowAssumption DEF StartEvent, CloseEvent, InOrder, Times
  <1>4. ASSUME NEW e \in Events,
               Reanalyse(e) \/ LoadEvent(e) \/ SelectCards(e) \/ Write(e) \/ Lose(e)
               \/ Repair(e) \/ RebuildEvent(e)
        PROVE  UNCHANGED <<event, now>>
    BY <1>4 DEF Reanalyse, LoadEvent, SelectCards, Write, Lose, Repair, RebuildEvent
  <1>5. ASSUME NEW ids \in SUBSET Events, DeleteRows(ids)
        PROVE  /\ InOrder'
               /\ \A m \in Events: event[m].state # "absent" =>
                     /\ event'[m].state # "absent"
                     /\ event'[m].start = event[m].start /\ event'[m].lane = event[m].lane
    BY <1>1, <1>5 DEF DeleteRows, InOrder
  <1>6. CASE Tick \/ Sweep \/ RebuildClear \/ RebuildDone \/ UNCHANGED vars
    <2>1. UNCHANGED event /\ (now' = now \/ now' = now + 1)
      BY <1>6 DEF Tick, Sweep, RebuildClear, RebuildDone, vars
    <2>2. now <= now'
      BY <1>1, <2>1, WindowAssumption DEF Times
    <2> QED
      BY <1>2, <2>1, <2>2
  <1>7. CASE Restart
    <2>1. ASSUME NEW e \in Events
          PROVE  /\ event'[e].start = event[e].start /\ event'[e].lane = event[e].lane
                 /\ event'[e].state = IF event[e].state = "open" THEN "closed" ELSE event[e].state
                 /\ event'[e].end = IF event[e].state = "open" THEN event[e].start ELSE event[e].end
                 /\ event[e].start \in Nat
      <3>1. event'[e] = IF event[e].state = "open"
                        THEN [event[e] EXCEPT !.state = "closed", !.end = event[e].start]
                        ELSE event[e]
        BY <1>7 DEF Restart
      <3>2. event[e] \in [state : States, lane : Lanes, start : Times, end : Times]
        BY <1>1
      <3>3. event[e].start \in Nat
        BY <3>2, WindowAssumption DEF Times
      <3> QED
        BY <3>1, <3>2, <3>3
    <2>2. InOrder'
      BY <1>1, <2>1 DEF InOrder
    <2> QED
      BY <2>1, <2>2
  <1>8. now <= now
    BY <1>1, WindowAssumption DEF Times
  <1> QED
    BY <1>2, <1>3, <1>4, <1>5, <1>6, <1>7, <1>8 DEF Next

\* An upsert that is under way after a step was under way before it, with what it
\* had loaded, or has just loaded its event.
LEMMA LoadedKept ==
    ASSUME CardInv, [Next]_vars
    PROVE  Loaded'
  <1>1. /\ TypeOK /\ Loaded /\ task \in [Events -> Phases] /\ upTo \in [Events -> Windows]
        /\ EventTypes /\ InOrder
    BY DEF CardInv, TypeOK, TaskTypes
  <1>2. \A e \in Events: event[e].state # "absent" =>
            event'[e].state # "absent" /\ event'[e].start = event[e].start
    BY RowsInOrder
  <1>3. ASSUME UNCHANGED upTo,
               \A e \in Events: task'[e] \in {"loaded", "selected"}
                   => task[e] \in {"loaded", "selected"}
        PROVE  Loaded'
    BY <1>1, <1>2, <1>3 DEF Loaded
  <1>4. ASSUME NEW e \in Events, LoadEvent(e)
        PROVE  Loaded'
    <2>1. Exists(e) => event[e].start <= EndOf(e)
      BY <1>1, EndAfterStart DEF Exists
    <2> QED
      BY <1>1, <1>4, <2>1 DEF LoadEvent, Loaded, Exists
  <1>5. ASSUME NEW e \in Events, Write(e) \/ Lose(e)
        PROVE  Loaded'
    <2> DEFINE tasks == [task EXCEPT ![e] = "none"]
    <2>1. tasks \in [Events -> Phases] /\ tasks[e] = "none"
          /\ \A m \in Events: m # e => tasks[m] = task[m]
      BY <1>1 DEF Phases
    <2>2. task' = Stale(tasks) \/ task' = tasks
      BY <1>5 DEF Write, Lose
    <2>3. \A m \in Events: upTo'[m] = IF m = e THEN 0 ELSE upTo[m]
      BY <1>1, <1>5 DEF Write, Lose
    <2>4. UNCHANGED event
      BY <1>5 DEF Write, Lose
    <2> HIDE DEF tasks
    <2>5. \A m \in Events: task'[m] \in {"loaded", "selected"} => task'[m] = tasks[m]
      BY <2>1, <2>2, StaleTypes
    <2> QED
      BY <1>1, <2>1, <2>3, <2>4, <2>5 DEF Loaded
  <1>6. ASSUME NEW e \in Events, NEW p \in Phases \ {"loaded", "selected"},
               task' = [task EXCEPT ![e] = p] \/ task' = Stale([task EXCEPT ![e] = p]),
               UNCHANGED upTo
        PROVE  Loaded'
    <2> DEFINE tasks == [task EXCEPT ![e] = p]
    <2>1. tasks \in [Events -> Phases] /\ tasks[e] = p
          /\ \A m \in Events: m # e => tasks[m] = task[m]
      BY <1>1
    <2>2. task' = Stale(tasks) \/ task' = tasks
      BY <1>6
    <2> HIDE DEF tasks
    <2>3. \A m \in Events: task'[m] \in {"loaded", "selected"} => task'[m] = tasks[m]
      BY <2>1, <2>2, StaleTypes
    <2> QED
      BY <1>3, <1>6, <2>1, <2>3
  <1>7. ASSUME NEW e \in Events, StartEvent(e) \/ CloseEvent(e) \/ Reanalyse(e) \/ RebuildEvent(e)
        PROVE  Loaded'
    <2>1. /\ "due" \in Phases \ {"loaded", "selected"}
          /\ (IF OpenUpserts THEN "due" ELSE "none") \in Phases \ {"loaded", "selected"}
      BY DEF Phases
    <2>2. UNCHANGED upTo
      BY <1>7 DEF StartEvent, CloseEvent, Reanalyse, RebuildEvent
    <2>3. \/ task' = Stale([task EXCEPT ![e] = IF OpenUpserts THEN "due" ELSE "none"])
          \/ task' = Stale([task EXCEPT ![e] = "due"])
          \/ task' = [task EXCEPT ![e] = "due"]
      BY <1>7 DEF StartEvent, CloseEvent, Reanalyse, RebuildEvent
    <2> QED
      BY <1>6, <2>1, <2>2, <2>3
  <1>8. ASSUME NEW e \in Events, SelectCards(e)
        PROVE  Loaded'
    BY <1>1, <1>3, <1>8 DEF SelectCards
  <1>9. ASSUME NEW e \in Events, Repair(e)
        PROVE  Loaded'
    <2>1. UNCHANGED upTo /\ \A c \in cards: c.members \subseteq Events
      BY <1>1, <1>9 DEF Repair, TypeOK, Card
    <2>2. CASE \E m \in Events: task' = [task EXCEPT ![m] = "due"]
      BY <1>6, <2>1, <2>2 DEF Phases
    <2>3. CASE UNCHANGED task \/ task' = Stale(task)
      BY <1>1, <1>3, <2>1, <2>3, StaleTypes
    <2> QED
      BY <1>9, <2>1, <2>2, <2>3 DEF Repair, RepairCard
  <1>10. CASE \/ \E ids \in SUBSET Events: DeleteRows(ids)
              \/ Tick \/ Sweep \/ RebuildClear \/ RebuildDone \/ UNCHANGED vars
    <2>1. UNCHANGED upTo /\ (UNCHANGED task \/ task' = Stale(task))
      BY <1>10 DEF DeleteRows, Tick, Sweep, RebuildClear, RebuildDone, vars
    <2> QED
      BY <1>1, <1>3, <2>1, StaleTypes
  <1>11. CASE Restart
    BY <1>11 DEF Restart, Loaded
  <1> QED
    BY <1>4, <1>5, <1>7, <1>8, <1>9, <1>10, <1>11 DEF Next

\* A step leaves the cards alone, or leaves nobody a snapshot to write from.
LEMMA SnapshotsKept ==
    ASSUME CardInv, [Next]_vars
    PROVE  FreshSnapshots'
  <1>1. /\ task \in [Events -> Phases] /\ upTo \in [Events -> Windows]
        /\ found \in [Events -> SUBSET Card] /\ TypeOK /\ FreshSnapshots /\ Loaded
    BY DEF CardInv, TypeOK, TaskTypes
  <1>2. \A e \in Events: event[e].state # "absent" =>
            event'[e].start = event[e].start /\ event'[e].lane = event[e].lane
    BY RowsInOrder
  <1>3. ASSUME UNCHANGED <<cards, upTo, found>>,
               \A e \in Events: task'[e] = "selected" => task[e] = "selected"
        PROVE  FreshSnapshots'
    <2> SUFFICES ASSUME NEW e \in Events, task'[e] = "selected"
                 PROVE  found'[e] = {c \in cards' : Absorbs(e, c)'}
      BY DEF FreshSnapshots
    <2>1. task[e] = "selected" /\ event'[e].start = event[e].start /\ event'[e].lane = event[e].lane
      BY <1>1, <1>2, <1>3 DEF Loaded
    <2>2. \A c \in cards: Absorbs(e, c)' <=> Absorbs(e, c)
      BY <1>3, <2>1 DEF Absorbs, Near, Overlaps, Wide
    <2> QED
      BY <1>1, <1>3, <2>1, <2>2 DEF FreshSnapshots
  <1>4. ASSUME \A e \in Events: task'[e] # "selected"
        PROVE  FreshSnapshots'
    BY <1>4 DEF FreshSnapshots
  <1>5. ASSUME NEW e \in Events, Write(e)
        PROVE  FreshSnapshots'
    <2>1. [task EXCEPT ![e] = "none"] \in [Events -> Phases]
      BY <1>1 DEF Phases
    <2> QED
      BY <1>4, <1>5, <2>1, StaleTypes DEF Write
  <1>6. ASSUME NEW e \in Events, StartEvent(e) \/ CloseEvent(e)
        PROVE  FreshSnapshots'
    <2>1. /\ [task EXCEPT ![e] = "due"] \in [Events -> Phases]
          /\ [task EXCEPT ![e] = IF OpenUpserts THEN "due" ELSE "none"] \in [Events -> Phases]
      BY <1>1 DEF Phases
    <2>2. CASE StartEvent(e)
      BY <1>4, <2>1, <2>2, StaleTypes DEF StartEvent
    <2>3. CASE CloseEvent(e)
      BY <1>4, <2>1, <2>3, StaleTypes DEF CloseEvent
    <2> QED
      BY <1>6, <2>2, <2>3
  <1>7. ASSUME NEW e \in Events, Reanalyse(e) \/ RebuildEvent(e)
        PROVE  FreshSnapshots'
    BY <1>1, <1>3, <1>7 DEF Reanalyse, RebuildEvent
  <1>8. ASSUME NEW e \in Events, LoadEvent(e)
        PROVE  FreshSnapshots'
    <2> SUFFICES ASSUME NEW d \in Events, task'[d] = "selected"
                 PROVE  found'[d] = {c \in cards' : Absorbs(d, c)'}
      BY DEF FreshSnapshots
    <2>1. d # e /\ task[d] = "selected" /\ upTo'[d] = upTo[d]
          /\ UNCHANGED <<cards, found, event>>
      BY <1>1, <1>8 DEF LoadEvent
    <2>2. \A c \in cards: Absorbs(d, c)' <=> Absorbs(d, c)
      BY <2>1 DEF Absorbs, Near, Overlaps, Wide
    <2> QED
      BY <1>1, <2>1, <2>2 DEF FreshSnapshots
  <1>9. ASSUME NEW e \in Events, SelectCards(e)
        PROVE  FreshSnapshots'
    <2> SUFFICES ASSUME NEW d \in Events, task'[d] = "selected"
                 PROVE  found'[d] = {c \in cards' : Absorbs(d, c)'}
      BY DEF FreshSnapshots
    <2>1. UNCHANGED <<cards, upTo, event>>
      BY <1>9 DEF SelectCards
    <2>2. \A c \in cards: Absorbs(d, c)' <=> Absorbs(d, c)
      BY <2>1 DEF Absorbs, Near, Overlaps, Wide
    <2>3. found'[d] = {c \in cards : Absorbs(d, c)}
      <3>1. CASE d = e
        BY <1>1, <1>9, <3>1 DEF SelectCards
      <3>2. CASE d # e
        BY <1>1, <1>9, <3>2 DEF SelectCards, FreshSnapshots
      <3> QED
        BY <3>1, <3>2
    <2> QED
      BY <2>1, <2>2, <2>3
  <1>10. ASSUME NEW e \in Events, Lose(e)
         PROVE  FreshSnapshots'
    <2> SUFFICES ASSUME NEW d \in Events, task'[d] = "selected"
                 PROVE  found'[d] = {c \in cards' : Absorbs(d, c)'}
      BY DEF FreshSnapshots
    <2>1. /\ task[d] = "selected" /\ upTo'[d] = upTo[d] /\ found'[d] = found[d]
          /\ UNCHANGED <<cards, event>>
      BY <1>1, <1>10 DEF Lose
    <2>2. \A c \in cards: Absorbs(d, c)' <=> Absorbs(d, c)
      BY <2>1 DEF Absorbs, Near, Overlaps, Wide
    <2> QED
      BY <1>1, <2>1, <2>2 DEF FreshSnapshots
  <1>11. ASSUME NEW e \in Events, Repair(e)
         PROVE  FreshSnapshots'
    <2>1. UNCHANGED <<upTo, found>>
      BY <1>11 DEF Repair
    <2>2. CASE task' = Stale(task)
      BY <1>1, <1>4, <2>2, StaleTypes
    <2>3. CASE UNCHANGED cards /\ \E m: task' = [task EXCEPT ![m] = "due"]
      BY <1>1, <1>3, <2>1, <2>3
    <2>4. CASE UNCHANGED <<cards, task>>
      BY <1>3, <2>1, <2>4
    <2> QED
      BY <1>11, <2>2, <2>3, <2>4 DEF Repair, RepairCard
  <1>12. ASSUME NEW ids \in SUBSET Events, DeleteRows(ids)
         PROVE  FreshSnapshots'
    BY <1>1, <1>4, <1>12, StaleTypes DEF DeleteRows
  <1>13. CASE Tick \/ UNCHANGED vars
    BY <1>3, <1>13 DEF Tick, vars
  <1>14. CASE Sweep \/ RebuildClear \/ RebuildDone
    <2>1. UNCHANGED <<upTo, found>> /\ (task' = Stale(task) \/ UNCHANGED <<task, cards>>)
      BY <1>14 DEF Sweep, RebuildClear, RebuildDone
    <2> QED
      BY <1>1, <1>3, <1>4, <2>1, StaleTypes
  <1>15. CASE Restart
    BY <1>4, <1>15 DEF Restart
  <1> QED
    BY <1>5, <1>6, <1>7, <1>8, <1>9, <1>10, <1>11, <1>12, <1>13, <1>14, <1>15 DEF Next

\* The ids of a deletion stay deleted.
LEMMA CallKept ==
    ASSUME TypeOK, CallGone, [Next]_vars
    PROVE  CallGone'
  <1>1. /\ event \in [Events -> [state : States, lane : Lanes, start : Times, end : Times]]
        /\ deletion \in [phase : {"none", "repair", "sweep"}, call : SUBSET Events,
                          ids : SUBSET Events, awaits : SUBSET Events]
    BY DEF TypeOK, EventTypes, JobTypes
  <1>2. ASSUME NEW ids \in SUBSET Events, DeleteRows(ids)
        PROVE  CallGone'
    <2>1. deletion'.call = ids
      BY <1>2 DEF DeleteRows, AfterRows, NoDeletion
    <2> QED
      BY <1>1, <1>2, <2>1 DEF DeleteRows, CallGone
  <1>3. CASE Sweep \/ Restart
    <2>1. deletion' = NoDeletion
      BY <1>3 DEF Sweep, Restart
    <2> QED
      BY <2>1 DEF CallGone, NoDeletion
  <1>4. ASSUME NEW e \in Events, Repair(e)
        PROVE  deletion'.call = deletion.call /\ UNCHANGED event
    BY <1>1, <1>4 DEF Repair, RepairCard
  <1>5. CASE deletion'.call = deletion.call /\ UNCHANGED event
    BY <1>5 DEF CallGone
  <1>6. ASSUME NEW e \in Events, StartEvent(e) \/ CloseEvent(e)
        PROVE  CallGone'
    <2>1. event[e].state # "deleted" /\ UNCHANGED deletion
      BY <1>6 DEF StartEvent, CloseEvent
    <2>2. \A m \in Events: m # e => event'[m] = event[m]
      BY <1>1, <1>6 DEF StartEvent, CloseEvent
    <2> QED
      BY <1>1, <2>1, <2>2 DEF CallGone
  <1>7. CASE UNCHANGED <<deletion, event>>
    BY <1>7 DEF CallGone
  <1> QED
    BY <1>2, <1>3, <1>4, <1>5, <1>6, <1>7 DEF Next, vars, Tick, Reanalyse, LoadEvent, SelectCards,
       Write, Lose, RebuildEvent, RebuildClear, RebuildDone

\* Every step of the invariant.
LEMMA CardInductive == CardInv /\ [Next]_vars => CardInv'
  <1> SUFFICES ASSUME CardInv, [Next]_vars PROVE CardInv'
    OBVIOUS
  <1>1. TypeOK' /\ InOrder' /\ Loaded' /\ FreshSnapshots' /\ CallGone'
    BY TypeInductive, RowsInOrder, LoadedKept, SnapshotsKept, CallKept DEF CardInv
  <1>2. (\A c \in cards': ShowsMembers(c)') /\ OneCardPerEvent'
    <2>1. CASE \E e \in Events: Write(e)
      BY <2>1, WriteInv
    <2>2. CASE cards' \subseteq cards
      <3>1. \A c \in cards: ShowsMembers(c) /\ c.members \subseteq Events
        BY DEF CardInv, TypeOK, Card
      <3>2. ASSUME NEW c \in cards PROVE ShowsMembers(c)'
        BY <3>1, RowsInOrder DEF ShowsMembers
      <3>3. OneCardPerEvent'
        BY <2>2 DEF CardInv, OneCardPerEvent
      <3> QED
        BY <2>2, <3>2, <3>3
    <2>3. (\E e \in Events: Write(e)) \/ cards' \subseteq cards
      BY DEF Next, vars, Tick, StartEvent, CloseEvent, Reanalyse, LoadEvent, SelectCards, Lose,
             Repair, RepairCard, RebuildEvent, DeleteRows, Sweep, RebuildClear, RebuildDone, Restart
    <2> QED
      BY <2>1, <2>2, <2>3
  <1> QED
    BY <1>1, <1>2 DEF CardInv

LEMMA CardInitial == Init => CardInv
  <1> SUFFICES ASSUME Init PROVE CardInv
    OBVIOUS
  <1>1. cards = {} /\ \A e \in Events: event[e].state = "absent" /\ task[e] = "none"
    BY DEF Init
  <1> QED
    BY <1>1, TypeInitial DEF Init, NoDeletion, CardInv, InOrder, Loaded, CallGone, FreshSnapshots,
       OneCardPerEvent

\* However upserts, deletions, rebuilds and restarts interleave, and whatever is lost
\* to a stale snapshot, no event is ever on two cards.
THEOREM OneCard == Spec => []OneCardPerEvent
  <1>1. CardInv => OneCardPerEvent
    BY DEF CardInv
  <1> QED
    BY <1>1, CardInitial, CardInductive, PTL DEF Spec

\* Grouping never narrows what the feed shows.
THEOREM OnlyWiden == Spec => CardsOnlyWiden
  <1>1. ASSUME CardInv, [Next]_vars
        PROVE  [deletion.phase = "none" /\ rebuild'.phase = "none"
                 => \A c \in cards: \E d \in cards':
                        d.lane = c.lane /\ d.start <= c.start /\ c.end <= d.end]_vars
    <2> SUFFICES ASSUME deletion.phase = "none", rebuild'.phase = "none", NEW c \in cards
                 PROVE  \E d \in cards': d.lane = c.lane /\ d.start <= c.start /\ c.end <= d.end
      OBVIOUS
    <2>1. c.start <= c.start /\ c.end <= c.end
      BY <1>1, WindowAssumption DEF CardInv, TypeOK, Card, Times, Windows
    <2>2. CASE c \in cards'
      BY <2>1, <2>2
    <2>3. CASE \E e \in Events: Write(e)
      <3>1. PICK e \in Events: Write(e)
        BY <2>3
      <3>2. CASE Merge(e, found[e])
        <4>1. task[e] = "selected" /\ \A b \in found[e]: b.lane = event[e].lane
          BY <1>1, <3>1 DEF Write, CardInv, FreshSnapshots, Absorbs
        <4> QED
          BY <1>1, <2>1, <3>2, <4>1, MergeCovers
      <3>3. CASE cards \subseteq cards'
        BY <2>2, <3>3
      <3> QED
        BY <3>1, <3>2, <3>3 DEF Write
    <2>4. (\E e \in Events: Write(e)) \/ UNCHANGED cards
      <3>1. ~\E e \in Events: Repair(e)
        BY DEF Repair
      <3>2. ~Sweep
        BY DEF Sweep
      <3>3. ~RebuildClear
        BY DEF RebuildClear, CardInv, TypeOK, JobTypes, NoRebuild
      <3> QED
        BY <1>1, <3>1, <3>2, <3>3 DEF Next, vars, Tick, StartEvent, CloseEvent, Reanalyse,
           LoadEvent, SelectCards, Lose, RebuildEvent, DeleteRows, RebuildDone, Restart
    <2> QED
      BY <2>2, <2>3, <2>4
  <1> QED
    BY <1>1, CardInitial, CardInductive, PTL DEF Spec, CardsOnlyWiden

-----------------------------------------------------------------------------
(* What a step may do to an event, to its upsert, to the cards and to the     *)
(* jobs: the invariants below argue from these and not from Next.             *)

\* An event starts, closes or is deleted, and never comes back.
LEMMA EventSteps ==
    ASSUME TypeOK, [Next]_vars, NEW e \in Events
    PROVE  \/ UNCHANGED event[e]
           \/ StartEvent(e) \/ CloseEvent(e)
           \/ \E ids \in SUBSET Events: e \in ids /\ DeleteRows(ids)
           \/ Restart
  <1>1. event = [m \in Events |-> event[m]]
    BY DEF TypeOK, EventTypes
  <1>2. ASSUME NEW m \in Events, StartEvent(m) \/ CloseEvent(m), m # e
        PROVE  UNCHANGED event[e]
    BY <1>1, <1>2 DEF StartEvent, CloseEvent
  <1>3. ASSUME NEW ids \in SUBSET Events, DeleteRows(ids), e \notin ids
        PROVE  UNCHANGED event[e]
    BY <1>3 DEF DeleteRows
  <1> QED
    BY <1>2, <1>3 DEF Next, vars, Tick, Reanalyse, LoadEvent, SelectCards, Write, Lose, Repair,
       RebuildEvent, Sweep, RebuildClear, RebuildDone

\* An upsert ends when it is written or lost, when its event is gone, or with the
\* process.
LEMMA UpsertEnds ==
    ASSUME TypeOK, [Next]_vars, NEW e \in Events, task[e] # "none", task'[e] = "none"
    PROVE  \/ Write(e) \/ Lose(e) \/ (LoadEvent(e) /\ ~Exists(e))
           \/ StartEvent(e) \/ Restart
  <1>1. task \in [Events -> Phases]
    BY DEF TypeOK, TaskTypes
  <1>2. ASSUME NEW tasks \in [Events -> Phases], tasks[e] # "none"
        PROVE  Stale(tasks)[e] # "none"
    BY <1>2 DEF Stale
  <1>3. ASSUME NEW m \in Events, StartEvent(m) \/ CloseEvent(m), m # e
        PROVE  FALSE
    <2>1. \E p \in Phases: task' = Stale([task EXCEPT ![m] = p])
      BY <1>3, Zenon DEF StartEvent, CloseEvent, Phases
    <2>2. \A p \in Phases: /\ [task EXCEPT ![m] = p] \in [Events -> Phases]
                           /\ [task EXCEPT ![m] = p][e] = task[e]
      BY <1>1, <1>3
    <2> QED
      BY <1>2, <2>1, <2>2
  <1>4. ASSUME CloseEvent(e)
        PROVE  FALSE
    <2>1. [task EXCEPT ![e] = "due"] \in [Events -> Phases] /\ [task EXCEPT ![e] = "due"][e] = "due"
      BY <1>1 DEF Phases
    <2> QED
      BY <1>2, <1>4, <2>1 DEF CloseEvent
  <1>5. ASSUME NEW m \in Events, Reanalyse(m) \/ SelectCards(m) \/ RebuildEvent(m)
        PROVE  FALSE
    BY <1>1, <1>5 DEF Reanalyse, SelectCards, RebuildEvent
  <1>6. ASSUME NEW m \in Events, LoadEvent(m), ~(m = e /\ ~Exists(e))
        PROVE  FALSE
    BY <1>1, <1>6 DEF LoadEvent
  <1>7. ASSUME NEW m \in Events, Write(m) \/ Lose(m), m # e
        PROVE  FALSE
    <2>1. [task EXCEPT ![m] = "none"] \in [Events -> Phases] /\ [task EXCEPT ![m] = "none"][e] = task[e]
      BY <1>1, <1>7 DEF Phases
    <2> QED
      BY <1>2, <1>7, <2>1 DEF Write, Lose
  <1>8. ASSUME NEW m \in Events, Repair(m)
        PROVE  FALSE
    <2>1. task' = task \/ task' = Stale(task) \/ \E d: task' = [task EXCEPT ![d] = "due"]
      BY <1>8 DEF Repair, RepairCard
    <2> QED
      BY <1>1, <1>2, <2>1
  <1>9. ASSUME \/ \E ids \in SUBSET Events: DeleteRows(ids)
               \/ Tick \/ Sweep \/ RebuildClear \/ RebuildDone \/ UNCHANGED vars
        PROVE  FALSE
    <2>1. task' = task \/ task' = Stale(task)
      BY <1>9 DEF DeleteRows, Tick, Sweep, RebuildClear, RebuildDone, vars
    <2> QED
      BY <1>1, <1>2, <2>1
  <1>10. CASE \E m \in Events: \/ StartEvent(m) \/ CloseEvent(m) \/ Reanalyse(m) \/ LoadEvent(m)
                               \/ SelectCards(m) \/ Write(m) \/ Lose(m) \/ Repair(m) \/ RebuildEvent(m)
    <2>1. PICK m \in Events: \/ StartEvent(m) \/ CloseEvent(m) \/ Reanalyse(m) \/ LoadEvent(m)
                            \/ SelectCards(m) \/ Write(m) \/ Lose(m) \/ Repair(m) \/ RebuildEvent(m)
      BY <1>10
    <2> QED
      BY <1>3, <1>4, <1>5, <1>6, <1>7, <1>8, <2>1
  <1> QED
    BY <1>9, <1>10 DEF Next

\* An upsert is begun for an event that starts or closes, is analysed again or
\* replayed, or that is on the card of a deleted one.
LEMMA UpsertBegins ==
    ASSUME TypeOK, [Next]_vars, NEW e \in Events, task[e] = "none", task'[e] # "none"
    PROVE  \/ StartEvent(e) /\ OpenUpserts
           \/ CloseEvent(e) \/ Reanalyse(e) \/ RebuildEvent(e)
           \/ \E c \in cards: e \in c.members /\ UNCHANGED event
  <1>1. task \in [Events -> Phases]
    BY DEF TypeOK, TaskTypes
  <1>2. ASSUME NEW tasks \in [Events -> Phases], tasks[e] = "none"
        PROVE  Stale(tasks)[e] = "none"
    BY <1>2 DEF Stale
  <1>3. ASSUME NEW m \in Events, NEW p \in Phases, m # e \/ p = "none",
               \/ task' = [task EXCEPT ![m] = p] \/ task' = Stale([task EXCEPT ![m] = p])
        PROVE  FALSE
    <2>1. [task EXCEPT ![m] = p] \in [Events -> Phases] /\ [task EXCEPT ![m] = p][e] = "none"
      BY <1>1, <1>3
    <2> QED
      BY <1>2, <1>3, <2>1
  <1>4. ASSUME task' = task \/ task' = Stale(task)
        PROVE  FALSE
    BY <1>1, <1>2, <1>4
  <1>5. "none" \in Phases /\ "due" \in Phases /\ "loaded" \in Phases /\ "selected" \in Phases
    BY DEF Phases
  <1>6. ASSUME NEW m \in Events, StartEvent(m)
        PROVE  m = e /\ OpenUpserts
    <2>1. task' = Stale([task EXCEPT ![m] = IF OpenUpserts THEN "due" ELSE "none"])
      BY <1>6 DEF StartEvent
    <2>2. CASE OpenUpserts
      BY <1>3, <1>5, <2>1, <2>2, Zenon
    <2>3. CASE ~OpenUpserts
      BY <1>3, <1>5, <2>1, <2>3, Zenon
    <2> QED
      BY <2>2, <2>3
  <1>7. ASSUME NEW m \in Events, CloseEvent(m) \/ Reanalyse(m) \/ RebuildEvent(m)
        PROVE  m = e
    BY <1>3, <1>5, <1>7 DEF CloseEvent, Reanalyse, RebuildEvent
  <1>8. ASSUME NEW m \in Events, LoadEvent(m) \/ SelectCards(m) \/ Write(m) \/ Lose(m)
        PROVE  FALSE
    <2>1. CASE m = e
      BY <1>1, <1>8, <1>3, <1>5, <2>1 DEF LoadEvent, SelectCards, Write, Lose
    <2>2. CASE m # e
      BY <1>3, <1>5, <1>8, <2>2 DEF LoadEvent, SelectCards, Write, Lose
    <2> QED
      BY <2>1, <2>2
  <1>9. ASSUME NEW m \in Events, Repair(m)
        PROVE  \E c \in cards: e \in c.members /\ UNCHANGED event
    <2>1. \/ task' = task \/ task' = Stale(task)
          \/ \E c \in cards: \E d \in c.members: task' = [task EXCEPT ![d] = "due"]
      BY <1>9 DEF Repair, RepairCard
    <2>2. PICK c \in cards: \E d \in c.members: task' = [task EXCEPT ![d] = "due"]
      BY <1>4, <2>1
    <2>3. PICK d \in c.members: task' = [task EXCEPT ![d] = "due"]
      BY <2>2
    <2>4. d \in Events
      BY DEF TypeOK, Card
    <2>5. d = e
      BY <1>3, <1>5, <2>3, <2>4
    <2> QED
      BY <1>9, <2>3, <2>5 DEF Repair
  <1>10. ASSUME \/ \E ids \in SUBSET Events: DeleteRows(ids)
                \/ Tick \/ Sweep \/ RebuildClear \/ RebuildDone \/ UNCHANGED vars
         PROVE  FALSE
    <2>1. task' = task \/ task' = Stale(task)
      BY <1>10 DEF DeleteRows, Tick, Sweep, RebuildClear, RebuildDone, vars
    <2> QED
      BY <1>4, <2>1
  <1>11. ~Restart
    BY DEF Restart
  <1> QED
    BY <1>6, <1>7, <1>8, <1>9, <1>10, <1>11 DEF Next

\* Cards are written, or go with a deletion or the rebuild.
LEMMA CardSteps ==
    ASSUME [Next]_vars
    PROVE  \/ UNCHANGED cards \/ Sweep \/ RebuildClear
           \/ \E e \in Events: Write(e) \/ (Repair(e) /\ cards' \subseteq cards)
  <1>1. ASSUME NEW e \in Events, Repair(e)
        PROVE  cards' \subseteq cards
    <2>1. cards' = cards \/ \E c \in cards: cards' = cards \ {c}
      BY <1>1 DEF Repair, RepairCard
    <2> QED
      BY <2>1
  <1> QED
    BY <1>1 DEF Next, vars, Tick, StartEvent, CloseEvent, Reanalyse, LoadEvent, SelectCards, Lose,
       RebuildEvent, DeleteRows, RebuildDone, Restart

\* A deletion and the rebuild move on by their own steps.
LEMMA JobSteps ==
    ASSUME [Next]_vars
    PROVE  /\ \/ UNCHANGED deletion \/ Sweep \/ Restart
              \/ \E e \in Events: Repair(e)
              \/ \E ids \in SUBSET Events: DeleteRows(ids)
           /\ \/ UNCHANGED rebuild \/ RebuildClear \/ RebuildDone \/ Restart
              \/ \E e \in Events: RebuildEvent(e)
           /\ UNCHANGED rebuilt \/ RebuildDone
  BY DEF Next, vars, Tick, StartEvent, CloseEvent, Reanalyse, LoadEvent, SelectCards, Write, Lose,
         Repair, RebuildEvent, DeleteRows, Sweep, RebuildClear, RebuildDone, Restart

-----------------------------------------------------------------------------
(* What an upsert loaded of its event is what the event is until it writes.   *)

Loading(e) == task[e] \in {"loaded", "selected"}

\* What an upsert loaded stays as it was while it is under way.
LEMMA LoadingSteps ==
    ASSUME TypeOK, [Next]_vars, NEW e \in Events, Loading(e)'
    PROVE  (Loading(e) /\ upTo'[e] = upTo[e]) \/ (LoadEvent(e) /\ Exists(e))
  <1>1. task \in [Events -> Phases] /\ upTo \in [Events -> Windows]
    BY DEF TypeOK, TaskTypes
  <1>2. ASSUME NEW tasks \in [Events -> Phases], NEW m \in Events, NEW p \in {"none", "due"},
               tasks = [task EXCEPT ![m] = p], task' = tasks \/ task' = Stale(tasks)
        PROVE  m # e /\ Loading(e)
    BY <1>1, <1>2 DEF Stale, Loading
  <1>3. \A m \in Events: \A p \in {"none", "due"}: [task EXCEPT ![m] = p] \in [Events -> Phases]
    BY <1>1 DEF Phases
  <1>4. ASSUME task' = task \/ task' = Stale(task)
        PROVE  Loading(e)
    BY <1>1, <1>4 DEF Stale, Loading
  <1>5. ASSUME NEW m \in Events, StartEvent(m) \/ CloseEvent(m)
        PROVE  Loading(e) /\ upTo'[e] = upTo[e]
    <2>1. UNCHANGED upTo /\ \E p \in {"none", "due"}: task' = Stale([task EXCEPT ![m] = p])
      BY <1>5, Zenon DEF StartEvent, CloseEvent
    <2> QED
      BY <1>2, <1>3, <2>1
  <1>6. ASSUME NEW m \in Events, Reanalyse(m) \/ RebuildEvent(m)
        PROVE  Loading(e) /\ upTo'[e] = upTo[e]
    BY <1>2, <1>3, <1>6 DEF Reanalyse, RebuildEvent
  <1>7. ASSUME NEW m \in Events, LoadEvent(m)
        PROVE  (Loading(e) /\ upTo'[e] = upTo[e]) \/ (LoadEvent(e) /\ Exists(e))
    BY <1>1, <1>7 DEF LoadEvent, Loading
  <1>8. ASSUME NEW m \in Events, SelectCards(m)
        PROVE  Loading(e) /\ upTo'[e] = upTo[e]
    BY <1>1, <1>8 DEF SelectCards, Loading
  <1>9. ASSUME NEW m \in Events, Write(m) \/ Lose(m)
        PROVE  Loading(e) /\ upTo'[e] = upTo[e]
    <2>1. m # e /\ Loading(e)
      BY <1>2, <1>3, <1>9 DEF Write, Lose
    <2> QED
      BY <1>1, <1>9, <2>1 DEF Write, Lose
  <1>10. ASSUME NEW m \in Events, Repair(m)
         PROVE  Loading(e) /\ upTo'[e] = upTo[e]
    <2>1. UNCHANGED upTo /\ \A c \in cards: c.members \subseteq Events
      BY <1>10 DEF Repair, TypeOK, Card
    <2>2. task' = task \/ task' = Stale(task) \/ \E d \in Events: task' = [task EXCEPT ![d] = "due"]
      BY <1>10, <2>1 DEF Repair, RepairCard
    <2> QED
      BY <1>2, <1>3, <1>4, <2>1, <2>2
  <1>11. CASE \/ \E ids \in SUBSET Events: DeleteRows(ids)
              \/ Tick \/ Sweep \/ RebuildClear \/ RebuildDone \/ UNCHANGED vars
    <2>1. UNCHANGED upTo /\ (task' = task \/ task' = Stale(task))
      BY <1>11 DEF DeleteRows, Tick, Sweep, RebuildClear, RebuildDone, vars
    <2> QED
      BY <1>4, <2>1
  <1>12. ~Restart
    BY DEF Restart, Loading
  <1> QED
    BY <1>5, <1>6, <1>7, <1>8, <1>9, <1>10, <1>11, <1>12 DEF Next

Known == \A e \in Events: Loading(e) => upTo[e] = EndOf(e)

LEMMA KnownKept ==
    ASSUME CardInv, Known, [Next]_vars
    PROVE  Known'
  <1> SUFFICES ASSUME NEW e \in Events, Loading(e)'
               PROVE  upTo'[e] = EndOf(e)'
    BY DEF Known
  <1>1. /\ event \in [Events -> [state : States, lane : Lanes, start : Times, end : Times]]
        /\ upTo \in [Events -> Windows] /\ TypeOK
    BY DEF CardInv, TypeOK, EventTypes, TaskTypes
  <1>2. CASE Loading(e) /\ upTo'[e] = upTo[e]
    <2>1. event[e].state # "absent" /\ task[e] # "none"
      BY <1>2 DEF CardInv, Loaded, Loading
    <2>2. ~StartEvent(e) /\ ~CloseEvent(e) /\ ~Restart
      BY <2>1 DEF StartEvent, CloseEvent, Restart, Loading
    <2>3. CASE \E ids \in SUBSET Events: e \in ids /\ DeleteRows(ids)
      <3>1. /\ event[e].state = "closed" /\ event'[e].state = "deleted"
            /\ event'[e].end = event[e].end
        BY <1>1, <2>3 DEF DeleteRows
      <3> QED
        BY <1>2, <3>1 DEF Known, EndOf
    <2>4. CASE UNCHANGED event[e]
      BY <1>2, <2>4 DEF Known, EndOf
    <2> QED
      BY <1>1, <2>2, <2>3, <2>4, EventSteps
  <1>3. CASE LoadEvent(e) /\ Exists(e)
    BY <1>1, <1>3 DEF LoadEvent, EndOf
  <1> QED
    BY <1>1, <1>2, <1>3, LoadingSteps

LEMMA KnownInitial == Init => Known
  BY DEF Init, Known, Loading

-----------------------------------------------------------------------------
(* Events stay on the feed. *)

\* An event that is still there leaves no card but for another that lists it: only
\* the rebuild takes it off.
LEMMA StaysListed ==
    ASSUME CardInv, [Next]_vars, ~RebuildClear,
           NEW e \in Events, Exists(e)', NEW c \in cards, e \in c.members
    PROVE  \E d \in cards': e \in d.members
  <1>1. CASE c \in cards'
    BY <1>1
  <1>2. ASSUME NEW w \in Events, Write(w)
        PROVE  \E d \in cards': e \in d.members
    <2>1. CASE cards \subseteq cards'
      BY <2>1
    <2>2. CASE Merge(w, found[w])
      <3>1. task[w] = "selected" /\ Exists(e)
        BY <1>2 DEF Write, Exists
      <3>2. PICK new \in Card:
                cards' = (cards \ found[w]) \cup {new} /\ new.members = Members(w, found[w])
        BY <2>2, <3>1, MergeCovers
      <3>3. c \in found[w] => e \in new.members
        BY <3>1, <3>2 DEF Members
      <3> QED
        BY <3>2, <3>3
    <2> QED
      BY <1>2, <2>1, <2>2 DEF Write
  <1>3. ASSUME NEW m \in Events, Repair(m)
        PROVE  \E d \in cards': e \in d.members
    <2>1. e \notin deletion.call
      BY <1>3 DEF Repair, Exists, CardInv, CallGone
    <2>2. cards' = cards \/ \E b \in cards:
              cards' = cards \ {b} /\ b.members \ deletion.call = {}
      BY <1>3 DEF Repair, RepairCard
    <2> QED
      BY <1>1, <2>1, <2>2
  <1>4. CASE Sweep
    <2>1. UNCHANGED event /\ cards' = {b \in cards : ~Empty(b)}
      BY <1>4 DEF Sweep
    <2>2. Exists(e) /\ ShowsMembers(c) /\ EventTypes /\ InOrder
      BY <2>1 DEF Exists, CardInv, TypeOK
    <2>3. /\ event[e].start <= c.end /\ c.start <= event[e].start
          /\ event[e].state = "closed" => event[e].start <= event[e].end
      BY <2>2 DEF ShowsMembers, InOrder
    <2>4. event[e].start \in Nat /\ event[e].end \in Nat /\ c.start \in Nat
      BY <2>2, WindowAssumption DEF EventTypes, Times, CardInv, TypeOK, Card
    <2>5. ~Empty(c)
      BY <2>2, <2>3, <2>4 DEF Empty
    <2> QED
      BY <2>1, <2>5
  <1> QED
    BY <1>1, <1>2, <1>3, <1>4, CardSteps

\* An event whose upserts are through is on a card, unless the last was lost, if the
\* rebuild is over and no restart cut it off since, or if the rebuild has replayed it.
Grouped ==
    \A e \in Events:
        /\ event[e].state = "closed" /\ task[e] = "none" /\ e \notin lost
        /\ (rebuilt /\ e \notin missed) \/ (rebuild.phase = "replay" /\ e \in rebuild.done)
        => \E c \in cards: e \in c.members

LEMMA GroupedKept ==
    ASSUME CardInv, Grouped, [Next]_vars
    PROVE  Grouped'
  <1> SUFFICES ASSUME NEW e \in Events, event'[e].state = "closed", task'[e] = "none",
                      e \notin lost',
                      \/ rebuilt' /\ e \notin missed'
                      \/ rebuild'.phase = "replay" /\ e \in rebuild'.done
               PROVE  \E c \in cards': e \in c.members
    BY DEF Grouped
  <1>1. /\ event \in [Events -> [state : States, lane : Lanes, start : Times, end : Times]]
        /\ task \in [Events -> Phases] /\ TypeOK
    BY DEF CardInv, TypeOK, EventTypes, TaskTypes
  <1>0. CASE Restart
    <2>1. /\ e \notin missed /\ e \notin lost /\ rebuilt
          /\ event[e].state # "open" /\ task[e] = "none"
      BY <1>0 DEF Restart, NoRebuild
    <2>2. event[e].state = "closed" /\ UNCHANGED cards
      BY <1>0, <2>1 DEF Restart
    <2>3. PICK c \in cards: e \in c.members
      BY <2>1, <2>2 DEF Grouped
    <2> QED
      BY <2>2, <2>3
  <1>2. SUFFICES ASSUME ~Restart
                 PROVE  \E c \in cards': e \in c.members
    BY <1>0
  <1>3. ~RebuildClear
    BY DEF RebuildClear, NoRebuild
  <1>4. event[e].state = "closed"
    <2>1. ~StartEvent(e)
      BY <1>1 DEF StartEvent
    <2>2. ~CloseEvent(e)
      <3>1. [task EXCEPT ![e] = "due"] \in [Events -> Phases] /\ [task EXCEPT ![e] = "due"][e] = "due"
        BY <1>1 DEF Phases
      <3> QED
        BY <3>1 DEF CloseEvent, Stale
    <2>3. ASSUME NEW ids \in SUBSET Events, e \in ids
          PROVE  ~DeleteRows(ids)
      BY <1>1, <2>3 DEF DeleteRows
    <2> QED
      BY <1>1, <1>2, <2>1, <2>2, <2>3, EventSteps
  <1>5. CASE Write(e)
    <2>1. task[e] = "selected" /\ Exists(e)
      BY <1>4, <1>5 DEF Write, Exists
    <2>2. CASE cards' = cards \cup {FreshCard(e)}
      <3>1. FreshCard(e).members = {e}
        BY DEF FreshCard
      <3> QED
        BY <2>2, <3>1
    <2>3. e \in Members(e, found[e])
      BY <2>1 DEF Members
    <2>4. CASE Merge(e, found[e])
      BY <2>1, <2>3, <2>4, MergeCovers
    <2> QED
      BY <1>5, <2>2, <2>3, <2>4 DEF Write
  <1>6. CASE task[e] = "none"
    <2>1. \/ rebuilt /\ e \notin missed
          \/ rebuild.phase = "replay" /\ e \in rebuild.done
      <3>1. ~RebuildEvent(e)
        BY <1>1 DEF RebuildEvent
      <3>2. CASE \E m \in Events: RebuildEvent(m)
        BY <1>1, <3>1, <3>2 DEF RebuildEvent
      <3>3. CASE RebuildDone
        BY <1>4, <3>3 DEF RebuildDone, RebuildOver, Unreplayed, Exists
      <3>4. CASE ~RebuildDone /\ UNCHANGED rebuild
        BY <1>2, <3>4, JobSteps, HistorySteps
      <3> QED
        BY <1>2, <1>3, <3>2, <3>3, <3>4, JobSteps, HistorySteps
    <2>3. e \notin lost
      <3>1. ~Write(e)
        BY <1>6 DEF Write
      <3> QED
        BY <3>1, HistorySteps DEF Write, Lose, DeleteRows
    <2>2. PICK c \in cards: e \in c.members
      BY <1>4, <1>6, <2>1, <2>3 DEF Grouped
    <2> QED
      BY <1>3, <2>2, StaysListed DEF Exists
  <1>7. CASE task[e] # "none" /\ ~Write(e)
    <2>1. ~Lose(e)
      BY DEF Lose
    <2>2. Exists(e) /\ ~StartEvent(e)
      BY <1>4 DEF StartEvent, Exists
    <2> QED
      BY <1>1, <1>2, <1>7, <2>1, <2>2, UpsertEnds
  <1> QED
    BY <1>5, <1>6, <1>7

\* However upserts, deletions, rebuilds and restarts interleave, an event whose upserts are
\* through is on a card, unless its last upsert was lost or a restart cut it off: no
\* deletion and no sweep takes it off, and a rebuild that is over has replayed it.
THEOREM EventsGrouped == Spec => []ClosedEventsGrouped
  <1>1. CardInv /\ Grouped /\ [Next]_vars => (CardInv /\ Grouped)'
    BY CardInductive, GroupedKept
  <1>2. Init => CardInv /\ Grouped
    BY CardInitial DEF Init, Grouped
  <1>3. Grouped => ClosedEventsGrouped
    BY DEF Grouped, ClosedEventsGrouped
  <1> QED
    BY <1>1, <1>2, <1>3, PTL DEF Spec

-----------------------------------------------------------------------------
(* Deleted events leave the cards. *)

\* What excuses a card's deleted events: until the rebuild empties the table, that a
\* restart cut one off; else that an upsert of the card was lost, or a repair left out.
Remembered(c) ==
    \E m \in c.members:
        m \in lost \/ (rebuild.phase = "none" /\ m \in missed /\ event[m].state = "deleted")

\* A deletion under way has a card yet to repair, or waits for the upsert that does it.
Repairing(c, e) ==
    /\ deletion.phase = "repair" /\ e \in deletion.call
    /\ \/ e \in deletion.ids
       \/ \E m \in c.members \cap deletion.awaits: task[m] # "none" /\ Exists(m)

Dangling ==
    \A c \in cards: \A e \in c.members:
        event[e].state = "deleted" => Remembered(c) \/ Repairing(c, e)

\* A deleted event stays deleted.
LEMMA StaysDeleted ==
    ASSUME TypeOK, [Next]_vars, NEW e \in Events, event[e].state = "deleted"
    PROVE  event'[e].state = "deleted"
  <1>1. event \in [Events -> [state : States, lane : Lanes, start : Times, end : Times]]
    BY DEF TypeOK, EventTypes
  <1>2. ~StartEvent(e) /\ ~CloseEvent(e)
    BY DEF StartEvent, CloseEvent
  <1>3. CASE \E ids \in SUBSET Events: e \in ids /\ DeleteRows(ids)
    BY <1>3 DEF DeleteRows
  <1>4. CASE Restart
    BY <1>1, <1>4 DEF Restart
  <1> QED
    BY <1>2, <1>3, <1>4, EventSteps

\* A card goes, or lists no deleted event any more, when an event it lists is upserted.
LEMMA UpsertCleans ==
    ASSUME CardInv, NEW w \in Events, Exists(w), Write(w),
           NEW c \in cards, w \in c.members, c \in cards'
    PROVE  \A e \in c.members: Exists(e)
  <1>1. task[w] = "selected" /\ c \in found[w]
    BY FindsItsCard DEF Write
  <1>2. w \in Members(w, found[w])
    BY DEF Members
  <1>3. Merge(w, found[w])
    BY <1>1, <1>2 DEF Write
  <1>4. PICK new \in Card:
            cards' = (cards \ found[w]) \cup {new} /\ new.members = Members(w, found[w])
    BY <1>1, <1>3, MergeCovers
  <1>5. c = new
    BY <1>1, <1>4
  <1> QED
    BY <1>4, <1>5 DEF Members

\* The excuse lasts as long as the card lists a deleted event.
LEMMA StaysRemembered ==
    ASSUME CardInv, [Next]_vars, NEW c \in cards, c \in cards', Remembered(c),
           NEW e \in c.members, event'[e].state = "deleted"
    PROVE  Remembered(c)'
  <1>1. TypeOK /\ \A m \in c.members: m \in Events
    BY DEF CardInv, TypeOK, Card
  <1>2. PICK m \in c.members:
            m \in lost \/ (rebuild.phase = "none" /\ m \in missed /\ event[m].state = "deleted")
    BY DEF Remembered
  <1>3. CASE m \in lost
    <2>1. ~(Write(m) /\ Exists(m))
      <3>1. Write(m) => UNCHANGED event
        BY DEF Write
      <3>2. Write(m) /\ Exists(m) => Exists(e)
        BY <1>1, UpsertCleans
      <3> QED
        BY <3>1, <3>2 DEF Exists
    <2>2. m \in lost'
      <3>1. ASSUME NEW w \in Events, Write(w) PROVE m \in lost'
        BY <1>3, <2>1, <3>1 DEF Write
      <3> QED
        BY <1>3, <3>1, HistorySteps DEF Lose, DeleteRows
    <2> QED
      BY <2>2 DEF Remembered
  <1>4. CASE rebuild.phase = "none" /\ m \in missed /\ event[m].state = "deleted"
    <2>1. ~RebuildClear
      BY DEF RebuildClear
    <2>2. ~RebuildDone /\ ~\E n \in Events: RebuildEvent(n)
      BY <1>4 DEF RebuildDone, RebuildOver, RebuildEvent
    <2>3. rebuild'.phase = "none"
      <3>1. Restart => rebuild'.phase = "none"
        <4>1. Restart => rebuild' = NoRebuild
          BY DEF Restart
        <4> QED
          BY <4>1 DEF NoRebuild
      <3> QED
        BY <1>4, <2>1, <2>2, <3>1, JobSteps
    <2>4. m \in missed'
      BY <1>4, <2>2, HistorySteps DEF Restart
    <2>5. event'[m].state = "deleted"
      BY <1>1, <1>4, StaysDeleted
    <2> QED
      BY <2>3, <2>4, <2>5 DEF Remembered
  <1> QED
    BY <1>2, <1>3, <1>4

\* A card that is written lists a deleted event only if it is the upsert's own.
LEMMA WrittenAlive ==
    ASSUME CardInv, NEW w \in Events, Write(w), NEW c \in cards', c \notin cards,
           NEW e \in c.members, ~Exists(e)
    PROVE  e = w /\ w \in lost'
  <1>1. task[w] = "selected"
    BY DEF Write
  <1>2. CASE found[w] = {}
    <2>1. FreshCard(w).members = {w} /\ cards' = cards \cup {FreshCard(w)}
      BY <1>2 DEF Write, FreshCard
    <2> QED
      BY <2>1 DEF Write
  <1>3. CASE Merge(w, found[w])
    <2>1. PICK new \in Card:
              cards' = (cards \ found[w]) \cup {new} /\ new.members = Members(w, found[w])
      BY <1>1, <1>3, MergeCovers
    <2>2. c = new
      BY <2>1
    <2> QED
      BY <2>1, <2>2 DEF Members
  <1> QED
    BY <1>2, <1>3 DEF Write

\* An upsert of a card's event that a deletion waits for is under way until it has
\* cleaned the card, or is lost.
LEMMA StaysAwaited ==
    ASSUME CardInv, [Next]_vars, ~Restart, \A ids \in SUBSET Events: ~DeleteRows(ids),
           NEW c \in cards, c \in cards', NEW e \in c.members, event[e].state = "deleted",
           NEW m \in c.members, task[m] # "none", Exists(m)
    PROVE  (task'[m] # "none" /\ Exists(m)') \/ m \in lost'
  <1>1. /\ event \in [Events -> [state : States, lane : Lanes, start : Times, end : Times]]
        /\ TypeOK /\ m \in Events
    BY DEF CardInv, TypeOK, EventTypes, Card
  <1>2. ~StartEvent(m)
    BY DEF StartEvent, Exists
  <1>3. CloseEvent(m) => Exists(m)'
    BY <1>1 DEF CloseEvent, Exists
  <1>4. Exists(m)'
    BY <1>1, <1>2, <1>3, EventSteps DEF Exists
  <1>5. ~Write(m)
    BY <1>1, UpsertCleans DEF Exists
  <1>6. Lose(m) => m \in lost'
    BY DEF Lose
  <1> QED
    BY <1>1, <1>2, <1>4, <1>5, <1>6, UpsertEnds

LEMMA DanglingKept ==
    ASSUME CardInv, Dangling, [Next]_vars
    PROVE  Dangling'
  <1> SUFFICES ASSUME NEW c \in cards', NEW e \in c.members, event'[e].state = "deleted"
               PROVE  Remembered(c)' \/ Repairing(c, e)'
    BY DEF Dangling
  <1>1. /\ event \in [Events -> [state : States, lane : Lanes, start : Times, end : Times]]
        /\ task \in [Events -> Phases] /\ TypeOK /\ \A b \in cards: b.members \subseteq Events
        /\ deletion \in [phase : {"none", "repair", "sweep"}, call : SUBSET Events,
                          ids : SUBSET Events, awaits : SUBSET Events]
    BY DEF CardInv, TypeOK, EventTypes, TaskTypes, JobTypes, Card
  <1>2. e \in Events
    BY <1>1, TypeInductive DEF TypeOK, Card
  <1>3. CASE c \notin cards
    <2>1. PICK w \in Events: Write(w)
      BY <1>3, CardSteps DEF Sweep, RebuildClear
    <2>2. ~Exists(e)
      BY <2>1 DEF Write, Exists
    <2>3. e \in lost'
      BY <1>3, <2>1, <2>2, WrittenAlive
    <2> QED
      BY <2>3 DEF Remembered
  <1>4. SUFFICES ASSUME c \in cards, ~Remembered(c)
                 PROVE  Remembered(c)' \/ Repairing(c, e)'
    BY <1>3, StaysRemembered
  <1>5. CASE event[e].state # "deleted"
    <2>1. PICK ids \in SUBSET Events: e \in ids /\ DeleteRows(ids)
      <3>1. ~StartEvent(e) /\ ~CloseEvent(e)
        BY <1>1, <1>2 DEF StartEvent, CloseEvent
      <3>2. ASSUME Restart PROVE FALSE
        <4>1. event' = [m \in Events |-> IF event[m].state = "open"
                            THEN [event[m] EXCEPT !.state = "closed", !.end = event[m].start]
                            ELSE event[m]]
          BY <3>2, Zenon DEF Restart
        <4>2. event'[e].state \in {"closed", event[e].state}
          BY <1>1, <1>2, <4>1
        <4> QED
          BY <1>5, <4>2
      <3> QED
        BY <1>1, <1>2, <1>5, <3>1, <3>2, EventSteps
    <2>2. CASE TooMany(ids)
      BY <2>1, <2>2 DEF DeleteRows, Remembered
    <2>3. CASE ~TooMany(ids)
      <3>1. deletion'.phase = "repair" /\ deletion'.call = ids /\ deletion'.ids = ids
        BY <2>1, <2>3 DEF DeleteRows, AfterRows, NoDeletion
      <3> QED
        BY <2>1, <3>1 DEF Repairing
    <2> QED
      BY <2>2, <2>3
  <1>6. SUFFICES ASSUME Repairing(c, e), event[e].state = "deleted"
                 PROVE  Remembered(c)' \/ Repairing(c, e)'
    BY <1>4, <1>5 DEF Dangling
  <1>7. CASE Restart
    <2>1. rebuild'.phase = "none" /\ e \in missed'
      BY <1>6, <1>7 DEF Restart, NoRebuild, Repairing
    <2> QED
      BY <2>1 DEF Remembered
  <1>8. ASSUME NEW ids \in SUBSET Events, DeleteRows(ids)
        PROVE  FALSE
    BY <1>6, <1>8 DEF DeleteRows, Repairing
  <1>9. ~Sweep
    BY <1>6 DEF Sweep, Repairing, Awaited
  <1>10. ASSUME NEW r \in Events, Repair(r)
         PROVE  Remembered(c)' \/ Repairing(c, e)'
    <2>1. /\ UNCHANGED event /\ Awaited(deletion)
          /\ e \in deletion.ids /\ e \in deletion.call /\ deletion.phase = "repair"
      BY <1>6, <1>10 DEF Repair, Repairing, Awaited
    <2>2. /\ deletion'.phase = "repair" /\ deletion'.call = deletion.call
          /\ deletion'.ids = deletion.ids \ {r}
      BY <1>1, <1>10, <2>1 DEF Repair, RepairCard
    <2>3. CASE e # r
      BY <2>1, <2>2, <2>3 DEF Repairing
    <2>4. CASE e = r
      <3>1. PICK b \in cards: e \in b.members /\ RepairCard(e, b)
        BY <1>4, <1>10, <2>4 DEF Repair
      <3>2. b = c
        BY <1>4, <3>1 DEF CardInv, OneCardPerEvent
      <3>3. c.members \ deletion.call # {}
        BY <3>1, <3>2 DEF RepairCard
      <3>4. PICK m \in c.members \ deletion.call:
                /\ task' = [task EXCEPT ![m] = "due"]
                /\ deletion' = [deletion EXCEPT !.ids = @ \ {e}, !.awaits = {m}]
        BY <3>1, <3>2, <3>3 DEF RepairCard
      <3>5. m \in Events /\ event[m].state # "absent"
        BY <1>1, <1>4, <3>4 DEF CardInv, ShowsMembers
      <3>6. Exists(m)
        BY <1>1, <1>4, <3>4, <3>5 DEF Dangling, Repairing, Exists, States
      <3>7. task'[m] # "none" /\ m \in deletion'.awaits /\ Exists(m)'
        BY <1>1, <2>1, <3>4, <3>5, <3>6 DEF Exists
      <3> QED
        BY <2>1, <2>2, <3>4, <3>7 DEF Repairing
    <2> QED
      BY <2>3, <2>4
  <1>11. CASE UNCHANGED deletion /\ ~Restart
    <2>1. CASE e \in deletion.ids
      BY <1>6, <1>11, <2>1 DEF Repairing
    <2>2. CASE e \notin deletion.ids
      <3>1. PICK m \in c.members \cap deletion.awaits: task[m] # "none" /\ Exists(m)
        BY <1>6, <2>2 DEF Repairing
      <3>2. (task'[m] # "none" /\ Exists(m)') \/ m \in lost'
        BY <1>4, <1>6, <1>8, <1>11, <3>1, StaysAwaited
      <3> QED
        BY <1>6, <1>11, <3>1, <3>2 DEF Repairing, Remembered
    <2> QED
      BY <2>1, <2>2
  <1> QED
    BY <1>7, <1>8, <1>9, <1>10, <1>11, JobSteps

\* However upserts, deletions, rebuilds and restarts interleave, once a deletion is through
\* no card lists a deleted event, but one of whose events an upsert was lost, or whose
\* repair an earlier deletion left out.
THEOREM NoneDangling == Spec => []NoDanglingMembers
  <1>1. CardInv /\ Dangling /\ [Next]_vars => (CardInv /\ Dangling)'
    BY CardInductive, DanglingKept
  <1>2. Init => CardInv /\ Dangling
    BY CardInitial DEF Init, Dangling
  <1>3. Dangling => NoDanglingMembers
    BY DEF Dangling, Repairing, Remembered, Excused, NoDanglingMembers
  <1> QED
    BY <1>1, <1>2, <1>3, PTL DEF Spec

-----------------------------------------------------------------------------
(* Cards show their events whole. *)

Covers(c, e) == c.start <= event[e].start /\ event[e].end <= c.end

\* The card an upsert writes shows every event it lists as far as the event goes.
LEMMA WriteCovers ==
    ASSUME CardInv, NEW w \in Events, Write(w), event[w].state = "closed" => upTo[w] = event[w].end,
           NEW c \in cards', c \notin cards,
           NEW e \in c.members, event[e].state = "closed"
    PROVE  Covers(c, e)
  <1>1. /\ task[w] = "selected"
        /\ event \in [Events -> [state : States, lane : Lanes, start : Times, end : Times]]
        /\ upTo[w] \in Windows
    BY DEF Write, CardInv, TypeOK, EventTypes, TaskTypes
  <1>2. CASE found[w] = {}
    <2>1. c = FreshCard(w)
      BY <1>2 DEF Write
    <2>2. /\ c.start = event[w].start /\ c.end = Widened(event[w].start, upTo[w])
          /\ c.members = {w}
      BY <2>1 DEF FreshCard
    <2>3. e = w /\ upTo[w] = event[w].end
      BY <2>2
    <2> QED
      BY <1>1, <2>2, <2>3, WidenedTypes, WindowAssumption DEF Covers, Times
  <1>3. CASE Merge(w, found[w])
    <2>1. PICK new \in Card:
              /\ cards' = (cards \ found[w]) \cup {new}
              /\ new.members = Members(w, found[w])
              /\ \A m \in new.members: /\ new.start <= event[m].start /\ event[m].start <= new.end
                                       /\ EndOf(m) <= new.end
      BY <1>1, <1>3, MergeCovers
    <2>2. c = new
      BY <2>1
    <2> QED
      BY <2>1, <2>2 DEF Covers, EndOf
  <1> QED
    BY <1>2, <1>3 DEF Write

\* An event whose upserts are through is covered, unless the last was lost, or a restart
\* cut it off before the rebuild emptied the table.
Covered ==
    \A c \in cards: \A e \in c.members:
        /\ event[e].state = "closed" /\ task[e] = "none" /\ e \notin lost
        /\ e \notin missed \/ rebuild.phase = "replay"
        => Covers(c, e)

LEMMA CoveredKept ==
    ASSUME CardInv, Known, Covered, [Next]_vars
    PROVE  Covered'
  <1> SUFFICES ASSUME NEW c \in cards', NEW e \in c.members,
                      event'[e].state = "closed", task'[e] = "none", e \notin lost',
                      e \notin missed' \/ rebuild'.phase = "replay"
               PROVE  Covers(c, e)'
    BY DEF Covered
  <1>1. /\ event \in [Events -> [state : States, lane : Lanes, start : Times, end : Times]]
        /\ task \in [Events -> Phases] /\ TypeOK /\ \A b \in cards: b.members \subseteq Events
    BY DEF CardInv, TypeOK, EventTypes, TaskTypes, Card
  <1>2. e \in Events
    BY <1>1, TypeInductive DEF TypeOK, Card
  <1>3. UNCHANGED event[e] /\ event[e].state = "closed"
    <2>1. ~StartEvent(e)
      BY <1>1 DEF StartEvent
    <2>2. ~CloseEvent(e)
      <3>1. [task EXCEPT ![e] = "due"] \in [Events -> Phases] /\ [task EXCEPT ![e] = "due"][e] = "due"
        BY <1>1, <1>2 DEF Phases
      <3> QED
        BY <1>2, <3>1 DEF CloseEvent, Stale
    <2>3. ASSUME NEW ids \in SUBSET Events, e \in ids
          PROVE  ~DeleteRows(ids)
      BY <1>1, <2>3 DEF DeleteRows
    <2>4. CASE Restart
      <3>1. rebuild'.phase = "none" /\ event[e].state # "open"
        BY <1>2, <2>4 DEF Restart, NoRebuild
      <3> QED
        BY <1>2, <2>4, <3>1 DEF Restart
    <2> QED
      BY <1>1, <1>2, <2>1, <2>2, <2>3, <2>4, EventSteps
  <1>4. CASE c \notin cards
    <2>1. PICK w \in Events: Write(w)
      BY <1>4, CardSteps DEF Sweep, RebuildClear
    <2>2. event[w].state = "closed" => upTo[w] = event[w].end
      BY <2>1 DEF Write, Known, Loading, EndOf
    <2> QED
      BY <1>3, <1>4, <2>1, <2>2, WriteCovers DEF Covers
  <1>5. CASE c \in cards
    <2>1. CASE task[e] # "none" /\ Write(e)
      <3>1. task[e] = "selected" /\ Exists(e) /\ e \in Members(e, found[e]) /\ c \in found[e]
        BY <1>2, <1>3, <1>5, <2>1, FindsItsCard DEF Write, Exists, Members
      <3>2. PICK new \in Card:
                /\ cards' = (cards \ found[e]) \cup {new}
                /\ \A m \in new.members: /\ new.start <= event[m].start /\ event[m].start <= new.end
                                         /\ EndOf(m) <= new.end
        BY <1>2, <2>1, <3>1, MergeCovers DEF Write
      <3>3. c = new
        BY <3>1, <3>2
      <3> QED
        BY <1>3, <3>2, <3>3 DEF Covers, EndOf
    <2>2. CASE task[e] # "none" /\ ~Write(e)
      <3>1. ~Lose(e) /\ Exists(e) /\ ~StartEvent(e)
        BY <1>2, <1>3 DEF Lose, Exists, StartEvent
      <3>2. Restart
        BY <1>1, <1>2, <2>2, <3>1, UpsertEnds
      <3> QED
        BY <1>2, <2>2, <3>2 DEF Restart, NoRebuild
    <2>3. CASE task[e] = "none"
      <3>1. e \notin missed \/ rebuild.phase = "replay"
        <4>1. CASE RebuildDone
          BY <4>1 DEF RebuildDone, RebuildOver
        <4>2. CASE Restart
          BY <4>2 DEF Restart, NoRebuild
        <4>3. ~RebuildClear
          BY <1>5 DEF RebuildClear
        <4>4. CASE \E m \in Events: RebuildEvent(m)
          BY <4>4 DEF RebuildEvent
        <4> QED
          BY <4>1, <4>2, <4>3, <4>4, JobSteps, HistorySteps
      <3>2. e \notin lost
        <4>1. ~Write(e)
          BY <2>3 DEF Write
        <4> QED
          BY <4>1, HistorySteps DEF Write, Lose, DeleteRows
      <3> QED
        BY <1>3, <1>5, <2>3, <3>1, <3>2 DEF Covered, Covers
    <2> QED
      BY <2>1, <2>2, <2>3
  <1> QED
    BY <1>4, <1>5

\* However upserts, deletions, rebuilds and restarts interleave, a card shows its events
\* whole, unless a restart cut one off or its last upsert was lost.
THEOREM EventsCovered == Spec => []CardCoversEvent
  <1>1. CardInv /\ Known /\ Covered /\ [Next]_vars => (CardInv /\ Known /\ Covered)'
    BY CardInductive, KnownKept, CoveredKept
  <1>2. Init => CardInv /\ Known /\ Covered
    BY CardInitial, KnownInitial DEF Init, Covered
  <1>3. Covered => CardCoversEvent
    BY DEF Covered, Covers, CardCoversEvent
  <1> QED
    BY <1>1, <1>2, <1>3, PTL DEF Spec

-----------------------------------------------------------------------------
(* Cards of a lane in which only events that are over were upserted.          *)

\* Such an event, or a card of the lane, does not grow any more; a card covers them.
Over(e) == event[e].state \in {"closed", "deleted"}

Settled ==
    /\ \A e \in Events: Loading(e) /\ event[e].lane \notin opened => Over(e)
    /\ \A c \in cards: c.lane \notin opened =>
           \A e \in c.members: Over(e) /\ (event[e].state = "closed" => Covers(c, e))

\* A card that a step writes lists the event of the upsert, and events it was listed with.
LEMMA WrittenMembers ==
    ASSUME CardInv, NEW w \in Events, Write(w), NEW c \in cards', c \notin cards
    PROVE  /\ c.lane = event[w].lane
           /\ \A e \in c.members: e = w \/ \E b \in found[w]: b \in cards /\ e \in b.members
  <1>1. task[w] = "selected" /\ found[w] \subseteq cards
    BY DEF Write, CardInv, FreshSnapshots
  <1>2. CASE found[w] = {}
    <2>1. c = FreshCard(w)
      BY <1>2 DEF Write
    <2> QED
      BY <2>1 DEF FreshCard
  <1>3. CASE Merge(w, found[w])
    <2>1. PICK new \in Card:
              /\ cards' = (cards \ found[w]) \cup {new}
              /\ new.members = Members(w, found[w]) /\ new.lane = event[w].lane
      BY <1>1, <1>3, MergeCovers
    <2>2. c = new
      BY <2>1
    <2> QED
      BY <1>1, <2>1, <2>2 DEF Members
  <1> QED
    BY <1>2, <1>3 DEF Write

\* An event that is over stays over, and where it was.
LEMMA StaysOver ==
    ASSUME TypeOK, [Next]_vars, NEW e \in Events, Over(e)
    PROVE  /\ Over(e)' /\ event'[e].start = event[e].start /\ event'[e].end = event[e].end
           /\ event'[e].state = "closed" => event[e].state = "closed"
  <1>1. event \in [Events -> [state : States, lane : Lanes, start : Times, end : Times]]
    BY DEF TypeOK, EventTypes
  <1>2. ~StartEvent(e) /\ ~CloseEvent(e)
    BY DEF StartEvent, CloseEvent, Over
  <1>3. CASE \E ids \in SUBSET Events: e \in ids /\ DeleteRows(ids)
    BY <1>1, <1>3 DEF DeleteRows, Over
  <1>4. CASE Restart
    <2>1. event'[e] = event[e]
      BY <1>1, <1>4 DEF Restart, Over
    <2> QED
      BY <2>1 DEF Over
  <1> QED
    BY <1>2, <1>3, <1>4, EventSteps DEF Over

LEMMA SettledKept ==
    ASSUME CardInv, Known, Settled, [Next]_vars
    PROVE  Settled'
  <1>1. TypeOK /\ EventTypes /\ TaskTypes /\ \A b \in cards: b.members \subseteq Events
    BY DEF CardInv, TypeOK, Card
  <1>2. opened \subseteq opened'
    BY HistorySteps DEF LoadEvent
  <1>3. ASSUME NEW e \in Events, Loading(e)', event'[e].lane \notin opened'
        PROVE  Over(e)'
    <2>1. CASE Loading(e)
      <3>1. event[e].state # "absent"
        BY <2>1 DEF Loading, CardInv, Loaded
      <3>2. event'[e].lane = event[e].lane
        BY <3>1, RowsInOrder
      <3>3. Over(e)
        BY <1>2, <1>3, <2>1, <3>2 DEF Settled
      <3> QED
        BY <1>1, <3>3, StaysOver
    <2>2. CASE LoadEvent(e) /\ Exists(e)
      <3>1. event[e].state # "open" /\ UNCHANGED event
        BY <1>3, <2>2 DEF LoadEvent
      <3> QED
        BY <2>2, <3>1 DEF Exists, Over
    <2> QED
      BY <1>1, <1>3, <2>1, <2>2, LoadingSteps
  <1>4. ASSUME NEW c \in cards', c.lane \notin opened', NEW e \in c.members
        PROVE  /\ e \in Events /\ Over(e)
               /\ event[e].state = "closed" => Covers(c, e)
    <2>1. CASE c \in cards
      BY <1>1, <1>2, <1>4, <2>1 DEF Settled
    <2>2. CASE c \notin cards
      <3>1. PICK w \in Events: Write(w)
        BY <2>2, CardSteps DEF Sweep, RebuildClear
      <3>2. /\ task[w] = "selected" /\ UNCHANGED opened /\ c.lane = event[w].lane
            /\ e = w \/ \E b \in found[w]: b \in cards /\ e \in b.members
        BY <2>2, <3>1, WrittenMembers DEF Write
      <3>3. Over(w) /\ (event[w].state = "closed" => upTo[w] = event[w].end)
        BY <1>4, <3>2 DEF Settled, Known, Loading, EndOf
      <3>4. \A b \in found[w]: b.lane = event[w].lane
        BY <3>2 DEF CardInv, FreshSnapshots, Absorbs
      <3>5. e \in Events /\ Over(e)
        BY <1>1, <1>4, <3>2, <3>3, <3>4 DEF Settled
      <3> QED
        BY <2>2, <3>1, <3>3, <3>5, WriteCovers
    <2> QED
      BY <2>1, <2>2
  <1>5. ASSUME NEW c \in cards', c.lane \notin opened', NEW e \in c.members
        PROVE  Over(e)' /\ (event'[e].state = "closed" => Covers(c, e)')
    <2>1. /\ e \in Events /\ Over(e)' /\ event'[e].start = event[e].start
          /\ event'[e].end = event[e].end
          /\ event'[e].state = "closed" => event[e].state = "closed"
      BY <1>1, <1>4, <1>5, StaysOver
    <2> QED
      BY <1>4, <1>5, <2>1 DEF Covers
  <1> QED
    BY <1>3, <1>5 DEF Settled

-----------------------------------------------------------------------------
(* Cards of a lane do not overlap. *)

\* No window is shorter than the floor, and in a lane with no brief event no upsert
\* widens one.
NoneNarrow ==
    /\ \A c \in cards: c.end - c.start >= MinWindow
    /\ \A e \in Events: Loading(e) /\ event[e].lane \notin brief => upTo[e] - event[e].start >= MinWindow

Slack(lane) == IF lane \in brief THEN MinWindow ELSE 0

\* A written window is no shorter than the floor.
LEMMA WrittenLong ==
    ASSUME CardInv, NEW w \in Events, Write(w), NEW c \in cards', c \notin cards
    PROVE  c.end - c.start >= MinWindow
  <1>1. /\ EventTypes /\ cards \subseteq Card /\ found[w] \in SUBSET Card
        /\ event[w].start \in Times /\ upTo[w] \in Windows
    BY DEF CardInv, TypeOK, TaskTypes, EventTypes
  <1>2. ASSUME NEW start \in Times, NEW end \in Windows
        PROVE  Widened(start, end) - start >= MinWindow
    BY WindowAssumption DEF Widened, Times, Windows
  <1>3. CASE found[w] = {}
    <2>1. c = FreshCard(w)
      BY <1>3 DEF Write
    <2>2. c.start = event[w].start /\ c.end = Widened(event[w].start, upTo[w])
      BY <2>1 DEF FreshCard
    <2> QED
      BY <1>1, <1>2, <2>2
  <1>4. CASE Merge(w, found[w])
    <2> DEFINE members == Members(w, found[w])
    <2>1. members \subseteq Events
      BY <1>1 DEF Members, Card
    <2>2. Starts(found[w], members) \subseteq Times /\ Ends(found[w], members) \subseteq Windows
      BY <1>1, <2>1, EndTypes DEF Starts, Ends, Card
    <2>3. PICK start \in Starts(found[w], members), end \in Ends(found[w], members):
              cards' = (cards \ found[w])
                  \cup {[lane |-> event[w].lane, start |-> start, end |-> Widened(start, end),
                         members |-> members]}
      BY <1>4 DEF Merge, Folded
    <2> HIDE DEF members
    <2>4. c = [lane |-> event[w].lane, start |-> start, end |-> Widened(start, end),
               members |-> members]
      BY <2>3
    <2>5. c.start = start /\ c.end = Widened(start, end)
      BY <2>4
    <2> QED
      BY <1>2, <2>2, <2>3, <2>5
  <1> QED
    BY <1>3, <1>4 DEF Write

LEMMA NoneNarrowKept ==
    ASSUME CardInv, NoneNarrow, [Next]_vars
    PROVE  NoneNarrow'
  <1>1. TypeOK /\ EventTypes /\ TaskTypes
    BY DEF CardInv, TypeOK
  <1>2. ASSUME NEW c \in cards'
        PROVE  c.end - c.start >= MinWindow
    <2>1. CASE c \in cards
      BY <2>1 DEF NoneNarrow
    <2>2. CASE c \notin cards
      BY <2>2, CardSteps, WrittenLong DEF Sweep, RebuildClear
    <2> QED
      BY <2>1, <2>2
  <1>3. ASSUME NEW e \in Events, Loading(e)', event'[e].lane \notin brief'
        PROVE  upTo'[e] - event'[e].start >= MinWindow
    <2>1. brief \subseteq brief'
      BY HistorySteps DEF LoadEvent
    <2>2. CASE Loading(e) /\ upTo'[e] = upTo[e]
      <3>1. event[e].state # "absent"
        BY <2>2 DEF Loading, CardInv, Loaded
      <3>2. event'[e].lane = event[e].lane /\ event'[e].start = event[e].start
        BY <3>1, RowsInOrder
      <3> QED
        BY <1>3, <2>1, <2>2, <3>2 DEF NoneNarrow
    <2>3. CASE LoadEvent(e) /\ Exists(e)
      <3>1. ~(EndOf(e) - event[e].start < MinWindow) /\ upTo'[e] = EndOf(e) /\ UNCHANGED event
        BY <1>1, <1>3, <2>3 DEF LoadEvent, TaskTypes
      <3>2. EndOf(e) \in Windows /\ event[e].start \in Times
        BY <1>1, EndTypes
      <3> QED
        BY <3>1, <3>2, WindowAssumption DEF Times, Windows
    <2> QED
      BY <1>1, <1>3, <2>2, <2>3, LoadingSteps
  <1> QED
    BY <1>2, <1>3 DEF NoneNarrow

\* A card of the lane that an upsert leaves alone is on one side of the event and, up to
\* the slack, of all the cards it folds: one that lay between them would be near, and too
\* short to be left.
LEMMA OneSide ==
    ASSUME CardInv, NoneNarrow,
           NEW w \in Events, task[w] = "selected",
           NEW d \in cards, d \notin found[w], d.lane = event[w].lane,
           NEW slack \in 0..MinWindow, \A f \in found[w]: Apart(f, d, slack)
    PROVE  \/ d.end < event[w].start /\ \A f \in found[w]: d.end - f.start < slack
           \/ upTo[w] < d.start /\ \A f \in found[w]: f.end - d.start < slack
  <1>1. /\ event[w].start \in Nat /\ upTo[w] \in Nat /\ event[w].start <= upTo[w]
        /\ \A c \in cards: /\ c.start \in Nat /\ c.end \in Nat /\ c.start <= c.end
                            /\ c.end - c.start >= MinWindow
        /\ Gap \in Nat /\ Cap \in Nat /\ MinWindow \in Nat /\ Gap + MinWindow <= Cap
    <2>1. event[w].start \in Nat /\ upTo[w] \in Nat /\ \A c \in cards: c.start \in Nat /\ c.end \in Nat
      BY WindowAssumption DEF CardInv, TypeOK, EventTypes, TaskTypes, Card, Times, Windows
    <2>2. \A c \in cards: c.end - c.start >= MinWindow
      BY DEF NoneNarrow
    <2> QED
      BY <2>1, <2>2, WindowAssumption DEF CardInv, Loaded
  <1>2. ~Absorbs(w, d) /\ \A f \in found[w]: f \in cards /\ f.lane = d.lane /\ Near(w, f)
    BY DEF CardInv, FreshSnapshots, Absorbs
  <1>3. slack \in Nat /\ slack <= MinWindow
    BY <1>1
  <1>4. ~Overlaps(w, d) /\ (Near(w, d) => Wide(d))
    BY <1>1, <1>2 DEF Absorbs, Overlaps, Near
  <1>5. CASE d.end < event[w].start
    <2>1. ASSUME NEW f \in found[w], f.end - d.start < slack PROVE FALSE
      <3>1. Near(w, f) /\ f.start \in Nat /\ f.end \in Nat /\ d.start \in Nat /\ d.end \in Nat
            /\ d.end - d.start >= MinWindow
        BY <1>1, <1>2
      <3>2. ~Wide(d) /\ Near(w, d)
        BY <1>1, <1>3, <1>5, <2>1, <3>1 DEF Near, Wide
      <3> QED
        BY <1>4, <3>2
    <2> QED
      BY <1>5, <2>1 DEF Apart
  <1>6. CASE upTo[w] < d.start
    <2>1. ASSUME NEW f \in found[w], d.end - f.start < slack PROVE FALSE
      <3>1. Near(w, f) /\ f.start \in Nat /\ f.end \in Nat /\ d.start \in Nat /\ d.end \in Nat
            /\ d.end - d.start >= MinWindow
        BY <1>1, <1>2
      <3>2. ~Wide(d) /\ Near(w, d)
        BY <1>1, <1>3, <1>6, <2>1, <3>1 DEF Near, Wide
      <3> QED
        BY <1>4, <3>2
    <2> QED
      BY <1>6, <2>1 DEF Apart
  <1> QED
    BY <1>1, <1>4, <1>5, <1>6 DEF Overlaps

\* A merged window reaches no further than the event and the cards folded into it.
LEMMA MergeSpans ==
    ASSUME CardInv, Known, Settled, NoneNarrow,
           NEW w \in Events, event[w].lane \notin opened,
           task[w] = "selected", found[w] # {}, Merge(w, found[w])
    PROVE  \E new \in Card:
              /\ cards' = (cards \ found[w]) \cup {new} /\ new.lane = event[w].lane
              /\ event[w].start <= new.start \/ \E f \in found[w]: f.start <= new.start
              /\ new.end <= upTo[w] \/ \E f \in found[w]: new.end <= f.end
  <1> DEFINE members == Members(w, found[w])
  <1>1. /\ found[w] \subseteq cards /\ cards \subseteq Card /\ EventTypes
        /\ \A c \in cards: ShowsMembers(c)
        /\ \A f \in found[w]: f.lane \notin opened
    BY DEF CardInv, TypeOK, FreshSnapshots, Absorbs
  <1>2. members \subseteq Events /\ \A m \in members: /\ Exists(m)
                                                      /\ m = w \/ \E f \in found[w]: m \in f.members
    BY <1>1 DEF Members, Card
  <1>3. Starts(found[w], members) \subseteq Times /\ Ends(found[w], members) \subseteq Windows
    BY <1>1, <1>2, EndTypes DEF Starts, Ends, Card
  <1>4. PICK start \in Starts(found[w], members), end \in Ends(found[w], members):
            /\ Earliest(start, Starts(found[w], members)) /\ Latest(end, Ends(found[w], members))
            /\ cards' = (cards \ found[w])
                  \cup {[lane |-> event[w].lane, start |-> start, end |-> Widened(start, end),
                         members |-> members]}
    BY DEF Merge, Folded
  <1>5. start \in Times /\ end \in Windows
    BY <1>3
  <1>6. Widened(start, end) = end
    <2>1. PICK f \in found[w]: TRUE
      OBVIOUS
    <2>2. f.start \in Starts(found[w], members) /\ f.end \in Ends(found[w], members)
      BY DEF Starts, Ends
    <2>3. start <= f.start /\ f.end <= end /\ f.end - f.start >= MinWindow
      BY <1>1, <1>4, <2>2 DEF Earliest, Latest, NoneNarrow
    <2>4. f.start \in Nat /\ f.end \in Nat
      BY <1>1, WindowAssumption DEF Card, Times, Windows
    <2> QED
      BY <1>5, <2>3, <2>4, WindowAssumption DEF Widened, Times, Windows
  <1>7. event[w].start <= start \/ \E f \in found[w]: f.start <= start
    <2>1. CASE \E f \in found[w]: start = f.start
      BY <1>5, <2>1, WindowAssumption DEF Times
    <2>2. CASE \E m \in members: start = event[m].start
      BY <1>1, <1>2, <1>5, <2>2, WindowAssumption DEF ShowsMembers, Times
    <2> QED
      BY <2>1, <2>2 DEF Starts
  <1>8. end <= upTo[w] \/ \E f \in found[w]: end <= f.end
    <2>1. CASE \E f \in found[w]: end = f.end
      BY <1>5, <2>1, WindowAssumption DEF Windows
    <2>2. CASE \E m \in members: end = EndOf(m)
      <3>1. PICK m \in members: end = EndOf(m)
        BY <2>2
      <3>2. Over(m)
        BY <1>1, <1>2 DEF Settled, Loading
      <3>3. event[m].state = "closed" /\ end = event[m].end
        BY <1>2, <3>1, <3>2 DEF Over, Exists, EndOf
      <3>4. m = w => end = upTo[w]
        BY <3>1 DEF Known, Loading
      <3>5. \A f \in found[w]: m \in f.members => end <= f.end
        BY <1>1, <3>3 DEF Settled, Covers
      <3> QED
        BY <1>2, <1>5, <3>4, <3>5, WindowAssumption DEF Windows
    <2> QED
      BY <2>1, <2>2 DEF Ends
  <1> HIDE DEF members
  <1> DEFINE new == [lane |-> event[w].lane, start |-> start, end |-> Widened(start, end),
                     members |-> members]
  <1>9. new.lane = event[w].lane /\ new.start = start /\ new.end = end
    BY <1>6
  <1>10. new \in Card
    BY <1>1, <1>2, <1>5, <1>6, EndTypes DEF Card
  <1> QED
    BY <1>4, <1>7, <1>8, <1>9, <1>10

LEMMA DisjointKept ==
    ASSUME CardInv, Known, Settled, NoneNarrow, CardsDisjoint, [Next]_vars
    PROVE  CardsDisjoint'
  <1>1. ASSUME NEW w \in Events, Write(w)
        PROVE  CardsDisjoint'
    <2> DEFINE slack == Slack(event[w].lane)
    <2>1. /\ task[w] = "selected" /\ UNCHANGED <<opened, brief>>
          /\ event[w].start \in Nat /\ upTo[w] \in Nat /\ event[w].start <= upTo[w]
          /\ \A c \in cards: c.start \in Nat /\ c.end \in Nat
          /\ MinWindow \in Nat /\ slack \in 0..MinWindow
      BY <1>1, WindowAssumption DEF Write, CardInv, Loaded, TypeOK, EventTypes, TaskTypes, Card,
         Times, Windows, Slack
    <2>2. ASSUME NEW new \in Card, cards' = (cards \ found[w]) \cup {new}, new.lane = event[w].lane,
                 event[w].lane \notin opened =>
                    /\ event[w].start <= new.start \/ \E f \in found[w]: f.start <= new.start
                    /\ new.end <= upTo[w] \/ new.end < event[w].start + slack + 1
                       \/ \E f \in found[w]: new.end <= f.end
          PROVE  CardsDisjoint'
      <3>1. /\ new.start \in Nat /\ new.end \in Nat
            /\ \A f \in found[w]: f \in cards /\ f.lane = new.lane
        BY <2>1, <2>2, WindowAssumption DEF Card, Times, Windows, CardInv, FreshSnapshots, Absorbs
      <3>2. ASSUME NEW d \in cards \ found[w], d.lane = new.lane, d.lane \notin opened
            PROVE  d.end - new.start < slack \/ new.end - d.start < slack
        <4>0. \A f \in found[w]: Apart(f, d, slack)
          BY <2>2, <3>1, <3>2 DEF CardsDisjoint, Slack
        <4>1. \/ d.end < event[w].start /\ \A f \in found[w]: d.end - f.start < slack
              \/ upTo[w] < d.start /\ \A f \in found[w]: f.end - d.start < slack
          BY <2>1, <2>2, <3>2, <4>0, OneSide
        <4>2. d.start \in Nat /\ d.end \in Nat /\ slack \in Nat
          BY <2>1
        <4>a. \A f \in found[w]: f.start \in Nat /\ f.end \in Nat
          BY <2>1, <3>1
        <4> HIDE DEF slack
        <4>3. CASE d.end < event[w].start /\ \A f \in found[w]: d.end - f.start < slack
          <5>1. event[w].start <= new.start \/ \E f \in found[w]: f.start <= new.start
            BY <2>2, <3>2
          <5> QED
            BY <2>1, <3>1, <4>2, <4>3, <4>a, <5>1
        <4>4. CASE upTo[w] < d.start /\ \A f \in found[w]: f.end - d.start < slack
          <5>1. new.end <= upTo[w] \/ new.end < event[w].start + slack + 1
                \/ \E f \in found[w]: new.end <= f.end
            BY <2>2, <3>2
          <5> QED
            BY <2>1, <3>1, <4>2, <4>4, <4>a, <5>1
        <4> QED
          BY <4>1, <4>3, <4>4
      <3>3. ASSUME NEW c \in cards', NEW d \in cards', c # d, c.lane = d.lane, c.lane \notin opened
            PROVE  Apart(c, d, Slack(c.lane))
        <4>1. CASE c \in cards /\ d \in cards
          BY <3>3, <4>1 DEF CardsDisjoint, Slack
        <4>2. CASE c = new /\ d \in cards \ found[w]
          BY <2>2, <3>2, <3>3, <4>2 DEF Apart
        <4>3. CASE d = new /\ c \in cards \ found[w]
          BY <2>2, <3>2, <3>3, <4>3 DEF Apart
        <4> QED
          BY <2>2, <3>3, <4>1, <4>2, <4>3
      <3> QED
        BY <2>1, <3>3 DEF CardsDisjoint, Slack, Apart
    <2>3. CASE found[w] = {}
      <3>1. FreshCard(w) \in Card
        BY FreshTypes DEF CardInv, TypeOK
      <3>2. \/ Widened(event[w].start, upTo[w]) = upTo[w]
            \/ Widened(event[w].start, upTo[w]) = event[w].start + slack
        BY <2>1 DEF Widened, NoneNarrow, Loading, Slack
      <3>3. /\ FreshCard(w).lane = event[w].lane /\ FreshCard(w).start = event[w].start
            /\ FreshCard(w).end = Widened(event[w].start, upTo[w])
        BY DEF FreshCard
      <3>4. cards' = (cards \ found[w]) \cup {FreshCard(w)}
        BY <1>1, <2>3 DEF Write
      <3> HIDE DEF FreshCard, slack
      <3>5. FreshCard(w).end <= upTo[w] \/ FreshCard(w).end < event[w].start + slack + 1
        BY <2>1, <3>2, <3>3
      <3> QED
        BY <2>1, <2>2, <3>1, <3>3, <3>4, <3>5
    <2>4. CASE found[w] # {} /\ Merge(w, found[w])
      <3>1. \E new \in Card:
                /\ cards' = (cards \ found[w]) \cup {new} /\ new.lane = event[w].lane
                /\ event[w].lane \notin opened =>
                      /\ event[w].start <= new.start \/ \E f \in found[w]: f.start <= new.start
                      /\ new.end <= upTo[w] \/ \E f \in found[w]: new.end <= f.end
        <4>1. CASE event[w].lane \notin opened
          BY <2>1, <2>4, <4>1, MergeSpans
        <4>2. CASE event[w].lane \in opened
          BY <2>1, <2>4, <4>2, MergeCovers
        <4> QED
          BY <4>1, <4>2
      <3> HIDE DEF slack
      <3> QED
        BY <2>2, <3>1
    <2>5. CASE UNCHANGED cards
      BY <2>1, <2>5 DEF CardsDisjoint, Apart
    <2> QED
      BY <1>1, <2>3, <2>4, <2>5 DEF Write
  <1>2. CASE cards' \subseteq cards
    <2>1. opened \subseteq opened' /\ brief \subseteq brief'
      BY HistorySteps DEF LoadEvent
    <2>2. \A c \in cards: c.start \in Nat /\ c.end \in Nat
      BY WindowAssumption DEF CardInv, TypeOK, Card, Times, Windows
    <2>3. ASSUME NEW c \in cards, NEW d \in cards, Apart(c, d, 0)
          PROVE  Apart(c, d, MinWindow)
      BY <2>2, <2>3, WindowAssumption DEF Apart
    <2> QED
      BY <1>2, <2>1, <2>3 DEF CardsDisjoint
  <1> QED
    BY <1>1, <1>2, CardSteps DEF Sweep, RebuildClear

\* However upserts, deletions, rebuilds and restarts interleave and whatever is lost, no
\* two cards of a lane show the same second where no event was upserted before it ended,
\* but that one widened for a brief event reaches less than the floor into another.
THEOREM NoOverlap == Spec => []CardsDisjoint
  <1> DEFINE Inv == CardInv /\ Known /\ Settled /\ NoneNarrow /\ CardsDisjoint
  <1>1. Inv /\ [Next]_vars => Inv'
    BY CardInductive, KnownKept, SettledKept, NoneNarrowKept, DisjointKept
  <1>2. Init => Inv
    BY CardInitial, KnownInitial DEF Init, Settled, NoneNarrow, Loading, CardsDisjoint
  <1>3. Inv => CardsDisjoint
    OBVIOUS
  <1> QED
    BY <1>1, <1>2, <1>3, PTL DEF Spec

-----------------------------------------------------------------------------
(* What the feed is to its reader, as ReviewFeed has it.                     *)

\* An event is there, or not, as its row is.
LEMMA LifeOf ==
    ASSUME TypeOK, NEW e \in Events
    PROVE  /\ (Life(e) = "there") <=> Exists(e)
           /\ (Life(e) = "absent") <=> event[e].state = "absent"
           /\ (Life(e) = "gone") <=> event[e].state = "deleted"
  <1>1. event[e].state \in States
    BY DEF TypeOK, EventTypes
  <1> QED
    BY <1>1 DEF Life, Exists, States

\* The living among some events, told by their rows.
LEMMA ThereAre ==
    ASSUME TypeOK, NEW members \in SUBSET Events
    PROVE  Feed!There(members) = {m \in members : Exists(m)}
  BY LifeOf DEF Feed!There

\* A step that leaves rows and cards alone shows the reader nothing.
LEMMA FeedStutter ==
    ASSUME UNCHANGED <<cards, rebuilt>>, \A e \in Events: Life(e)' = Life(e)
    PROVE  UNCHANGED Feed!vars
  BY DEF Feed!vars

LEMMA RowsAlone == (UNCHANGED event) => \A e \in Events: Life(e)' = Life(e)
  BY DEF Life, Exists

\* A write puts its event on one card, with all the cards it is folded into.
LEMMA WriteRefines ==
    ASSUME CardInv, NEW e \in Events, Write(e)
    PROVE  [Feed!Next]_(Feed!vars)
  <1>1. task[e] = "selected" /\ UNCHANGED <<event, rebuilt>>
    BY DEF Write
  <1>2. TypeOK /\ cards \subseteq Card /\ Life(e) # "absent"
    BY <1>1, LifeOf DEF CardInv, TypeOK, Loaded
  <1>3. found[e] \in SUBSET cards /\ \A c \in found[e]: c.lane = event[e].lane
    BY <1>1 DEF CardInv, FreshSnapshots, Absorbs
  <1>4. \A c \in cards \ found[e]: e \notin c.members
    BY <1>1, FindsItsCard
  <1>5. UNCHANGED <<[m \in Events |-> Life(m)], rebuilt>>
    BY <1>1, RowsAlone
  <1>6. CASE found[e] = {}
    <2>1. PICK new: new = FreshCard(e) /\ cards' = cards \cup {new}
      BY <1>6 DEF Write
    <2>2. new.members = {e} /\ {e} # {}
      BY <2>1 DEF FreshCard
    <2>3. Feed!Group(e, {})
      BY <1>2, <1>4, <1>5, <1>6, <2>1, <2>2 DEF Feed!Group
    <2> QED
      BY <2>3 DEF Feed!Next
  <1>7. CASE Members(e, found[e]) # {} /\ found[e] # {} /\ Merge(e, found[e])
    <2>1. PICK new \in Card:
              /\ cards' = (cards \ found[e]) \cup {new}
              /\ new.members = Members(e, found[e]) /\ new.lane = event[e].lane
              /\ \A c \in found[e]: new.start <= c.start /\ c.end <= new.end
      BY <1>1, <1>7, MergeCovers
    <2>2. \A c \in found[e]: Feed!Widens(new, c)
      BY <1>3, <2>1 DEF Feed!Widens
    <2>3. {e} \cup UNION {c.members : c \in found[e]} \in SUBSET Events
      BY <1>2, <1>3 DEF Card
    <2>4. new.members = Feed!There({e} \cup UNION {c.members : c \in found[e]})
      BY <1>2, <2>1, <2>3, ThereAre DEF Members
    <2>5. new \in cards' /\ new.members # {}
      BY <1>7, <2>1
    <2>6. Feed!Group(e, found[e])
      BY <1>2, <1>4, <1>5, <1>7, <2>1, <2>2, <2>4, <2>5 DEF Feed!Group
    <2> QED
      BY <1>3, <2>6 DEF Feed!Next
  <1>8. CASE UNCHANGED cards
    BY <1>1, <1>8, FeedStutter, RowsAlone
  <1> QED
    BY <1>6, <1>7, <1>8 DEF Write

\* A card goes with a deletion only when none of its events is there: one that is would
\* keep the sweep from taking the card for empty.
LEMMA WithdrawalRefines ==
    ASSUME CardInv, Sweep \/ \E e \in Events: Repair(e)
    PROVE  [Feed!Next]_(Feed!vars)
  <1>1. TypeOK /\ UNCHANGED <<event, rebuilt>> /\ \A c \in cards: c.members \in SUBSET Events
    BY DEF Sweep, Repair, CardInv, TypeOK, Card
  <1>2. UNCHANGED <<[m \in Events |-> Life(m)], rebuilt>>
    BY <1>1, RowsAlone
  <1>3. ASSUME NEW taken \in SUBSET cards, cards' = cards \ taken,
               \A c \in taken: \A m \in c.members: ~Exists(m)
        PROVE  Feed!Next
    <2>1. \A c \in taken: Feed!There(c.members) = {}
      BY <1>1, <1>3, ThereAre
    <2>2. Feed!Withdraw(taken)
      BY <1>2, <1>3, <2>1 DEF Feed!Withdraw
    <2> QED
      BY <2>2 DEF Feed!Next
  <1>4. CASE Sweep
    <2>1. cards' = cards \ {c \in cards : Empty(c)}
      BY <1>4 DEF Sweep
    <2>2. ASSUME NEW c \in cards, Empty(c), NEW m \in c.members PROVE ~Exists(m)
      <3>1. m \in Events /\ ShowsMembers(c) /\ EventTypes /\ InOrder
        BY <1>1 DEF CardInv, TypeOK
      <3>2. /\ event[m].start <= c.end /\ c.start <= event[m].start
            /\ event[m].state = "closed" => event[m].start <= event[m].end
        BY <3>1 DEF ShowsMembers, InOrder
      <3>3. event[m].start \in Nat /\ event[m].end \in Nat /\ c.start \in Nat
        BY <3>1, WindowAssumption DEF EventTypes, Times, CardInv, TypeOK, Card
      <3> QED
        BY <2>2, <3>1, <3>2, <3>3 DEF Empty
    <2>3. PICK taken \in SUBSET cards: taken = {c \in cards : Empty(c)}
      OBVIOUS
    <2>4. cards' = cards \ taken /\ \A c \in taken: \A m \in c.members: ~Exists(m)
      BY <2>1, <2>2, <2>3
    <2> QED
      BY <1>3, <2>4
  <1>5. ASSUME NEW e \in Events, Repair(e)
        PROVE  [Feed!Next]_(Feed!vars)
    <2>1. \/ UNCHANGED cards
          \/ \E c \in cards: cards' = cards \ {c} /\ c.members \ deletion.call = {}
      BY <1>5 DEF Repair, RepairCard
    <2>2. CASE UNCHANGED cards
      BY <1>1, <2>2, FeedStutter, RowsAlone
    <2>3. CASE \E c \in cards: cards' = cards \ {c} /\ c.members \ deletion.call = {}
      <3>1. PICK c \in cards: cards' = cards \ {c} /\ c.members \ deletion.call = {}
        BY <2>3
      <3>2. \A m \in c.members: ~Exists(m)
        BY <3>1 DEF Exists, CardInv, CallGone
      <3> QED
        BY <1>3, <3>1, <3>2
    <2> QED
      BY <2>1, <2>2, <2>3
  <1> QED
    BY <1>4, <1>5

\* Every step is one of ReviewFeed, or shows nothing.
LEMMA FeedRefines == CardInv /\ [Next]_vars => [Feed!Next]_(Feed!vars)
  <1> SUFFICES ASSUME CardInv, [Next]_vars PROVE [Feed!Next]_(Feed!vars)
    OBVIOUS
  <1>a. TypeOK /\ event = [e \in Events |-> event[e]]
    BY DEF CardInv, TypeOK, EventTypes
  <1>1. ASSUME UNCHANGED <<event, cards, rebuilt>> PROVE UNCHANGED Feed!vars
    BY <1>1, FeedStutter, RowsAlone
  <1>2. CASE Tick \/ UNCHANGED vars
    BY <1>1, <1>2 DEF Tick, vars
  <1>3. ASSUME NEW e \in Events,
               Reanalyse(e) \/ LoadEvent(e) \/ SelectCards(e) \/ Lose(e) \/ RebuildEvent(e)
        PROVE  UNCHANGED Feed!vars
    BY <1>1, <1>3 DEF Reanalyse, LoadEvent, SelectCards, Lose, RebuildEvent
  <1>4. ASSUME NEW e \in Events, StartEvent(e)
        PROVE  Feed!Next
    <2>1. /\ event[e].state = "absent" /\ event'[e].state = "open"
          /\ \A m \in Events: m # e => event'[m] = event[m]
          /\ UNCHANGED <<cards, rebuilt>>
      BY <1>a, <1>4 DEF StartEvent, TypeOK, EventTypes
    <2>2. Life(e) = "absent" /\ Life(e)' = "there" /\ \A m \in Events: m # e => Life(m)' = Life(m)
      BY <2>1 DEF Life, Exists
    <2>3. Feed!Begin(e)
      BY <2>1, <2>2 DEF Feed!Begin
    <2> QED
      BY <2>3 DEF Feed!Next
  <1>5. ASSUME NEW e \in Events, CloseEvent(e)
        PROVE  UNCHANGED Feed!vars
    <2>1. /\ event[e].state = "open" /\ event'[e].state = "closed"
          /\ \A m \in Events: m # e => event'[m] = event[m]
          /\ UNCHANGED <<cards, rebuilt>>
      BY <1>a, <1>5 DEF CloseEvent, TypeOK, EventTypes
    <2>2. \A m \in Events: Life(m)' = Life(m)
      BY <2>1 DEF Life, Exists
    <2> QED
      BY <2>1, <2>2, FeedStutter
  <1>6. ASSUME NEW e \in Events, Write(e)
        PROVE  [Feed!Next]_(Feed!vars)
    BY <1>6, WriteRefines
  <1>7. ASSUME Sweep \/ \E e \in Events: Repair(e)
        PROVE  [Feed!Next]_(Feed!vars)
    BY <1>7, WithdrawalRefines
  <1>8. ASSUME NEW ids \in SUBSET Events, DeleteRows(ids)
        PROVE  Feed!Next
    <2>1. /\ \A e \in ids: event[e].state = "closed" /\ event'[e].state = "deleted"
          /\ \A m \in Events: m \notin ids => event'[m] = event[m]
          /\ UNCHANGED <<cards, rebuilt>>
      BY <1>a, <1>8 DEF DeleteRows, TypeOK, EventTypes
    <2>2. \A m \in Events: /\ m \in ids => Life(m) = "there" /\ Life(m)' = "gone"
                           /\ m \notin ids => Life(m)' = Life(m)
      BY <2>1 DEF Life, Exists
    <2>3. Feed!Delete(ids)
      BY <2>1, <2>2 DEF Feed!Delete
    <2> QED
      BY <2>3 DEF Feed!Next
  <1>9. CASE RebuildClear
    <2>1. Feed!Empty
      BY <1>9, RowsAlone DEF RebuildClear, Feed!Empty
    <2> QED
      BY <2>1 DEF Feed!Next
  <1>10. CASE RebuildDone
    <2>1. Feed!Settle
      BY <1>10, RowsAlone DEF RebuildDone, Feed!Settle
    <2> QED
      BY <2>1 DEF Feed!Next
  <1>11. CASE Restart
    <2>1. UNCHANGED <<cards, rebuilt>> /\ \A e \in Events:
              \/ event'[e] = event[e]
              \/ event[e].state = "open" /\ event'[e].state = "closed"
      BY <1>a, <1>11 DEF Restart, TypeOK, EventTypes
    <2>2. \A e \in Events: Life(e)' = Life(e)
      BY <2>1 DEF Life, Exists
    <2> QED
      BY <2>1, <2>2, FeedStutter
  <1> QED
    BY <1>2, <1>3, <1>4, <1>5, <1>6, <1>7, <1>8, <1>9, <1>10, <1>11 DEF Next

\* Through contention, deletions, rebuilds and restarts, and whatever upserts are lost to
\* a stale snapshot, the cards are a feed as ReviewFeed has it.
THEOREM FeedImplemented == Spec => ImplementsReviewFeed
  <1>1. Init => Feed!Init
    <2> SUFFICES ASSUME Init PROVE Feed!Init
      OBVIOUS
    <2>1. \A e \in Events: event[e].state = "absent"
      BY DEF Init
    <2>2. \A e \in Events: Life(e) = "absent"
      BY <2>1 DEF Life, Exists
    <2> QED
      BY <2>2, RunAssumption DEF Init, Feed!Init
  <1> QED
    BY <1>1, FeedRefines, CardInitial, CardInductive, PTL DEF Spec, ImplementsReviewFeed, Feed!Spec
=============================================================================
