--------------------------- MODULE ReviewSegments ---------------------------
(***************************************************************************)
(* Review items: how upsert_review_segment groups the rows of              *)
(* motion_events into cards, who calls it, and what deleting events and    *)
(* rebuilding the table do to the cards.                                   *)
(*                                                                         *)
(* Simplifications.                                                        *)
(* - A lane stands for a camera and a kind (sound or not): cards and       *)
(*   events of different lanes are never grouped.  An event keeps its      *)
(*   kind, so a card's kind, derived from its members, is theirs.          *)
(* - Time is in whole units, as epoch_secs truncates it; labels, severity, *)
(*   summaries, thumbnails and the reviewed flag are left out.             *)
(* - The upsert's transaction is deferred and the database is in WAL mode: *)
(*   it reads a snapshot, and its first write fails if anything was        *)
(*   written since.  So the members loaded are those of the snapshot, and  *)
(*   Write is one step.                                                    *)
(* - At most one upsert per event, and one deletion, is under way.         *)
(***************************************************************************)
EXTENDS Integers, FiniteSets

CONSTANTS
    Events,         \* rows of motion_events (bounds a run)
    Lanes,          \* cameras and kinds
    MaxTime,        \* the clock's bound
    Gap,            \* GAP_SECS
    Cap,            \* MAX_SEGMENT_SECS
    MinWindow,      \* MIN_WINDOW_SECS, and the floor of event_end_secs
    RepairCap,      \* the number of ids repair_segment_members gives up beyond
    ShortEvents,    \* whether events shorter than MinWindow occur
    OpenUpserts,    \* whether open events are upserted (sounds when they start, any by live analysis)
    Reanalysis,     \* whether AI analysis upserts an event again
    Deletions,      \* whether the user deletes events
    Contention,     \* whether another write may land while an upsert is under way
    Rebuilds,       \* whether the table is still to be rebuilt when the run starts
    MaxBoots        \* restarts in a run

ASSUME WindowAssumption ==
    /\ MaxTime \in Nat /\ Gap \in Nat /\ MinWindow \in Nat \ {0} /\ Cap \in Nat
    /\ Gap + MinWindow <= Cap
ASSUME RunAssumption ==
    /\ RepairCap \in Nat /\ MaxBoots \in Nat
    /\ ShortEvents \in BOOLEAN /\ OpenUpserts \in BOOLEAN /\ Reanalysis \in BOOLEAN
    /\ Deletions \in BOOLEAN /\ Contention \in BOOLEAN /\ Rebuilds \in BOOLEAN

VARIABLES
    now,
    event,      \* motion_events: state, lane, start and end of every row
    cards,      \* review_segments
    task,       \* the upsert of an event: none, due, loaded, selected, stale
    upTo,       \* the end of the event as the upsert loaded it
    found,      \* the cards the upsert found to fold the event into
    deletion,   \* the deletion under way: phase, its ids, those still to repair, upsert it awaits
    rebuild,    \* the rebuild under way: phase, events replayed so far, upsert it awaits
    rebuilt,    \* settings.review_rebuild_v2
    boots,
    missed,     \* events whose upsert, or whose deletion's repair, died with the process
    lost,       \* events whose last upsert was lost, or that went without a repair
    opened,     \* lanes in which an upsert loaded an event that was still open
    brief       \* lanes in which one loaded an event shorter than MinWindow

\* What happened so far, told by no table of the program.
history == <<missed, lost, opened, brief>>
vars == <<now, event, cards, task, upTo, found, deletion, rebuild, rebuilt, boots, history>>

Times   == 0..MaxTime
Windows == 0..(MaxTime + MinWindow)
States  == {"absent", "open", "closed", "deleted"}
Phases  == {"none", "due", "loaded", "selected", "stale"}
Card    == [lane : Lanes, start : Times, end : Windows, members : SUBSET Events]

EventTypes ==
    /\ now \in Times
    /\ event \in [Events -> [state : States, lane : Lanes, start : Times, end : Times]]
TaskTypes ==
    /\ task \in [Events -> Phases]
    /\ upTo \in [Events -> Windows]
    /\ found \in [Events -> SUBSET Card]
JobTypes ==
    /\ deletion \in [phase : {"none", "repair", "sweep"}, call : SUBSET Events,
                     ids : SUBSET Events, awaits : SUBSET Events]
    /\ rebuild \in [phase : {"none", "replay"}, done : SUBSET Events, awaits : SUBSET Events]
    /\ rebuilt \in BOOLEAN
    /\ boots \in 0..MaxBoots
HistoryTypes ==
    /\ missed \subseteq Events /\ lost \subseteq Events
    /\ opened \subseteq Lanes /\ brief \subseteq Lanes
TypeOK == EventTypes /\ cards \subseteq Card /\ TaskTypes /\ JobTypes /\ HistoryTypes

NoDeletion == [phase |-> "none", call |-> {}, ids |-> {}, awaits |-> {}]
NoRebuild  == [phase |-> "none", done |-> {}, awaits |-> {}]

Init ==
    /\ now = 0
    /\ event \in [Events -> {[state |-> "absent", lane |-> lane, start |-> 0, end |-> 0] : lane \in Lanes}]
    /\ cards = {}
    /\ task = [e \in Events |-> "none"]
    /\ upTo = [e \in Events |-> 0]
    /\ found = [e \in Events |-> {}]
    /\ deletion = NoDeletion
    /\ rebuild = NoRebuild
    /\ rebuilt = ~Rebuilds
    /\ boots = 0
    /\ missed = {} /\ lost = {} /\ opened = {} /\ brief = {}

Exists(e) == event[e].state \in {"open", "closed"}

\* event_end_secs
EndOf(e) == IF event[e].state = "open" THEN event[e].start + MinWindow ELSE event[e].end

\* A committed write makes every snapshot taken before it stale.  Without
\* contention nothing is written, or begun, while an upsert is under way.
Undisturbed == Contention \/ \A e \in Events: task[e] \notin {"loaded", "selected"}
Stale_Autocommit(tasks) == tasks
Stale(tasks) == [e \in Events |-> IF tasks[e] = "selected" THEN "stale" ELSE tasks[e]]

-----------------------------------------------------------------------------
(* Rows come and go. *)

Tick ==
    /\ now < MaxTime
    /\ now' = now + 1
    /\ UNCHANGED <<event, cards, task, upTo, found, deletion, rebuild, rebuilt, boots, history>>

StartEvent(e) ==
    /\ event[e].state = "absent" /\ Undisturbed
    /\ event' = [event EXCEPT ![e].state = "open", ![e].start = now]
    /\ task' = Stale([task EXCEPT ![e] = IF OpenUpserts THEN "due" ELSE "none"])
    /\ UNCHANGED <<now, cards, upTo, found, deletion, rebuild, rebuilt, boots, history>>

CloseEvent(e) ==
    /\ event[e].state = "open" /\ task[e] = "none" /\ Undisturbed
    /\ ~ShortEvents => now - event[e].start >= MinWindow
    /\ event' = [event EXCEPT ![e].state = "closed", ![e].end = now]
    /\ task' = Stale([task EXCEPT ![e] = "due"])
    /\ UNCHANGED <<now, cards, upTo, found, deletion, rebuild, rebuilt, boots, history>>

\* AI analysis ends by refining the event's card.
Reanalyse(e) ==
    /\ Reanalysis /\ Exists(e) /\ task[e] = "none"
    /\ event[e].state = "open" => OpenUpserts
    /\ task' = [task EXCEPT ![e] = "due"]
    /\ UNCHANGED <<now, event, cards, upTo, found, deletion, rebuild, rebuilt, boots, history>>

-----------------------------------------------------------------------------
(* upsert_review_segment *)

LoadEvent(e) ==
    /\ task[e] = "due" /\ Undisturbed
    /\ IF Exists(e)
       THEN /\ task' = [task EXCEPT ![e] = "loaded"] /\ upTo' = [upTo EXCEPT ![e] = EndOf(e)]
            /\ opened' = IF event[e].state = "open" THEN opened \cup {event[e].lane} ELSE opened
            /\ brief' = IF EndOf(e) - event[e].start < MinWindow
                        THEN brief \cup {event[e].lane} ELSE brief
       ELSE task' = [task EXCEPT ![e] = "none"] /\ UNCHANGED <<upTo, opened, brief>>
    /\ UNCHANGED <<now, event, cards, found, deletion, rebuild, rebuilt, boots, missed, lost>>

Overlaps(e, c) == event[e].start <= c.end /\ upTo[e] >= c.start
Near(e, c)     == event[e].start <= c.end + Gap /\ upTo[e] + Gap >= c.start
Wide(c)        == c.end - c.start >= Cap

\* The cards the event is folded into.
Absorbs_CapOnly(e, c)   == c.lane = event[e].lane /\ Near(e, c) /\ ~Wide(c)
Absorbs(e, c) == c.lane = event[e].lane /\ Near(e, c) /\ (Overlaps(e, c) \/ ~Wide(c))

SelectCards(e) ==
    /\ task[e] = "loaded"
    /\ task' = [task EXCEPT ![e] = "selected"]
    /\ found' = [found EXCEPT ![e] = {c \in cards : Absorbs(e, c)}]
    /\ UNCHANGED <<now, event, cards, upTo, deletion, rebuild, rebuilt, boots, history>>

\* with_min_window
Widened(start, end) == IF end - start >= MinWindow THEN end ELSE start + MinWindow

Earliest(t, T) == t \in T /\ \A u \in T: t <= u
Latest(t, T)   == t \in T /\ \A u \in T: u <= t

FreshCard(e) ==
    [lane |-> event[e].lane, start |-> event[e].start,
     end |-> Widened(event[e].start, upTo[e]), members |-> {e}]

\* The merged window: the span of the stored windows and of what the members say.
Starts(merged, members) == {c.start : c \in merged} \cup {event[m].start : m \in members}
Ends_StoredOnly(merged, members)  == {c.end : c \in merged}
Ends(merged, members) == {c.end : c \in merged} \cup {EndOf(m) : m \in members}

\* The members of the merged cards, and the event, that still exist.
Members_Deleted(e, merged) == {e} \cup UNION {c.members : c \in merged}
Members(e, merged) == {m \in {e} \cup UNION {c.members : c \in merged} : Exists(m)}

\* The rows left when the event's card replaces the ones it is folded from.
Folded_DropsNear(e, merged)   == {c \in cards : ~(c.lane = event[e].lane /\ Near(e, c))}
Folded(e, merged) == cards \ merged

Merge(e, merged) ==
    LET members == Members(e, merged)
    IN  \E start \in Starts(merged, members), end \in Ends(merged, members):
          /\ Earliest(start, Starts(merged, members)) /\ Latest(end, Ends(merged, members))
          /\ cards' = Folded(e, merged)
                \cup {[lane |-> event[e].lane, start |-> start, end |-> Widened(start, end),
                       members |-> members]}

Write(e) ==
    /\ task[e] = "selected"
    /\ IF found[e] = {} THEN cards' = cards \cup {FreshCard(e)}
       ELSE IF Members(e, found[e]) = {} THEN UNCHANGED cards
       ELSE Merge(e, found[e])
    /\ task' = Stale([task EXCEPT ![e] = "none"])
    /\ upTo' = [upTo EXCEPT ![e] = 0] /\ found' = [found EXCEPT ![e] = {}]
    /\ lost' = IF Exists(e) THEN lost \ {e} ELSE lost \cup {e}
    /\ UNCHANGED <<now, event, deletion, rebuild, rebuilt, boots, missed, opened, brief>>

\* SQLITE_BUSY_SNAPSHOT: the transaction is rolled back and the event forgotten.
Lose(e) ==
    /\ task[e] = "stale"
    /\ task' = [task EXCEPT ![e] = "none"]
    /\ upTo' = [upTo EXCEPT ![e] = 0] /\ found' = [found EXCEPT ![e] = {}]
    /\ lost' = lost \cup {e}
    /\ UNCHANGED <<now, event, cards, deletion, rebuild, rebuilt, boots, missed, opened, brief>>

-----------------------------------------------------------------------------
(* delete_events_and_satellites, then prune_empty_review_segments.          *)

\* Repair is skipped for more ids than the cap allows.
TooMany(ids) == Cardinality(ids) > RepairCap
AfterRows_NoRepair(ids) == [NoDeletion EXCEPT !.phase = "sweep", !.call = ids]
AfterRows(ids) ==
    IF TooMany(ids) THEN [NoDeletion EXCEPT !.phase = "sweep", !.call = ids]
    ELSE [NoDeletion EXCEPT !.phase = "repair", !.call = ids, !.ids = ids]

DeleteRows(ids) ==
    /\ Deletions /\ deletion.phase = "none" /\ Undisturbed
    /\ ids # {} /\ \A e \in ids: event[e].state = "closed"
    /\ event' = [e \in Events |->
                    IF e \in ids THEN [event[e] EXCEPT !.state = "deleted"] ELSE event[e]]
    /\ deletion' = AfterRows(ids)
    /\ task' = Stale(task)
    /\ lost' = IF TooMany(ids) THEN lost \cup ids ELSE lost
    /\ UNCHANGED <<now, cards, upTo, found, rebuild, rebuilt, boots, missed, opened, brief>>

Awaited(job) == \A m \in job.awaits: task[m] = "none"

\* repair_segment_members: the card of a deleted event is re-upserted through its
\* first member that this call does not name, be it deleted by an earlier one, when
\* the upsert does nothing; a card with no such member is removed.  Members have no
\* order here: any may be the first.
RepairCard(e, c) ==
    LET others == c.members \ deletion.call
    IN  IF others # {}
        THEN /\ \E m \in others:
                   /\ task[m] = "none"
                   /\ task' = [task EXCEPT ![m] = "due"]
                   /\ deletion' = [deletion EXCEPT !.ids = @ \ {e}, !.awaits = {m}]
             /\ UNCHANGED cards
        ELSE /\ Undisturbed
             /\ cards' = cards \ {c} /\ task' = Stale(task)
             /\ deletion' = [deletion EXCEPT !.ids = @ \ {e}, !.awaits = {}]

Repair(e) ==
    /\ deletion.phase = "repair" /\ e \in deletion.ids /\ Awaited(deletion)
    /\ IF \E c \in cards: e \in c.members
       THEN \E c \in cards: e \in c.members /\ RepairCard(e, c)
       ELSE /\ deletion' = [deletion EXCEPT !.ids = @ \ {e}, !.awaits = {}]
            /\ UNCHANGED <<cards, task>>
    /\ UNCHANGED <<now, event, upTo, found, rebuild, rebuilt, boots, history>>

\* No event of any lane in the card's window.
Empty(c) ==
    ~\E e \in Events: /\ Exists(e) /\ event[e].start <= c.end
                      /\ (IF event[e].state = "closed" THEN event[e].end ELSE event[e].start) >= c.start

Sweep ==
    /\ deletion.phase # "none" /\ deletion.ids = {} /\ Awaited(deletion)
    /\ Undisturbed
    /\ deletion' = NoDeletion
    /\ cards' = {c \in cards : ~Empty(c)}
    /\ task' = IF cards' = cards THEN task ELSE Stale(task)
    /\ UNCHANGED <<now, event, upTo, found, rebuild, rebuilt, boots, history>>

-----------------------------------------------------------------------------
(* rebuild_review_segments, once, and restarts.                             *)

RebuildClear ==
    /\ ~rebuilt /\ rebuild.phase = "none" /\ Undisturbed
    /\ cards' = {}
    /\ rebuild' = [NoRebuild EXCEPT !.phase = "replay"]
    /\ task' = IF cards = {} THEN task ELSE Stale(task)
    /\ UNCHANGED <<now, event, upTo, found, deletion, rebuilt, boots, history>>

Unreplayed == {e \in Events : Exists(e) /\ e \notin rebuild.done}

\* One event at a time, oldest first.
RebuildEvent(e) ==
    /\ rebuild.phase = "replay" /\ Awaited(rebuild)
    /\ e \in Unreplayed /\ \A m \in Unreplayed: event[e].start <= event[m].start
    /\ task[e] = "none"
    /\ task' = [task EXCEPT ![e] = "due"]
    /\ rebuild' = [rebuild EXCEPT !.done = @ \cup {e}, !.awaits = {e}]
    /\ UNCHANGED <<now, event, cards, upTo, found, deletion, rebuilt, boots, history>>

RebuildOver_OnePage == rebuild.phase = "replay" /\ rebuild.done # {} /\ Awaited(rebuild)
RebuildOver == rebuild.phase = "replay" /\ Unreplayed = {} /\ Awaited(rebuild)

RebuildDone ==
    /\ RebuildOver /\ Undisturbed
    /\ rebuild' = NoRebuild
    /\ rebuilt' = TRUE
    /\ missed' = {}
    /\ task' = Stale(task)
    /\ UNCHANGED <<now, event, cards, upTo, found, deletion, boots, lost, opened, brief>>

\* A crash drops every task; init_db closes the open rows where they started.
Restart ==
    /\ boots < MaxBoots /\ boots' = boots + 1
    /\ event' = [e \in Events |-> IF event[e].state = "open"
                                  THEN [event[e] EXCEPT !.state = "closed", !.end = event[e].start]
                                  ELSE event[e]]
    /\ missed' = missed \cup {e \in Events : event[e].state = "open" \/ task[e] # "none"}
                     \cup deletion.call
    /\ task' = [e \in Events |-> "none"]
    /\ upTo' = [e \in Events |-> 0] /\ found' = [e \in Events |-> {}]
    /\ deletion' = NoDeletion
    /\ rebuild' = NoRebuild
    /\ UNCHANGED <<now, cards, rebuilt, lost, opened, brief>>

Next ==
    \/ Tick
    \/ \E e \in Events:
          \/ StartEvent(e) \/ CloseEvent(e) \/ Reanalyse(e)
          \/ LoadEvent(e) \/ SelectCards(e) \/ Write(e) \/ Lose(e)
          \/ Repair(e) \/ RebuildEvent(e)
    \/ \E ids \in SUBSET Events: DeleteRows(ids)
    \/ Sweep
    \/ RebuildClear \/ RebuildDone
    \/ Restart

Spec == Init /\ [][Next]_vars

-----------------------------------------------------------------------------
(* Properties. *)

\* An event is on at most one card, whatever is lost, deleted or restarted.
OneCardPerEvent ==
    \A c, d \in cards: c # d => c.members \cap d.members = {}

\* Windows do not overlap within a lane ("a non-overlapping per-camera window"): no two
\* cards show the same second, but that a card widened for a brief event may reach less
\* than the floor into its neighbour.  Only where events are upserted before they end
\* does a merge reach over cards it never looked at.
Apart(c, d, slack) == c.end - d.start < slack \/ d.end - c.start < slack

CardsDisjoint ==
    \A c, d \in cards:
        c # d /\ c.lane = d.lane /\ c.lane \notin opened
            => Apart(c, d, IF c.lane \in brief THEN MinWindow ELSE 0)

\* A card shows its events whole: once its upserts are through, an event lies
\* within the window of the card that lists it, unless a restart cut it off or its
\* last upsert was lost.
CardCoversEvent ==
    \A c \in cards: \A e \in c.members:
        event[e].state = "closed" /\ task[e] = "none" /\ e \notin missed \cup lost
            => c.start <= event[e].start /\ event[e].end <= c.end

\* Grouping never narrows what the feed shows: outside deletions and rebuilds a
\* card's seconds stay on a card of its lane.
CardsOnlyWiden ==
    [][deletion.phase = "none" /\ rebuild'.phase = "none"
        => \A c \in cards: \E d \in cards':
               d.lane = c.lane /\ d.start <= c.start /\ c.end <= d.end]_vars

\* An event whose upserts are through is on a card, unless it was cut off by a
\* restart or its last upsert was lost: once the rebuild is over every event is
\* ("live hooks handle everything after").
ClosedEventsGrouped ==
    \A e \in Events:
        rebuilt /\ event[e].state = "closed" /\ task[e] = "none" /\ e \notin missed \cup lost
            => \E c \in cards: e \in c.members

\* Once a deletion is through, no card lists a deleted event ("so no caller can
\* leave dangling references"), but one with an event whose upsert was lost, or a
\* deleted one that an earlier deletion left there: too many at once, cut short by a
\* restart, or written after its deletion.
Excused(c) ==
    \E m \in c.members: m \in lost \/ (m \in missed /\ event[m].state = "deleted")

NoDanglingMembers ==
    deletion.phase = "none" =>
        \A c \in cards: (\A e \in c.members: event[e].state # "deleted") \/ Excused(c)

\* What the feed is to its reader, through contention, deletions, rebuilds and restarts:
\* the cards implement ReviewFeed.
Life(e) ==
    IF Exists(e) THEN "there" ELSE IF event[e].state = "deleted" THEN "gone" ELSE "absent"

Feed == INSTANCE ReviewFeed WITH
    life    <- [e \in Events |-> Life(e)],
    feed    <- cards,
    settled <- rebuilt

ImplementsReviewFeed == Feed!Spec
=============================================================================
