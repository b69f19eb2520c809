--------------------------- MODULE SegmentArchive ---------------------------
(***************************************************************************)
(* The recording archive: recorders write segments into nvr/incoming/, the *)
(* post-processor moves the finished ones into nvr/ and gives them a row   *)
(* in nvr_segments, every reader goes by the rows.  Retention, the disk    *)
(* guard and two commands delete files and rows, and a scan at boot puts   *)
(* right what the previous process left half done.                         *)
(*                                                                         *)
(* Simplifications.                                                        *)
(* - One camera.  Its segments are numbered in the order it records them,  *)
(*   so no two have one name; bookkeeping per segment is by that name.     *)
(* - Which segments retention picks is left open: any that have a row.     *)
(* - A loop that removes many files is one step, and so is a DELETE in     *)
(*   chunks; between the loop and the DELETE anything may happen.          *)
(* - Looking for a moov and acting on the answer is one step.  A rename    *)
(*   that fails is tried again at the next poll: no step.                  *)
(* - At most one of the two commands runs at a time.                       *)
(* - Recording is on when the process starts: with it off, neither the     *)
(*   post-processor nor the scan runs before the user turns it on.         *)
(* - Of the statements on the table only an INSERT fails.                  *)
(* - Unfinished files an old version left in the archive, which the scan   *)
(*   moves back to incoming/, are left out.                                *)
(***************************************************************************)
EXTENDS Integers

CONSTANTS
    MaxSegments,    \* segments recorded in a run
    Commands,       \* what the user runs: clear, range
    Watchdog,       \* whether a recorder may be respawned while a command runs
    Locks,          \* whether removing a file may fail (held open, on Windows)
    Faults,         \* whether an INSERT may fail
    MaxBoots        \* restarts in a run

ASSUME BoundAssumption == MaxSegments \in Nat /\ MaxBoots \in Nat
ASSUME RunAssumption ==
    /\ Commands \subseteq {"clear", "range"}
    /\ Watchdog \in BOOLEAN /\ Locks \in BOOLEAN /\ Faults \in BOOLEAN

VARIABLES
    file,       \* where each segment is, and what state it is in
    row,        \* segments with a row in nvr_segments
    recorder,   \* the segment being written
    paused,     \* the recorder has not written for 8 s
    strikes,    \* fail_counts: polls that found an idle segment unreadable
    moved,      \* the segment the post-processor has moved and not yet indexed
    scan,       \* the boot scan: phase, names still to visit, name found without a row
    retention,  \* the pass of prune_old_footage: step and the rows it selected
    guard,      \* files the disk guard removed whose rows it has yet to delete
    command,    \* the command under way: kind, step, rows it selected, segments it
                \* is about, segments a clear could not remove (the last is history)
    unlisted,   \* segments whose row this process lost or left behind (history)
    boots

disk     == <<file, row, unlisted>>
capture  == <<recorder, paused>>
polling  == <<strikes, moved>>
deletion == <<retention, guard, command>>
vars == <<disk, capture, polling, scan, deletion, boots>>

Segments  == 1..MaxSegments
NoSegment == 0
GivenUp   == 250
Incoming  == {"writing", "torn", "whole"}
Born      == {s \in Segments : file[s] # "unborn"}
Archived  == {s \in Segments : file[s] = "archived"}

NoScan      == [phase |-> "waiting", todo |-> {}, found |-> NoSegment]
NoRetention == [step |-> "none", chosen |-> {}]
NoCommand   == [kind |-> "none", step |-> "none", chosen |-> {}, about |-> {}, held |-> {}]

TypeOK ==
    /\ file \in [Segments -> Incoming \cup {"unborn", "archived", "quarantined", "gone"}]
    /\ row \subseteq Segments /\ unlisted \subseteq Segments
    /\ recorder \in Segments \cup {NoSegment} /\ paused \in BOOLEAN
    /\ strikes \in [Segments -> 0..2 \cup {GivenUp}]
    /\ moved \in Segments \cup {NoSegment}
    /\ scan \in [phase : {"waiting", "reindex", "prune", "done"}, todo : SUBSET Segments,
                 found : Segments \cup {NoSegment}]
    /\ retention \in [step : {"none", "unlink", "rows"}, chosen : SUBSET Segments]
    /\ guard \subseteq Segments
    /\ command \in [kind : Commands \cup {"none"},
                    step : {"none", "select", "unlink", "incoming", "archive", "rows"},
                    chosen : SUBSET Segments, about : SUBSET Segments, held : SUBSET Segments]
    /\ boots \in 0..MaxBoots

Init ==
    /\ file = [s \in Segments |-> "unborn"]
    /\ row = {} /\ unlisted = {}
    /\ recorder = NoSegment /\ paused = FALSE
    /\ strikes = [s \in Segments |-> 0] /\ moved = NoSegment
    /\ scan = NoScan
    /\ retention = NoRetention /\ guard = {} /\ command = NoCommand
    /\ boots = 0

Remove(doomed) == file' = [s \in Segments |-> IF s \in doomed THEN "gone" ELSE file[s]]

\* Rows deleted, whatever became of their files.
DeleteRows(doomed) ==
    /\ row' = row \ doomed
    /\ unlisted' = unlisted \cup (row \cap doomed \cap Archived)

\* INSERT OR IGNORE, of a path that may be there already.
Insert(s) ==
    \/ row' = row \cup {s} /\ UNCHANGED unlisted
    \/ Faults /\ UNCHANGED row /\ unlisted' = unlisted \cup {s}

-----------------------------------------------------------------------------
(* Recorders.                                                               *)

RecorderOpens(s) ==
    /\ recorder = NoSegment
    /\ file[s] = "unborn" /\ \A r \in Segments : r < s => file[r] # "unborn"
    /\ command = NoCommand \/ Watchdog
    /\ recorder' = s
    /\ file' = [file EXCEPT ![s] = "writing"]
    /\ UNCHANGED <<row, unlisted, paused, polling, scan, deletion, boots>>

\* The recorder, if there is one, lets go of its segment: whole if it rotated or
\* was stopped with `q` (the moov is written), torn if it was killed or died.  A
\* name that is gone stays gone.
LetGo(place) ==
    /\ recorder' = NoSegment /\ paused' = FALSE
    /\ file' = [s \in Segments |-> IF s = recorder /\ file[s] = "writing" THEN place ELSE file[s]]

RecorderLetsGo ==
    /\ recorder # NoSegment
    /\ LetGo("whole") \/ LetGo("torn")
    /\ UNCHANGED <<row, unlisted, polling, scan, deletion, boots>>

PausesOrResumes ==
    /\ recorder # NoSegment /\ paused' = ~paused
    /\ UNCHANGED <<disk, recorder, polling, scan, deletion, boots>>

-----------------------------------------------------------------------------
(* The post-processor: finalise_incoming, over whatever is in incoming/.    *)

\* Idle for longer than the threshold.  What nobody writes gets there by itself.
Ripe_AnyAge(s) == file[s] \in Incoming /\ strikes[s] < GivenUp
Ripe(s) ==
    /\ file[s] \in Incoming /\ strikes[s] < GivenUp
    /\ s = recorder => paused

\* It has a moov: it is moved into the archive, and then indexed.
Finalise(s) ==
    /\ moved = NoSegment /\ Ripe(s) /\ file[s] = "whole"
    /\ file' = [file EXCEPT ![s] = "archived"]
    /\ strikes' = [strikes EXCEPT ![s] = 0]
    /\ moved' = s
    /\ UNCHANGED <<row, unlisted, capture, scan, deletion, boots>>

IndexSegment ==
    /\ moved # NoSegment /\ moved' = NoSegment
    /\ Insert(moved)
    /\ UNCHANGED <<file, capture, strikes, scan, deletion, boots>>

\* It has none.  At the third poll it is deleted, or set aside, or left alone until
\* the next boot.
Verdict_Patient(s) == UNCHANGED <<file, strikes>>
Verdict(s) ==
    \/ /\ strikes[s] < 2
       /\ strikes' = [strikes EXCEPT ![s] = @ + 1] /\ UNCHANGED file
    \/ /\ strikes[s] = 2
       /\ \E place \in {"gone"} \cup IF Locks THEN {"quarantined"} ELSE {} :
             file' = [file EXCEPT ![s] = place]
       /\ strikes' = [strikes EXCEPT ![s] = 0]
    \/ /\ strikes[s] = 2 /\ Locks
       /\ strikes' = [strikes EXCEPT ![s] = GivenUp] /\ UNCHANGED file

Strike(s) ==
    /\ moved = NoSegment /\ Ripe(s) /\ file[s] # "whole"
    /\ Verdict(s)
    /\ UNCHANGED <<row, unlisted, capture, moved, scan, deletion, boots>>

-----------------------------------------------------------------------------
(* The boot scan: reindex_existing_nvr_segments, then                       *)
(* prune_orphaned_nvr_segments.                                             *)

ScanBegins ==
    /\ scan = NoScan
    /\ scan' = [scan EXCEPT !.phase = "reindex", !.todo = Archived]
    /\ UNCHANGED <<disk, capture, polling, deletion, boots>>

\* A name in the directory: has it a row?
CheckName(s) ==
    /\ scan.phase = "reindex" /\ scan.found = NoSegment /\ s \in scan.todo
    /\ scan' = [scan EXCEPT !.todo = @ \ {s}, !.found = IF s \in row THEN NoSegment ELSE s]
    /\ UNCHANGED <<disk, capture, polling, deletion, boots>>

Reindex ==
    /\ scan.phase = "reindex" /\ scan.found # NoSegment
    /\ scan' = [scan EXCEPT !.found = NoSegment]
    /\ Insert(scan.found)
    /\ UNCHANGED <<file, capture, polling, deletion, boots>>

ReindexOver_NoPrune == [scan EXCEPT !.phase = "done"]
ReindexOver == [scan EXCEPT !.phase = "prune", !.todo = row]

ReindexEnds ==
    /\ scan.phase = "reindex" /\ scan.found = NoSegment /\ scan.todo = {}
    /\ scan' = ReindexOver
    /\ UNCHANGED <<disk, capture, polling, deletion, boots>>

PruneRow(s) ==
    /\ scan.phase = "prune" /\ s \in scan.todo
    /\ scan' = [scan EXCEPT !.todo = @ \ {s}]
    /\ row' = IF s \in Archived THEN row ELSE row \ {s}
    /\ UNCHANGED <<file, unlisted, capture, polling, deletion, boots>>

ScanEnds ==
    /\ scan.phase = "prune" /\ scan.todo = {}
    /\ scan' = [scan EXCEPT !.phase = "done"]
    /\ UNCHANGED <<disk, capture, polling, deletion, boots>>

-----------------------------------------------------------------------------
(* prune_old_footage and run_disk_guard_loop.                               *)

\* Rows at least an hour old, so none the post-processor is just indexing.
RetentionSelects ==
    /\ retention = NoRetention
    /\ \E chosen \in SUBSET (row \ {moved}) \ {{}} :
          retention' = [step |-> "unlink", chosen |-> chosen]
    /\ UNCHANGED <<disk, capture, polling, scan, guard, command, boots>>

RetentionUnlinks ==
    /\ retention.step = "unlink"
    /\ retention' = [retention EXCEPT !.step = "rows"]
    /\ \E held \in SUBSET retention.chosen :
          /\ Locks \/ held = {}
          /\ Remove((retention.chosen \cap Archived) \ held)
    /\ UNCHANGED <<row, unlisted, capture, polling, scan, guard, command, boots>>

RetentionDeletesRows ==
    /\ retention.step = "rows" /\ retention' = NoRetention
    /\ DeleteRows(retention.chosen)
    /\ UNCHANGED <<file, capture, polling, scan, guard, command, boots>>

\* Oldest first, passing over what is held, down to a limit of at least a gigabyte:
\* never what was moved in a moment ago.
GuardRemoves(s) ==
    /\ s \in Archived \ {moved}
    /\ Locks \/ \A r \in Archived : s <= r
    /\ Remove({s})
    /\ guard' = guard \cup {s}
    /\ UNCHANGED <<row, unlisted, capture, polling, scan, retention, command, boots>>

GuardDeletesRow(s) ==
    /\ s \in guard /\ guard' = guard \ {s}
    /\ row' = row \ {s}
    /\ UNCHANGED <<file, unlisted, capture, polling, scan, retention, command, boots>>

-----------------------------------------------------------------------------
(* clear_nvr_recordings and the footage half of delete_footage_in_range.    *)

\* The recorders are killed first.
CommandBegins(kind, about) ==
    /\ command = NoCommand
    /\ IF kind = "clear" THEN about = Born ELSE about # {}
    /\ command' = [NoCommand EXCEPT !.kind = kind, !.step = "select", !.about = about]
    /\ LetGo("torn")
    /\ UNCHANGED <<row, unlisted, polling, scan, retention, guard, boots>>

CommandSelects ==
    /\ command.step = "select"
    /\ command' = [command EXCEPT !.step = "unlink",
                      !.chosen = IF command.kind = "clear" THEN row ELSE row \cap command.about]
    /\ UNCHANGED <<disk, capture, polling, scan, retention, guard, boots>>

\* Files removed, except those that could not be, and on to the next step.
Unlink(doomed, next) ==
    /\ \E held \in SUBSET doomed :
          /\ Locks \/ held = {}
          /\ Remove(doomed \ held)
          /\ command' = [command EXCEPT !.step = next, !.chosen = {},
                            !.held = IF command.kind = "clear" THEN @ \cup held ELSE @]
    /\ UNCHANGED <<row, unlisted, capture, polling, scan, retention, guard, boots>>

CommandUnlinks ==
    /\ command.step = "unlink"
    /\ Unlink(command.chosen \cap Archived, IF command.kind = "clear" THEN "incoming" ELSE "rows")

\* What the rows do not name: incoming/ first, then nvr/.
SweptFirst_Archive == {"archived"}
SweptFirst == Incoming \cup {"quarantined"}
SweptSecond == (Incoming \cup {"quarantined", "archived"}) \ SweptFirst

SweepIncoming ==
    /\ command.step = "incoming"
    /\ Unlink({s \in Segments : file[s] \in SweptFirst}, "archive")

SweepArchive ==
    /\ command.step = "archive"
    /\ Unlink({s \in Segments : file[s] \in SweptSecond}, "rows")

\* Rows inserted since the SELECT go too; and a segment swept up between its
\* rename and its INSERT gets its row after this.
CommandDeletesRows ==
    /\ command.step = "rows" /\ command' = NoCommand
    /\ LET doomed == IF command.kind = "clear" THEN Segments ELSE command.about
       IN  /\ row' = row \ doomed
           /\ unlisted' = unlisted \cup (row \cap doomed \cap Archived)
                                   \cup ({moved} \cap (Born \ Archived))
    /\ UNCHANGED <<file, capture, polling, scan, retention, guard, boots>>

-----------------------------------------------------------------------------
\* The process dies, and its recorders with it; or it exits, and they finish.
Restart ==
    /\ boots < MaxBoots /\ boots' = boots + 1
    /\ LetGo("torn") \/ LetGo("whole")
    /\ strikes' = [s \in Segments |-> 0] /\ moved' = NoSegment
    /\ scan' = NoScan
    /\ retention' = NoRetention /\ guard' = {} /\ command' = NoCommand
    /\ unlisted' = {} /\ UNCHANGED row

PostProcessor == IndexSegment \/ \E s \in Segments : Finalise(s) \/ Strike(s)

BootScan ==
    \/ ScanBegins \/ Reindex \/ ReindexEnds \/ ScanEnds
    \/ \E s \in Segments : CheckName(s) \/ PruneRow(s)

Next ==
    \/ \E s \in Segments : RecorderOpens(s)
    \/ RecorderLetsGo \/ PausesOrResumes
    \/ PostProcessor \/ BootScan
    \/ RetentionSelects \/ RetentionUnlinks \/ RetentionDeletesRows
    \/ \E s \in Segments : GuardRemoves(s) \/ GuardDeletesRow(s)
    \/ \E kind \in Commands, about \in SUBSET Born : CommandBegins(kind, about)
    \/ CommandSelects \/ CommandUnlinks \/ SweepIncoming \/ SweepArchive \/ CommandDeletesRows
    \/ Restart

Spec == Init /\ [][Next]_vars

\* The post-processor and the boot scan run on, as recording is on (boot.rs returns
\* before either when it is off).  Recorders, retention, the guard,
\* the user and restarts are not fair.
FairSpec == Spec /\ WF_vars(PostProcessor) /\ WF_vars(BootScan)

-----------------------------------------------------------------------------
(* Properties. *)

Quiet ==
    /\ moved = NoSegment /\ scan.phase = "done"
    /\ retention = NoRetention /\ guard = {} /\ command = NoCommand

\* "So the listed archive always matches disk" (prune_orphaned_nvr_segments): once
\* the boot scan is through and nothing is under way, what has a row has a file and
\* the other way round, whatever the last process left behind.  Excepted is what
\* this process lost: an INSERT that failed, a row deleted without its file, and a
\* segment a clear swept up between its rename and its INSERT.
ListingMatchesDisk ==
    Quiet => \A s \in Segments \ unlisted : s \in row <=> s \in Archived

\* The post-processor gives up only what can never be read (finalise_incoming):
\* footage that is whole, or that a live recorder is still writing, is removed by
\* nobody but retention, the guard and the commands.
ReadableKept ==
    [][\A s \in Segments :
        /\ file[s] \in {"whole", "archived"} \/ (s = recorder /\ ~paused /\ file[s] = "writing")
        /\ file'[s] \in {"gone", "quarantined"}
        => s \in retention.chosen \cup guard' \/ command # NoCommand]_vars

\* "Sweep any stragglers on disk" (clear_nvr_recordings): when a clear is through,
\* no segment recorded before it is left, wherever the post-processor had got to
\* with it, unless it could not be removed.
ClearedGone ==
    [][command.kind = "clear" /\ command.step = "rows"
        => \A s \in command.about \ command.held : file[s] = "gone"]_vars

\* Every segment a recorder let go of is indexed or discarded in the end, after a
\* crash too (postprocess_nvr_segments, reindex_existing_nvr_segments), unless it
\* was given up as locked or its INSERT failed.
SegmentsSettle ==
    \A s \in Segments :
        (file[s] \in {"torn", "whole"})
            ~> \/ s \in row \cup unlisted \/ strikes[s] = GivenUp
               \/ file[s] \in {"gone", "quarantined"}
=============================================================================
