------------------------ MODULE SegmentArchive_proofs ------------------------
(***************************************************************************)
(* Proofs about SegmentArchive, for any number of segments and restarts,   *)
(* with either command, respawned recorders, files that cannot be removed  *)
(* and failing INSERTs.                                                    *)
(***************************************************************************)
EXTENDS SegmentArchive, TLAPS

\* Where a segment is once it has reached the archive.
Safe == {"archived", "gone"}

\* Rows, and whatever a pass is working on, are about segments that have been moved
\* into the archive.  None is recorded or finalised again, so what a pass decided
\* about a segment stays true until it acts on it.
Settled ==
    /\ \A s \in row \cup scan.todo \cup retention.chosen : file[s] \in Safe
    /\ scan.found # NoSegment => file[scan.found] \in Safe
    /\ moved # NoSegment => file[moved] \in Safe
    /\ \A s \in guard : file[s] = "gone"
    /\ moved \notin retention.chosen

\* A command goes through its steps in order, and a range delete is about what it selected.
Orderly ==
    /\ command.kind = "none" <=> command.step = "none"
    /\ command.step \in {"incoming", "archive"} => command.kind = "clear"
    /\ command.kind = "range" => command.chosen \subseteq command.about

\* The command under way has yet to delete the row of s.
Pending(s) ==
    \/ command.kind = "clear" /\ command.step \in {"incoming", "archive", "rows"}
    \/ command.kind = "range" /\ command.step = "rows" /\ s \in command.about

\* A file without a row is one somebody has yet to index.
Listed ==
    \A s \in Segments : file[s] = "archived" /\ s \notin row /\ s \notin unlisted
        => \/ s = moved
           \/ scan.phase = "waiting"
           \/ scan.phase = "reindex" /\ (s \in scan.todo \/ s = scan.found)

\* A row without a file is one somebody has yet to delete.
Backed ==
    \A s \in Segments : file[s] # "archived" /\ s \in row /\ s \notin unlisted
        => \/ scan.phase \in {"waiting", "reindex"}
           \/ scan.phase = "prune" /\ s \in scan.todo
           \/ s \in guard
           \/ retention.step = "rows" /\ s \in retention.chosen
           \/ Pending(s)

\* If what the post-processor is about to index is no longer there, its row will go.
MovedSound ==
    moved # NoSegment /\ file[moved] # "archived" /\ moved \notin unlisted => Pending(moved)

\* A clear leaves nothing behind it: after the first sweep what it is about is in
\* the archive or gone, after the second it is gone.
Sweeping ==
    command.kind = "clear" =>
        /\ \A s \in command.about : file[s] # "unborn"
        /\ command.step = "archive" => \A s \in command.about \ command.held : file[s] \in Safe
        /\ command.step = "rows" => \A s \in command.about \ command.held : file[s] = "gone"

\* Where a segment can be.
Places == Incoming \cup {"unborn", "archived", "quarantined", "gone"}

\* The step ReadableKept allows.
Retires ==
    \A s \in Segments :
        /\ file[s] \in {"whole", "archived"} \/ (s = recorder /\ ~paused /\ file[s] = "writing")
        /\ file'[s] \in {"gone", "quarantined"}
        => s \in retention.chosen \cup guard' \/ command # NoCommand

\* The inductive invariant.
ArchiveInv ==
    TypeOK /\ Settled /\ Orderly /\ Listed /\ Backed /\ MovedSound /\ Sweeping

-----------------------------------------------------------------------------
(* Types. *)

\* A segment removed is still somewhere.
LEMMA RemoveTypes ==
    ASSUME TypeOK, NEW doomed, Remove(doomed)
    PROVE  file' \in [Segments -> Places]
  BY DEF TypeOK, Remove, Places

\* So is one let go of.
LEMMA LetGoTypes ==
    ASSUME TypeOK, NEW place \in {"torn", "whole"}, LetGo(place)
    PROVE  file' \in [Segments -> Places] /\ recorder' = NoSegment /\ paused' = FALSE
  BY DEF TypeOK, LetGo, Places, Incoming

\* A command that removes files and goes on keeps the types.
LEMMA UnlinkTypes ==
    ASSUME TypeOK, NEW doomed \in SUBSET Segments, NEW next \in {"incoming", "archive", "rows"},
           Unlink(doomed, next)
    PROVE  TypeOK'
  <1>1. PICK held \in SUBSET doomed :
            /\ Remove(doomed \ held)
            /\ command' = [command EXCEPT !.step = next, !.chosen = {},
                              !.held = IF command.kind = "clear" THEN @ \cup held ELSE @]
    BY DEF Unlink
  <1>2. file' \in [Segments -> Places]
    BY <1>1, RemoveTypes
  <1>3. UNCHANGED <<row, unlisted, capture, polling, scan, retention, guard, boots>>
    BY DEF Unlink
  <1> QED
    BY <1>1, <1>2, <1>3 DEF TypeOK, capture, polling, Places

\* An INSERT adds a segment, to one set or the other.
LEMMA InsertTypes ==
    ASSUME TypeOK, NEW s \in Segments, Insert(s)
    PROVE  row' \subseteq Segments /\ unlisted' \subseteq Segments
  BY DEF TypeOK, Insert

\* Every step keeps the types.
LEMMA TypesKept ==
    ASSUME TypeOK, [Next]_vars
    PROVE  TypeOK'
  <1> USE BoundAssumption, RunAssumption
      DEF TypeOK, disk, capture, polling, deletion, Segments, NoSegment, Incoming, Archived,
          Born, NoScan, NoRetention, NoCommand, GivenUp, Places
  <1>1. ASSUME NEW s \in Segments, RecorderOpens(s)
         PROVE  TypeOK'
    BY <1>1 DEF RecorderOpens
  <1>2. CASE RecorderLetsGo
    <2>1. file' \in [Segments -> Places] /\ recorder' = NoSegment /\ paused' = FALSE
      BY <1>2, LetGoTypes DEF RecorderLetsGo
    <2> QED
      BY <1>2, <2>1 DEF RecorderLetsGo
  <1>3. CASE PausesOrResumes
    BY <1>3 DEF PausesOrResumes
  <1>4. ASSUME NEW s \in Segments, Finalise(s)
         PROVE  TypeOK'
    BY <1>4 DEF Finalise, Ripe
  <1>5. ASSUME NEW s \in Segments, Strike(s)
         PROVE  TypeOK'
    <2>1. file' \in [Segments -> Places] /\ strikes' \in [Segments -> 0..2 \cup {GivenUp}]
      <3>1. file[s] \in Places /\ strikes[s] \in 0..2 \cup {GivenUp}
        OBVIOUS
      <3>2. CASE strikes[s] < 2 /\ strikes' = [strikes EXCEPT ![s] = @ + 1] /\ UNCHANGED file
        BY <3>1, <3>2
      <3>3. CASE \E place \in {"gone", "quarantined"} :
                   file' = [file EXCEPT ![s] = place] /\ strikes' = [strikes EXCEPT ![s] = 0]
        BY <3>1, <3>3
      <3>4. CASE strikes' = [strikes EXCEPT ![s] = GivenUp] /\ UNCHANGED file
        BY <3>1, <3>4
      <3> QED
        BY <1>5, <3>2, <3>3, <3>4 DEF Strike, Verdict
    <2> QED
      BY <1>5, <2>1 DEF Strike
  <1>6. CASE IndexSegment
    <2>1. moved \in Segments /\ Insert(moved)
      BY <1>6 DEF IndexSegment
    <2> QED
      BY <1>6, <2>1, InsertTypes DEF IndexSegment
  <1>7. CASE ScanBegins
    BY <1>7 DEF ScanBegins
  <1>8. CASE Reindex
    <2>1. scan.found \in Segments /\ Insert(scan.found)
      BY <1>8 DEF Reindex
    <2> QED
      BY <1>8, <2>1, InsertTypes DEF Reindex
  <1>9. CASE ReindexEnds
    BY <1>9 DEF ReindexEnds, ReindexOver
  <1>10. CASE ScanEnds
    BY <1>10 DEF ScanEnds
  <1>11. ASSUME NEW s \in Segments, CheckName(s)
         PROVE  TypeOK'
    BY <1>11 DEF CheckName
  <1>12. ASSUME NEW s \in Segments, PruneRow(s)
         PROVE  TypeOK'
    BY <1>12 DEF PruneRow
  <1>13. CASE RetentionSelects
    BY <1>13 DEF RetentionSelects
  <1>14. CASE RetentionUnlinks
    <2>1. file' \in [Segments -> Places]
      BY <1>14, RemoveTypes DEF RetentionUnlinks
    <2> QED
      BY <1>14, <2>1 DEF RetentionUnlinks
  <1>15. CASE RetentionDeletesRows
    BY <1>15 DEF RetentionDeletesRows, DeleteRows
  <1>16. ASSUME NEW s \in Segments, GuardRemoves(s)
         PROVE  TypeOK'
    BY <1>16 DEF GuardRemoves, Remove
  <1>17. ASSUME NEW s \in Segments, GuardDeletesRow(s)
         PROVE  TypeOK'
    BY <1>17 DEF GuardDeletesRow
  <1>18. ASSUME NEW kind \in Commands, NEW about \in SUBSET Born, CommandBegins(kind, about)
         PROVE  TypeOK'
    BY <1>18 DEF CommandBegins, LetGo
  <1>19. CASE CommandSelects
    BY <1>19 DEF CommandSelects
  <1>20. CASE CommandUnlinks
    <2> DEFINE doomed == command.chosen \cap Archived
    <2>1. PICK next \in {"archive", "rows", "incoming"} : Unlink(doomed, next)
      BY <1>20 DEF CommandUnlinks
    <2>2. doomed \in SUBSET Segments
      OBVIOUS
    <2> HIDE DEF doomed, TypeOK
    <2> QED
      BY <2>1, <2>2, UnlinkTypes
  <1>21. CASE SweepIncoming
    <2> DEFINE doomed == {r \in Segments : file[r] \in SweptFirst}
    <2>1. PICK next \in {"archive", "rows", "incoming"} : Unlink(doomed, next)
      BY <1>21 DEF SweepIncoming
    <2>2. doomed \in SUBSET Segments
      OBVIOUS
    <2> HIDE DEF doomed, TypeOK
    <2> QED
      BY <2>1, <2>2, UnlinkTypes
  <1>22. CASE SweepArchive
    <2> DEFINE doomed == {r \in Segments : file[r] \in SweptSecond}
    <2>1. PICK next \in {"archive", "rows", "incoming"} : Unlink(doomed, next)
      BY <1>22 DEF SweepArchive
    <2>2. doomed \in SUBSET Segments
      OBVIOUS
    <2> HIDE DEF doomed, TypeOK
    <2> QED
      BY <2>1, <2>2, UnlinkTypes
  <1>23. CASE CommandDeletesRows
    BY <1>23 DEF CommandDeletesRows
  <1>24. CASE Restart
    <2>1. file' \in [Segments -> Places] /\ recorder' = NoSegment /\ paused' = FALSE
      <3>1. PICK place \in {"torn", "whole"} : LetGo(place)
        BY <1>24 DEF Restart
      <3> HIDE DEF TypeOK, Segments, NoSegment
      <3> QED
        BY <3>1, LetGoTypes
    <2>2. strikes' \in [Segments -> 0..2 \cup {GivenUp}] /\ boots' \in 0..MaxBoots
      BY <1>24 DEF Restart
    <2>3. /\ scan' \in [phase : {"waiting", "reindex", "prune", "done"}, todo : SUBSET Segments,
                         found : Segments \cup {NoSegment}]
          /\ retention' \in [step : {"none", "unlink", "rows"}, chosen : SUBSET Segments]
      BY <1>24 DEF Restart
    <2>4. command' \in [kind : Commands \cup {"none"},
                    step : {"none", "select", "unlink", "incoming", "archive", "rows"},
                    chosen : SUBSET Segments, about : SUBSET Segments, held : SUBSET Segments]
      BY <1>24 DEF Restart
    <2>5. row' = row /\ unlisted' = {} /\ guard' = {} /\ moved' = NoSegment
      BY <1>24 DEF Restart
    <2> QED
      BY <2>1, <2>2, <2>3, <2>4, <2>5
  <1>25. CASE UNCHANGED vars
    BY <1>25 DEF vars
  <1> QED
    BY <1>1, <1>2, <1>3, <1>4, <1>5, <1>6, <1>7, <1>8, <1>9, <1>10, <1>11, <1>12, <1>13,
       <1>14, <1>15, <1>16, <1>17, <1>18, <1>19, <1>20, <1>21, <1>22, <1>23, <1>24, <1>25
    DEF Next, PostProcessor, BootScan, Born

-----------------------------------------------------------------------------
(* The invariant. *)

\* No pass is left with a segment that is not in the archive yet.
LEMMA SettledKept ==
    ASSUME TypeOK, Settled, [Next]_vars
    PROVE  Settled'
  <1> USE BoundAssumption, RunAssumption
      DEF TypeOK, disk, capture, polling, deletion, Segments, NoSegment, Safe, Archived,
          Incoming, Settled, NoScan, NoRetention
  <1>1. ASSUME NEW s \in Segments, RecorderOpens(s)
         PROVE  Settled'
    BY <1>1 DEF RecorderOpens
  <1>2. CASE RecorderLetsGo
    BY <1>2 DEF RecorderLetsGo, LetGo
  <1>3. CASE PausesOrResumes
    BY <1>3 DEF PausesOrResumes
  <1>4. ASSUME NEW s \in Segments, Finalise(s)
         PROVE  Settled'
    BY <1>4 DEF Finalise, Ripe
  <1>5. ASSUME NEW s \in Segments, Strike(s)
         PROVE  Settled'
    BY <1>5 DEF Strike, Verdict, Ripe
  <1>6. CASE IndexSegment
    <2>1. file[moved] \in Safe /\ row' \subseteq row \cup {moved}
      BY <1>6 DEF IndexSegment, Insert
    <2>2. moved' = NoSegment /\ UNCHANGED <<file, scan, retention, guard>>
      BY <1>6 DEF IndexSegment
    <2>3. NoSegment \notin retention.chosen
      OBVIOUS
    <2> QED
      BY <2>1, <2>2, <2>3
  <1>7. CASE ScanBegins
    BY <1>7 DEF ScanBegins
  <1>8. CASE Reindex
    BY <1>8 DEF Reindex, Insert
  <1>9. CASE ReindexEnds
    BY <1>9 DEF ReindexEnds, ReindexOver
  <1>10. CASE ScanEnds
    BY <1>10 DEF ScanEnds
  <1>11. ASSUME NEW s \in Segments, CheckName(s)
         PROVE  Settled'
    BY <1>11 DEF CheckName
  <1>12. ASSUME NEW s \in Segments, PruneRow(s)
         PROVE  Settled'
    BY <1>12 DEF PruneRow
  <1>13. CASE RetentionSelects
    BY <1>13 DEF RetentionSelects
  <1>14. CASE RetentionUnlinks
    BY <1>14 DEF RetentionUnlinks, Remove
  <1>15. CASE RetentionDeletesRows
    BY <1>15 DEF RetentionDeletesRows, DeleteRows
  <1>16. ASSUME NEW s \in Segments, GuardRemoves(s)
         PROVE  Settled'
    BY <1>16 DEF GuardRemoves, Remove
  <1>17. ASSUME NEW s \in Segments, GuardDeletesRow(s)
         PROVE  Settled'
    BY <1>17 DEF GuardDeletesRow
  <1>18. ASSUME NEW kind \in Commands, NEW about \in SUBSET Born, CommandBegins(kind, about)
         PROVE  Settled'
    BY <1>18 DEF CommandBegins, LetGo
  <1>19. CASE CommandSelects
    BY <1>19 DEF CommandSelects
  <1>20. CASE CommandUnlinks
    BY <1>20 DEF CommandUnlinks, Unlink, Remove
  <1>21. CASE SweepIncoming
    BY <1>21 DEF SweepIncoming, Unlink, Remove, SweptFirst
  <1>22. CASE SweepArchive
    BY <1>22 DEF SweepArchive, Unlink, Remove, SweptFirst, SweptSecond
  <1>23. CASE CommandDeletesRows
    BY <1>23 DEF CommandDeletesRows
  <1>24. CASE Restart
    BY <1>24 DEF Restart, LetGo
  <1>25. CASE UNCHANGED vars
    BY <1>25 DEF vars
  <1> QED
    BY <1>1, <1>2, <1>3, <1>4, <1>5, <1>6, <1>7, <1>8, <1>9, <1>10, <1>11, <1>12, <1>13,
       <1>14, <1>15, <1>16, <1>17, <1>18, <1>19, <1>20, <1>21, <1>22, <1>23, <1>24, <1>25
    DEF Next, PostProcessor, BootScan, Born

\* Commands stay in order.
LEMMA OrderlyKept ==
    ASSUME TypeOK, Orderly, [Next]_vars
    PROVE  Orderly'
  <1> USE BoundAssumption, RunAssumption
      DEF TypeOK, disk, capture, polling, deletion, Segments, NoSegment, Safe, Archived,
          Incoming, Orderly, NoCommand
  <1>1. ASSUME NEW s \in Segments, RecorderOpens(s)
         PROVE  Orderly'
    BY <1>1 DEF RecorderOpens
  <1>2. CASE RecorderLetsGo
    BY <1>2 DEF RecorderLetsGo, LetGo
  <1>3. CASE PausesOrResumes
    BY <1>3 DEF PausesOrResumes
  <1>4. ASSUME NEW s \in Segments, Finalise(s)
         PROVE  Orderly'
    BY <1>4 DEF Finalise, Ripe
  <1>5. ASSUME NEW s \in Segments, Strike(s)
         PROVE  Orderly'
    BY <1>5 DEF Strike, Verdict, Ripe
  <1>6. CASE IndexSegment
    BY <1>6 DEF IndexSegment, Insert
  <1>7. CASE ScanBegins
    BY <1>7 DEF ScanBegins
  <1>8. CASE Reindex
    BY <1>8 DEF Reindex, Insert
  <1>9. CASE ReindexEnds
    BY <1>9 DEF ReindexEnds, ReindexOver
  <1>10. CASE ScanEnds
    BY <1>10 DEF ScanEnds
  <1>11. ASSUME NEW s \in Segments, CheckName(s)
         PROVE  Orderly'
    BY <1>11 DEF CheckName
  <1>12. ASSUME NEW s \in Segments, PruneRow(s)
         PROVE  Orderly'
    BY <1>12 DEF PruneRow
  <1>13. CASE RetentionSelects
    BY <1>13 DEF RetentionSelects
  <1>14. CASE RetentionUnlinks
    BY <1>14 DEF RetentionUnlinks, Remove
  <1>15. CASE RetentionDeletesRows
    BY <1>15 DEF RetentionDeletesRows, DeleteRows
  <1>16. ASSUME NEW s \in Segments, GuardRemoves(s)
         PROVE  Orderly'
    BY <1>16 DEF GuardRemoves, Remove
  <1>17. ASSUME NEW s \in Segments, GuardDeletesRow(s)
         PROVE  Orderly'
    BY <1>17 DEF GuardDeletesRow
  <1>18. ASSUME NEW kind \in Commands, NEW about \in SUBSET Born, CommandBegins(kind, about)
         PROVE  Orderly'
    BY <1>18 DEF CommandBegins, LetGo
  <1>19. CASE CommandSelects
    BY <1>19 DEF CommandSelects
  <1>20. CASE CommandUnlinks
    BY <1>20 DEF CommandUnlinks, Unlink, Remove
  <1>21. CASE SweepIncoming
    BY <1>21 DEF SweepIncoming, Unlink, Remove, SweptFirst
  <1>22. CASE SweepArchive
    BY <1>22 DEF SweepArchive, Unlink, Remove, SweptFirst, SweptSecond
  <1>23. CASE CommandDeletesRows
    BY <1>23 DEF CommandDeletesRows
  <1>24. CASE Restart
    BY <1>24 DEF Restart, LetGo
  <1>25. CASE UNCHANGED vars
    BY <1>25 DEF vars
  <1> QED
    BY <1>1, <1>2, <1>3, <1>4, <1>5, <1>6, <1>7, <1>8, <1>9, <1>10, <1>11, <1>12, <1>13,
       <1>14, <1>15, <1>16, <1>17, <1>18, <1>19, <1>20, <1>21, <1>22, <1>23, <1>24, <1>25
    DEF Next, PostProcessor, BootScan, Born

\* No file loses its row, or fails to get one, without a reason.
LEMMA ListedKept ==
    ASSUME TypeOK, Settled, Listed, [Next]_vars
    PROVE  Listed'
  <1> USE BoundAssumption, RunAssumption
      DEF TypeOK, disk, capture, polling, deletion, Segments, NoSegment, Safe, Archived,
          Incoming, Settled, Listed, NoScan
  <1>1. ASSUME NEW s \in Segments, RecorderOpens(s)
         PROVE  Listed'
    BY <1>1 DEF RecorderOpens
  <1>2. CASE RecorderLetsGo
    BY <1>2 DEF RecorderLetsGo, LetGo
  <1>3. CASE PausesOrResumes
    BY <1>3 DEF PausesOrResumes
  <1>4. ASSUME NEW s \in Segments, Finalise(s)
         PROVE  Listed'
    BY <1>4 DEF Finalise, Ripe
  <1>5. ASSUME NEW s \in Segments, Strike(s)
         PROVE  Listed'
    BY <1>5 DEF Strike, Verdict, Ripe
  <1>6. CASE IndexSegment
    BY <1>6 DEF IndexSegment, Insert
  <1>7. CASE ScanBegins
    BY <1>7 DEF ScanBegins
  <1>8. CASE Reindex
    BY <1>8 DEF Reindex, Insert
  <1>9. CASE ReindexEnds
    BY <1>9 DEF ReindexEnds, ReindexOver
  <1>10. CASE ScanEnds
    BY <1>10 DEF ScanEnds
  <1>11. ASSUME NEW s \in Segments, CheckName(s)
         PROVE  Listed'
    BY <1>11 DEF CheckName
  <1>12. ASSUME NEW s \in Segments, PruneRow(s)
         PROVE  Listed'
    BY <1>12 DEF PruneRow
  <1>13. CASE RetentionSelects
    BY <1>13 DEF RetentionSelects
  <1>14. CASE RetentionUnlinks
    BY <1>14 DEF RetentionUnlinks, Remove
  <1>15. CASE RetentionDeletesRows
    BY <1>15 DEF RetentionDeletesRows, DeleteRows
  <1>16. ASSUME NEW s \in Segments, GuardRemoves(s)
         PROVE  Listed'
    BY <1>16 DEF GuardRemoves, Remove
  <1>17. ASSUME NEW s \in Segments, GuardDeletesRow(s)
         PROVE  Listed'
    BY <1>17 DEF GuardDeletesRow
  <1>18. ASSUME NEW kind \in Commands, NEW about \in SUBSET Born, CommandBegins(kind, about)
         PROVE  Listed'
    BY <1>18 DEF CommandBegins, LetGo
  <1>19. CASE CommandSelects
    BY <1>19 DEF CommandSelects
  <1>20. CASE CommandUnlinks
    BY <1>20 DEF CommandUnlinks, Unlink, Remove
  <1>21. CASE SweepIncoming
    BY <1>21 DEF SweepIncoming, Unlink, Remove, SweptFirst
  <1>22. CASE SweepArchive
    BY <1>22 DEF SweepArchive, Unlink, Remove, SweptFirst, SweptSecond
  <1>23. CASE CommandDeletesRows
    BY <1>23 DEF CommandDeletesRows
  <1>24. CASE Restart
    BY <1>24 DEF Restart, LetGo
  <1>25. CASE UNCHANGED vars
    BY <1>25 DEF vars
  <1> QED
    BY <1>1, <1>2, <1>3, <1>4, <1>5, <1>6, <1>7, <1>8, <1>9, <1>10, <1>11, <1>12, <1>13,
       <1>14, <1>15, <1>16, <1>17, <1>18, <1>19, <1>20, <1>21, <1>22, <1>23, <1>24, <1>25
    DEF Next, PostProcessor, BootScan, Born

\* What a command removes under the post-processor it also clears from the table, or has on record.
LEMMA MovedKept ==
    ASSUME TypeOK, Settled, Orderly, MovedSound, [Next]_vars
    PROVE  MovedSound'
  <1> USE BoundAssumption, RunAssumption
      DEF TypeOK, disk, capture, polling, deletion, Segments, NoSegment, Safe, Archived,
          Incoming, Settled, Orderly, MovedSound, Pending, NoCommand, Born
  <1>1. ASSUME NEW s \in Segments, RecorderOpens(s)
         PROVE  MovedSound'
    BY <1>1 DEF RecorderOpens
  <1>2. CASE RecorderLetsGo
    BY <1>2 DEF RecorderLetsGo, LetGo
  <1>3. CASE PausesOrResumes
    BY <1>3 DEF PausesOrResumes
  <1>4. ASSUME NEW s \in Segments, Finalise(s)
         PROVE  MovedSound'
    BY <1>4 DEF Finalise, Ripe
  <1>5. ASSUME NEW s \in Segments, Strike(s)
         PROVE  MovedSound'
    BY <1>5 DEF Strike, Verdict, Ripe
  <1>6. CASE IndexSegment
    BY <1>6 DEF IndexSegment, Insert
  <1>7. CASE ScanBegins
    BY <1>7 DEF ScanBegins
  <1>8. CASE Reindex
    BY <1>8 DEF Reindex, Insert
  <1>9. CASE ReindexEnds
    BY <1>9 DEF ReindexEnds, ReindexOver
  <1>10. CASE ScanEnds
    BY <1>10 DEF ScanEnds
  <1>11. ASSUME NEW s \in Segments, CheckName(s)
         PROVE  MovedSound'
    BY <1>11 DEF CheckName
  <1>12. ASSUME NEW s \in Segments, PruneRow(s)
         PROVE  MovedSound'
    BY <1>12 DEF PruneRow
  <1>13. CASE RetentionSelects
    BY <1>13 DEF RetentionSelects
  <1>14. CASE RetentionUnlinks
    BY <1>14 DEF RetentionUnlinks, Remove
  <1>15. CASE RetentionDeletesRows
    BY <1>15 DEF RetentionDeletesRows, DeleteRows
  <1>16. ASSUME NEW s \in Segments, GuardRemoves(s)
         PROVE  MovedSound'
    BY <1>16 DEF GuardRemoves, Remove
  <1>17. ASSUME NEW s \in Segments, GuardDeletesRow(s)
         PROVE  MovedSound'
    BY <1>17 DEF GuardDeletesRow
  <1>18. ASSUME NEW kind \in Commands, NEW about \in SUBSET Born, CommandBegins(kind, about)
         PROVE  MovedSound'
    BY <1>18 DEF CommandBegins, LetGo
  <1>19. CASE CommandSelects
    BY <1>19 DEF CommandSelects
  <1>20. CASE CommandUnlinks
    BY <1>20 DEF CommandUnlinks, Unlink, Remove
  <1>21. CASE SweepIncoming
    BY <1>21 DEF SweepIncoming, Unlink, Remove, SweptFirst
  <1>22. CASE SweepArchive
    BY <1>22 DEF SweepArchive, Unlink, Remove, SweptFirst, SweptSecond
  <1>23. CASE CommandDeletesRows
    BY <1>23 DEF CommandDeletesRows
  <1>24. CASE Restart
    BY <1>24 DEF Restart, LetGo
  <1>25. CASE UNCHANGED vars
    BY <1>25 DEF vars
  <1> QED
    BY <1>1, <1>2, <1>3, <1>4, <1>5, <1>6, <1>7, <1>8, <1>9, <1>10, <1>11, <1>12, <1>13,
       <1>14, <1>15, <1>16, <1>17, <1>18, <1>19, <1>20, <1>21, <1>22, <1>23, <1>24, <1>25
    DEF Next, PostProcessor, BootScan, Born

\* No file goes without somebody set to delete its row.
LEMMA BackedKept ==
    ASSUME TypeOK, Settled, Orderly, MovedSound, Backed, [Next]_vars
    PROVE  Backed'
  <1> USE BoundAssumption, RunAssumption
      DEF TypeOK, disk, capture, polling, deletion, Segments, NoSegment, Safe, Archived,
          Incoming, Settled, Orderly, MovedSound, Backed, Pending, NoCommand, NoRetention,
          NoScan, Born
  <1>1. ASSUME NEW s \in Segments, RecorderOpens(s)
         PROVE  Backed'
    BY <1>1 DEF RecorderOpens
  <1>2. CASE RecorderLetsGo
    BY <1>2 DEF RecorderLetsGo, LetGo
  <1>3. CASE PausesOrResumes
    BY <1>3 DEF PausesOrResumes
  <1>4. ASSUME NEW s \in Segments, Finalise(s)
         PROVE  Backed'
    BY <1>4 DEF Finalise, Ripe
  <1>5. ASSUME NEW s \in Segments, Strike(s)
         PROVE  Backed'
    BY <1>5 DEF Strike, Verdict, Ripe
  <1>6. CASE IndexSegment
    BY <1>6 DEF IndexSegment, Insert
  <1>7. CASE ScanBegins
    BY <1>7 DEF ScanBegins
  <1>8. CASE Reindex
    BY <1>8 DEF Reindex, Insert
  <1>9. CASE ReindexEnds
    BY <1>9 DEF ReindexEnds, ReindexOver
  <1>10. CASE ScanEnds
    BY <1>10 DEF ScanEnds
  <1>11. ASSUME NEW s \in Segments, CheckName(s)
         PROVE  Backed'
    BY <1>11 DEF CheckName
  <1>12. ASSUME NEW s \in Segments, PruneRow(s)
         PROVE  Backed'
    BY <1>12 DEF PruneRow
  <1>13. CASE RetentionSelects
    BY <1>13 DEF RetentionSelects
  <1>14. CASE RetentionUnlinks
    BY <1>14 DEF RetentionUnlinks, Remove
  <1>15. CASE RetentionDeletesRows
    BY <1>15 DEF RetentionDeletesRows, DeleteRows
  <1>16. ASSUME NEW s \in Segments, GuardRemoves(s)
         PROVE  Backed'
    BY <1>16 DEF GuardRemoves, Remove
  <1>17. ASSUME NEW s \in Segments, GuardDeletesRow(s)
         PROVE  Backed'
    BY <1>17 DEF GuardDeletesRow
  <1>18. ASSUME NEW kind \in Commands, NEW about \in SUBSET Born, CommandBegins(kind, about)
         PROVE  Backed'
    BY <1>18 DEF CommandBegins, LetGo
  <1>19. CASE CommandSelects
    BY <1>19 DEF CommandSelects
  <1>20. CASE CommandUnlinks
    BY <1>20 DEF CommandUnlinks, Unlink, Remove
  <1>21. CASE SweepIncoming
    BY <1>21 DEF SweepIncoming, Unlink, Remove, SweptFirst
  <1>22. CASE SweepArchive
    BY <1>22 DEF SweepArchive, Unlink, Remove, SweptFirst, SweptSecond
  <1>23. CASE CommandDeletesRows
    BY <1>23 DEF CommandDeletesRows
  <1>24. CASE Restart
    BY <1>24 DEF Restart, LetGo
  <1>25. CASE UNCHANGED vars
    BY <1>25 DEF vars
  <1> QED
    BY <1>1, <1>2, <1>3, <1>4, <1>5, <1>6, <1>7, <1>8, <1>9, <1>10, <1>11, <1>12, <1>13,
       <1>14, <1>15, <1>16, <1>17, <1>18, <1>19, <1>20, <1>21, <1>22, <1>23, <1>24, <1>25
    DEF Next, PostProcessor, BootScan, Born

\* A sweep misses nothing, and nothing comes back behind it.
LEMMA SweepingKept ==
    ASSUME TypeOK, Sweeping, [Next]_vars
    PROVE  Sweeping'
  <1> USE BoundAssumption, RunAssumption
      DEF TypeOK, disk, capture, polling, deletion, Segments, NoSegment, Safe, Archived,
          Incoming, Sweeping, NoCommand, Born
  <1>1. ASSUME NEW s \in Segments, RecorderOpens(s)
         PROVE  Sweeping'
    BY <1>1 DEF RecorderOpens
  <1>2. CASE RecorderLetsGo
    BY <1>2 DEF RecorderLetsGo, LetGo
  <1>3. CASE PausesOrResumes
    BY <1>3 DEF PausesOrResumes
  <1>4. ASSUME NEW s \in Segments, Finalise(s)
         PROVE  Sweeping'
    BY <1>4 DEF Finalise, Ripe
  <1>5. ASSUME NEW s \in Segments, Strike(s)
         PROVE  Sweeping'
    BY <1>5 DEF Strike, Verdict, Ripe
  <1>6. CASE IndexSegment
    BY <1>6 DEF IndexSegment, Insert
  <1>7. CASE ScanBegins
    BY <1>7 DEF ScanBegins
  <1>8. CASE Reindex
    BY <1>8 DEF Reindex, Insert
  <1>9. CASE ReindexEnds
    BY <1>9 DEF ReindexEnds, ReindexOver
  <1>10. CASE ScanEnds
    BY <1>10 DEF ScanEnds
  <1>11. ASSUME NEW s \in Segments, CheckName(s)
         PROVE  Sweeping'
    BY <1>11 DEF CheckName
  <1>12. ASSUME NEW s \in Segments, PruneRow(s)
         PROVE  Sweeping'
    BY <1>12 DEF PruneRow
  <1>13. CASE RetentionSelects
    BY <1>13 DEF RetentionSelects
  <1>14. CASE RetentionUnlinks
    BY <1>14 DEF RetentionUnlinks, Remove
  <1>15. CASE RetentionDeletesRows
    BY <1>15 DEF RetentionDeletesRows, DeleteRows
  <1>16. ASSUME NEW s \in Segments, GuardRemoves(s)
         PROVE  Sweeping'
    BY <1>16 DEF GuardRemoves, Remove
  <1>17. ASSUME NEW s \in Segments, GuardDeletesRow(s)
         PROVE  Sweeping'
    BY <1>17 DEF GuardDeletesRow
  <1>18. ASSUME NEW kind \in Commands, NEW about \in SUBSET Born, CommandBegins(kind, about)
         PROVE  Sweeping'
    BY <1>18 DEF CommandBegins, LetGo
  <1>19. CASE CommandSelects
    BY <1>19 DEF CommandSelects
  <1>20. CASE CommandUnlinks
    BY <1>20 DEF CommandUnlinks, Unlink, Remove
  <1>21. CASE SweepIncoming
    BY <1>21 DEF SweepIncoming, Unlink, Remove, SweptFirst
  <1>22. CASE SweepArchive
    BY <1>22 DEF SweepArchive, Unlink, Remove, SweptFirst, SweptSecond
  <1>23. CASE CommandDeletesRows
    BY <1>23 DEF CommandDeletesRows
  <1>24. CASE Restart
    BY <1>24 DEF Restart, LetGo
  <1>25. CASE UNCHANGED vars
    BY <1>25 DEF vars
  <1> QED
    BY <1>1, <1>2, <1>3, <1>4, <1>5, <1>6, <1>7, <1>8, <1>9, <1>10, <1>11, <1>12, <1>13,
       <1>14, <1>15, <1>16, <1>17, <1>18, <1>19, <1>20, <1>21, <1>22, <1>23, <1>24, <1>25
    DEF Next, PostProcessor, BootScan, Born

-----------------------------------------------------------------------------
(* Theorems. *)

\* The invariant is inductive.
LEMMA Inductive == ArchiveInv /\ [Next]_vars => ArchiveInv'
  BY TypesKept, SettledKept, OrderlyKept, ListedKept, MovedKept, BackedKept, SweepingKept
  DEF ArchiveInv

\* It holds at the start.
LEMMA Initially == Init => ArchiveInv
  <1> SUFFICES ASSUME Init PROVE ArchiveInv
    OBVIOUS
  <1> USE BoundAssumption, RunAssumption
      DEF Init, Segments, NoSegment, NoScan, NoRetention, NoCommand
  <1>1. TypeOK
    <2>1. strikes \in [Segments -> 0..2 \cup {GivenUp}] /\ boots \in 0..MaxBoots
      OBVIOUS
    <2>2. command \in [kind : Commands \cup {"none"},
                    step : {"none", "select", "unlink", "incoming", "archive", "rows"},
                    chosen : SUBSET Segments, about : SUBSET Segments, held : SUBSET Segments]
      OBVIOUS
    <2> QED
      BY <2>1, <2>2 DEF TypeOK
  <1>2. Settled /\ Orderly
    BY DEF Settled, Orderly
  <1>3. Listed /\ Backed /\ MovedSound /\ Sweeping
    BY DEF Listed, Backed, MovedSound, Sweeping
  <1> QED
    BY <1>1, <1>2, <1>3 DEF ArchiveInv

\* It holds for ever.
LEMMA Invariant == Spec => []ArchiveInv
  <1>1. Init => ArchiveInv
    BY Initially
  <1>2. ArchiveInv /\ [Next]_vars => ArchiveInv'
    BY Inductive
  <1> QED
    BY <1>1, <1>2, PTL DEF Spec

\* The variables keep their types (every operation of the archive).
THEOREM TypeCorrect == Spec => []TypeOK
  <1>1. ArchiveInv => TypeOK
    BY DEF ArchiveInv
  <1> QED
    BY <1>1, Invariant, PTL

\* The listed archive matches the disk whenever the boot scan is through and nothing is
\* under way, but for what this process lost (prune_orphaned_nvr_segments).
THEOREM ListingMatches == Spec => []ListingMatchesDisk
  <1>1. ArchiveInv => ListingMatchesDisk
    <2> SUFFICES ASSUME ArchiveInv, Quiet, NEW s \in Segments \ unlisted
                 PROVE  s \in row <=> s \in Archived
      BY DEF ListingMatchesDisk
    <2>1. ~Pending(s)
      BY DEF Quiet, Pending, NoCommand
    <2>2. s \in Archived => s \in row
      BY DEF ArchiveInv, Listed, Quiet, Archived, NoSegment, Segments
    <2>3. s \in row => s \in Archived
      BY <2>1 DEF ArchiveInv, Backed, Quiet, Archived, NoRetention
    <2> QED
      BY <2>2, <2>3
  <1> QED
    BY <1>1, Invariant, PTL

\* A clear leaves nothing that was recorded before it, except what could not be removed
\* (clear_nvr_recordings).
THEOREM ClearLeavesNothing == Spec => ClearedGone
  <1>1. ArchiveInv => (command.kind = "clear" /\ command.step = "rows"
                        => \A s \in command.about \ command.held : file[s] = "gone")
    BY DEF ArchiveInv, Sweeping
  <1> QED
    BY <1>1, Invariant, PTL DEF ClearedGone

\* Only retention, the guard and the commands remove footage that can be played.
LEMMA OnlyRetired ==
    ASSUME TypeOK, [Next]_vars
    PROVE  Retires
  <1> USE BoundAssumption, RunAssumption
      DEF TypeOK, disk, capture, polling, deletion, Segments, NoSegment, Incoming, Archived,
          NoCommand, Retires
  <1>1. ASSUME NEW s \in Segments, RecorderOpens(s)
         PROVE  Retires
    BY <1>1 DEF RecorderOpens
  <1>2. CASE RecorderLetsGo
    BY <1>2 DEF RecorderLetsGo, LetGo
  <1>3. CASE PausesOrResumes
    BY <1>3 DEF PausesOrResumes
  <1>4. ASSUME NEW s \in Segments, Finalise(s)
         PROVE  Retires
    BY <1>4 DEF Finalise, Ripe
  <1>5. ASSUME NEW s \in Segments, Strike(s)
         PROVE  Retires
    BY <1>5 DEF Strike, Verdict, Ripe
  <1>6. CASE IndexSegment
    BY <1>6 DEF IndexSegment, Insert
  <1>7. CASE ScanBegins
    BY <1>7 DEF ScanBegins
  <1>8. CASE Reindex
    BY <1>8 DEF Reindex, Insert
  <1>9. CASE ReindexEnds
    BY <1>9 DEF ReindexEnds, ReindexOver
  <1>10. CASE ScanEnds
    BY <1>10 DEF ScanEnds
  <1>11. ASSUME NEW s \in Segments, CheckName(s)
         PROVE  Retires
    BY <1>11 DEF CheckName
  <1>12. ASSUME NEW s \in Segments, PruneRow(s)
         PROVE  Retires
    BY <1>12 DEF PruneRow
  <1>13. CASE RetentionSelects
    BY <1>13 DEF RetentionSelects
  <1>14. CASE RetentionUnlinks
    BY <1>14 DEF RetentionUnlinks, Remove
  <1>15. CASE RetentionDeletesRows
    BY <1>15 DEF RetentionDeletesRows, DeleteRows
  <1>16. ASSUME NEW s \in Segments, GuardRemoves(s)
         PROVE  Retires
    BY <1>16 DEF GuardRemoves, Remove
  <1>17. ASSUME NEW s \in Segments, GuardDeletesRow(s)
         PROVE  Retires
    BY <1>17 DEF GuardDeletesRow
  <1>18. ASSUME NEW kind \in Commands, NEW about \in SUBSET Born, CommandBegins(kind, about)
         PROVE  Retires
    BY <1>18 DEF CommandBegins, LetGo
  <1>19. CASE CommandSelects
    BY <1>19 DEF CommandSelects
  <1>20. CASE CommandUnlinks
    BY <1>20 DEF CommandUnlinks, Unlink, Remove
  <1>21. CASE SweepIncoming
    BY <1>21 DEF SweepIncoming, Unlink, Remove, SweptFirst
  <1>22. CASE SweepArchive
    BY <1>22 DEF SweepArchive, Unlink, Remove, SweptFirst, SweptSecond
  <1>23. CASE CommandDeletesRows
    BY <1>23 DEF CommandDeletesRows
  <1>24. CASE Restart
    BY <1>24 DEF Restart, LetGo
  <1>25. CASE UNCHANGED vars
    BY <1>25 DEF vars
  <1> QED
    BY <1>1, <1>2, <1>3, <1>4, <1>5, <1>6, <1>7, <1>8, <1>9, <1>10, <1>11, <1>12, <1>13,
       <1>14, <1>15, <1>16, <1>17, <1>18, <1>19, <1>20, <1>21, <1>22, <1>23, <1>24, <1>25
    DEF Next, PostProcessor, BootScan, Born

\* The post-processor, the recorders and the boot scan never remove footage that can be
\* played or is being written (finalise_incoming).
THEOREM ReadableIsKept == Spec => ReadableKept
  <1>1. TypeOK /\ [Next]_vars => Retires
    BY OnlyRetired
  <1> QED
    BY <1>1, TypeCorrect, PTL DEF Spec, ReadableKept, Retires
=============================================================================
