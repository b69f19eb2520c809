----------------------------- MODULE EventClip -----------------------------
(***************************************************************************)
(* The exported clip of one event: ensure_event_clip, which cuts it from   *)
(* the recorded footage for whoever asks (player, share link, Telegram,    *)
(* pre-warm, retention), and the commands and retention passes that delete *)
(* the clip, the footage or the event under it.                            *)
(*                                                                         *)
(* Simplifications.                                                        *)
(* - One event: the gate, the file clip_<id>.mp4 and clip_path are its     *)
(*   own.  Its gate entry is dropped only once its row is gone, and a      *)
(*   caller then finds no row, so a second gate would guard nothing.       *)
(* - The window of an event is a number of segments, recorded in order; a  *)
(*   clip is the number of leading segments it holds, Cap at most.         *)
(* - A segment's file and row are deleted in one step.                     *)
(* - The audio track (silent caches, the ring-buffer mux) is left out, and *)
(*   so are bookmarks, which only keep an event from being pruned.         *)
(* - A file can be deleted whenever asked (no player keeps it open).       *)
(* - Statements on the database succeed.                                   *)
(* - One maintenance command runs at a time.                               *)
(***************************************************************************)
EXTENDS Integers

CONSTANTS
    Viewers,        \* concurrent requests for the clip
    Keeper,         \* the request retention makes
    Segments,       \* segments in the event's window
    Cap,            \* the segments a clip holds at most (MAX_SENT_CLIP_SECS)
    KeepClips,      \* Settings.keep_event_clips
    Commands,       \* what the user and retention run: delete, range, history, purge
    BadClips        \* whether an older version left an unreadable clip

Callers == Viewers \cup {Keeper}
Nobody  == "nobody"
Deleter == "deleter"

ASSUME CallerAssumption == Keeper \notin Viewers /\ {Nobody, Deleter} \cap Callers = {}
ASSUME RunAssumption ==
    /\ Segments \in Nat \ {0} /\ Cap \in Nat \ {0}
    /\ KeepClips \in BOOLEAN /\ BadClips \in BOOLEAN
    /\ Commands \subseteq {"delete", "range", "history", "purge"}

VARIABLES
    event,      \* the row of motion_events: open, closed, deleted
    late,       \* a minute past the wanted end
    recorded,   \* segments indexed so far
    cut,        \* the footage is deleted
    path,       \* clip_path is set
    file,       \* segments in clip_<id>.mp4, 0 when there is no file
    corrupt,    \* the file does not decode
    gate,       \* who holds the event's generation gate
    phase,      \* the next step of each request
    aim,        \* the segments in the window a request computed
    growing,    \* that window can still get longer
    temp,       \* the request's encode is on disk under its temporary name
    retention,  \* the retention pass: none, export, cut, sweep
    command,    \* the maintenance command under way: its kind, next step, the path it read
    legacy,     \* the run began with an unreadable clip (history)
    missed      \* retention's own export made nothing, or was never tried (history)

vars == <<event, late, recorded, cut, path, file, corrupt, gate, phase, aim, growing,
          temp, retention, command, legacy, missed>>

RequestPhases ==
    {"idle", "read", "probe", "drop", "clear", "queue", "recheck", "window", "export",
     "publish", "measure", "junk", "cache"}
CommandSteps == {"none", "footage", "unlink", "row", "queue", "remove", "sweep"}

ClipTypes ==
    /\ event \in {"open", "closed", "deleted"}
    /\ late \in BOOLEAN /\ cut \in BOOLEAN /\ path \in BOOLEAN /\ corrupt \in BOOLEAN
    /\ recorded \in 0..Segments /\ file \in 0..Segments
    /\ retention \in {"none", "export", "cut", "sweep"}
    /\ legacy \in BOOLEAN /\ missed \in BOOLEAN
RequestTypes ==
    /\ gate \in Callers \cup {Nobody, Deleter}
    /\ phase \in [Callers -> RequestPhases]
    /\ aim \in [Callers -> 0..Segments]
    /\ growing \in [Callers -> BOOLEAN] /\ temp \in [Callers -> BOOLEAN]
CommandTypes ==
    command \in [kind : Commands \cup {"none"}, step : CommandSteps, saw : BOOLEAN]
TypeOK == ClipTypes /\ RequestTypes /\ CommandTypes

NoCommand == [kind |-> "none", step |-> "none", saw |-> FALSE]

\* What a clip of n segments holds: the player streams them all, the file is cut short.
Sent(n) == IF n < Cap THEN n ELSE Cap

\* A new event, or one an older version left with an unreadable clip.
Init ==
    /\ legacy \in IF BadClips THEN BOOLEAN ELSE {FALSE}
    /\ event = (IF legacy THEN "closed" ELSE "open")
    /\ late = legacy /\ path = legacy /\ corrupt = legacy
    /\ recorded = (IF legacy THEN Segments ELSE 0)
    /\ file = (IF legacy THEN Sent(Segments) ELSE 0)
    /\ cut = FALSE /\ missed = FALSE
    /\ gate = Nobody
    /\ phase = [c \in Callers |-> "idle"]
    /\ aim = [c \in Callers |-> 0]
    /\ growing = [c \in Callers |-> FALSE]
    /\ temp = [c \in Callers |-> FALSE]
    /\ retention = "none"
    /\ command = NoCommand

Footage == IF cut THEN 0 ELSE recorded
Exists  == event # "deleted"

requestVars == <<gate, phase, aim, growing, temp>>
clipVars    == <<path, file, corrupt>>
eventVars   == <<event, late, recorded, cut>>
history     == <<legacy, missed>>

-----------------------------------------------------------------------------
(* The event and its footage.                                              *)

\* Footage is indexed a few seconds after it is recorded: during the event, and
\* for the post-buffer after it.
IndexSegment ==
    /\ Exists /\ ~late /\ recorded < Segments
    /\ event = "open" => recorded < Segments - 1
    /\ recorded' = recorded + 1
    /\ UNCHANGED <<event, late, cut, clipVars, requestVars, retention, command, history>>

CloseEvent ==
    /\ event = "open"
    /\ event' = "closed"
    /\ UNCHANGED <<late, recorded, cut, clipVars, requestVars, retention, command, history>>

\* The camera may have stopped: whatever is indexed by then is all there is.
MinutePasses ==
    /\ event = "closed" /\ ~late
    /\ late' = TRUE
    /\ UNCHANGED <<event, recorded, cut, clipVars, requestVars, retention, command, history>>

-----------------------------------------------------------------------------
(* ensure_event_clip                                                        *)

Goes(c, next) == phase' = [phase EXCEPT ![c] = next]
\* A request answered, or given up, drops its permit.
Leaves_HoldsPermit(c) ==
    /\ phase' = [phase EXCEPT ![c] = "idle"] /\ UNCHANGED gate
    /\ aim' = [aim EXCEPT ![c] = 0] /\ growing' = [growing EXCEPT ![c] = FALSE]
Leaves(c) ==
    /\ phase' = [phase EXCEPT ![c] = "idle"]
    /\ gate' = IF gate = c THEN Nobody ELSE gate
    /\ aim' = [aim EXCEPT ![c] = 0] /\ growing' = [growing EXCEPT ![c] = FALSE]

Ask(c) ==
    /\ phase[c] = "idle" /\ Goes(c, "read")
    /\ UNCHANGED <<gate, aim, growing, temp>>

\* A viewer may ask at any time, retention's request is part of its pass.
ViewerAsks(c) ==
    /\ c \in Viewers /\ Ask(c)
    /\ UNCHANGED <<eventVars, clipVars, retention, command, history>>

ReadPath(c) ==
    /\ phase[c] = "read"
    /\ Goes(c, IF Exists /\ path THEN "probe" ELSE "queue")
    /\ UNCHANGED <<gate, aim, growing, temp, eventVars, clipVars, retention, command, history>>

Healthy_FullLength == file = recorded /\ ~corrupt
Healthy == file > 0 /\ ~corrupt

Probe(c) ==
    /\ phase[c] = "probe"
    /\ IF Healthy THEN Leaves(c) ELSE Goes(c, "drop") /\ UNCHANGED <<gate, aim, growing>>
    /\ UNCHANGED <<temp, eventVars, clipVars, retention, command, history>>

\* The stale cache is dropped before the gate is taken, file first.
DropFile(c) ==
    /\ phase[c] = "drop" /\ Goes(c, "clear")
    /\ file' = 0 /\ corrupt' = FALSE
    /\ UNCHANGED <<path, gate, aim, growing, temp, eventVars, retention, command, history>>

ClearPath(c) ==
    /\ phase[c] = "clear" /\ Goes(c, "queue")
    /\ path' = FALSE
    /\ UNCHANGED <<file, corrupt, gate, aim, growing, temp, eventVars, retention, command, history>>

FreeGate_Ungated(who) == UNCHANGED gate
FreeGate(who) == gate = Nobody /\ gate' = who

TakeGate(c) ==
    /\ phase[c] = "queue" /\ FreeGate(c) /\ Goes(c, "recheck")
    /\ UNCHANGED <<aim, growing, temp, eventVars, clipVars, retention, command, history>>

\* Whoever held the gate before may have just made the clip.
Recheck(c) ==
    /\ phase[c] = "recheck"
    /\ IF Exists /\ path /\ file > 0 THEN Leaves(c)
       ELSE Goes(c, "window") /\ UNCHANGED <<gate, aim, growing>>
    /\ UNCHANGED <<temp, eventVars, clipVars, retention, command, history>>

\* window_still_growing.  With no footage left nothing clamps the window.
StillGrowing == event = "open" \/ (0 < Footage /\ Footage < Segments /\ ~late)

\* event_clip_window: none without a row, before any footage is indexed, or when the
\* camera has only later footage; a clip of a growing window made seconds ago is reused.
\* Whether it still grows is asked of the whole window, before it is cut short.
Window(c) ==
    /\ phase[c] = "window"
    /\ \/ (~Exists \/ Footage = 0) /\ Leaves(c)
       \/ Exists /\ StillGrowing /\ file > 0 /\ Leaves(c)
       \/ /\ Exists /\ (Footage > 0 \/ cut)
          /\ aim' = [aim EXCEPT ![c] = Sent(Footage)]
          /\ growing' = [growing EXCEPT ![c] = StillGrowing]
          /\ Goes(c, "export") /\ UNCHANGED gate
    /\ UNCHANGED <<temp, eventVars, clipVars, retention, command, history>>

\* concat_window_to_file: encode under a temporary name.  It may fail with its footage
\* there: no ffmpeg, an encode that fails or takes 300 s, a rename refused.
Export(c) ==
    /\ phase[c] = "export"
    /\ \/ /\ aim[c] > 0 /\ ~cut
          /\ Goes(c, "publish") /\ temp' = [temp EXCEPT ![c] = TRUE]
          /\ UNCHANGED missed
       \/ /\ Goes(c, "junk") /\ UNCHANGED temp
          /\ missed' = (missed \/ c = Keeper)
    /\ UNCHANGED <<gate, aim, growing, eventVars, clipVars, retention, command, legacy>>

\* Then rename it, if it is still there.
Publish(c) ==
    /\ phase[c] = "publish"
    /\ temp' = [temp EXCEPT ![c] = FALSE]
    /\ IF temp[c] THEN Goes(c, "measure") /\ file' = aim[c] /\ corrupt' = FALSE
       ELSE Goes(c, "junk") /\ UNCHANGED <<file, corrupt>>
    /\ UNCHANGED <<path, gate, aim, growing, eventVars, retention, command, history>>

\* The finished clip is measured, and may be gone.
Measure(c) ==
    /\ phase[c] = "measure"
    /\ Goes(c, IF file > 0 THEN "cache" ELSE "junk")
    /\ UNCHANGED <<gate, aim, growing, temp, eventVars, clipVars, retention, command, history>>

\* A failed export leaves no file behind, not even an earlier one.
RemoveJunk(c) ==
    /\ phase[c] = "junk" /\ Leaves(c)
    /\ file' = 0 /\ corrupt' = FALSE
    /\ UNCHANGED <<path, temp, eventVars, retention, command, history>>

\* Only the clip of a final window is remembered.
Caches_Always(c) == TRUE
Caches(c) == ~growing[c]

Cache(c) ==
    /\ phase[c] = "cache" /\ Leaves(c)
    /\ path' = IF Caches(c) /\ Exists THEN TRUE ELSE path
    /\ UNCHANGED <<file, corrupt, temp, eventVars, retention, command, history>>

Serve(c) ==
    \/ ReadPath(c) \/ Probe(c) \/ DropFile(c) \/ ClearPath(c) \/ Recheck(c) \/ Window(c)
    \/ Export(c) \/ Publish(c) \/ Measure(c) \/ RemoveJunk(c) \/ Cache(c)

-----------------------------------------------------------------------------
(* prune_old_footage: with keep_event_clips the clip is asked for before    *)
(* the footage goes, the answer is not looked at, and an event left with    *)
(* neither is deleted.                                                      *)

MustExport_NoFile == KeepClips /\ file = 0
MustExport == KeepClips /\ ~path

RetentionStarts ==
    /\ retention = "none" /\ event = "closed" /\ late
    /\ IF MustExport THEN retention' = "export" /\ Ask(Keeper)
       ELSE retention' = "cut" /\ UNCHANGED requestVars
    /\ UNCHANGED <<eventVars, clipVars, command, history>>

\* A pass exports the clips of fifty events, within two days of the death line; the
\* footage of the others goes all the same.
RetentionPassesOver ==
    /\ retention = "none" /\ event = "closed" /\ late /\ MustExport
    /\ retention' = "cut" /\ missed' = TRUE
    /\ UNCHANGED <<eventVars, clipVars, requestVars, command, legacy>>

FootageCut ==
    /\ \/ retention = "cut"
       \/ retention = "export" /\ phase[Keeper] = "idle"
    /\ cut' = TRUE
    /\ retention' = "sweep"
    /\ UNCHANGED <<event, late, recorded, clipVars, requestVars, command, history>>

\* prune_footageless_events deletes rows; it never looks for a file.
FootagelessSwept ==
    /\ retention = "sweep"
    /\ event' = IF event = "closed" /\ ~path THEN "deleted" ELSE event
    /\ retention' = "none"
    /\ UNCHANGED <<late, recorded, cut, clipVars, requestVars, command, history>>

-----------------------------------------------------------------------------
(* Maintenance commands.                                                    *)

Begin(kind, step) ==
    /\ kind \in Commands /\ command = NoCommand
    /\ command' = [kind |-> kind, step |-> step, saw |-> Exists /\ path]
At(kind, step) == command.kind = kind /\ command.step = step
Then(step)     == command' = [command EXCEPT !.step = step]

\* delete_events: the row first, the files last and under the gate.
DeleteBegins ==
    /\ event = "closed" /\ Begin("delete", "row")
    /\ UNCHANGED <<eventVars, clipVars, requestVars, retention, history>>

DeleteRow ==
    /\ At("delete", "row") /\ Then("queue")
    /\ event' = "deleted"
    /\ UNCHANGED <<late, recorded, cut, clipVars, requestVars, retention, history>>

DeleteTakesGate ==
    /\ At("delete", "queue") /\ FreeGate(Deleter) /\ Then("remove")
    /\ UNCHANGED <<phase, aim, growing, temp, eventVars, clipVars, retention, history>>

\* delete_event_clip: the file clip_path named, and clip_<id>.mp4 in any case.
LeftByDelete_PathOnly == IF command.saw THEN 0 ELSE file
LeftByDelete == 0

DeleteRemovesFile ==
    /\ At("delete", "remove")
    /\ file' = LeftByDelete /\ corrupt' = (corrupt /\ file' > 0)
    /\ gate' = IF gate = Deleter THEN Nobody ELSE gate
    /\ command' = NoCommand
    /\ UNCHANGED <<path, phase, aim, growing, temp, eventVars, retention, history>>

\* delete_footage_in_range: footage, then the clips clip_path names, then rows.
RangeBegins ==
    /\ event = "closed" /\ late /\ Begin("range", "footage")
    /\ UNCHANGED <<eventVars, clipVars, requestVars, retention, history>>

RangeCutsFootage ==
    /\ At("range", "footage")
    /\ cut' = TRUE
    /\ command' = [command EXCEPT !.step = "unlink", !.saw = Exists /\ path]
    /\ UNCHANGED <<event, late, recorded, clipVars, requestVars, retention, history>>

\* prune_event_history: the clips clip_path names, then rows.
HistoryBegins ==
    /\ event = "closed" /\ cut /\ Begin("history", "unlink")
    /\ UNCHANGED <<eventVars, clipVars, requestVars, retention, history>>

UnlinkClip ==
    /\ command.kind \in {"range", "history"} /\ command.step = "unlink" /\ Then("row")
    /\ file' = IF command.saw THEN 0 ELSE file
    /\ corrupt' = (corrupt /\ ~command.saw)
    /\ UNCHANGED <<path, eventVars, requestVars, retention, history>>

DropRow ==
    /\ command.kind \in {"range", "history"} /\ command.step = "row"
    /\ event' = "deleted"
    /\ command' = NoCommand
    /\ UNCHANGED <<late, recorded, cut, clipVars, requestVars, retention, history>>

\* purge_orphaned_clips: clip_path is read, then every clip it does not name goes,
\* the temporary files of exports under way too.
PurgeBegins ==
    /\ Begin("purge", "sweep")
    /\ UNCHANGED <<eventVars, clipVars, requestVars, retention, history>>

PurgeSweeps ==
    /\ At("purge", "sweep") /\ command' = NoCommand
    /\ file' = IF command.saw THEN file ELSE 0
    /\ corrupt' = (corrupt /\ command.saw)
    /\ temp' = [c \in Callers |-> FALSE]
    /\ UNCHANGED <<path, gate, phase, aim, growing, eventVars, retention, history>>

Command ==
    \/ DeleteRow \/ DeleteRemovesFile
    \/ RangeCutsFootage \/ UnlinkClip \/ DropRow \/ PurgeSweeps

Next ==
    \/ IndexSegment \/ CloseEvent \/ MinutePasses
    \/ \E c \in Callers: ViewerAsks(c) \/ TakeGate(c) \/ Serve(c)
    \/ RetentionStarts \/ RetentionPassesOver \/ FootageCut \/ FootagelessSwept
    \/ DeleteBegins \/ RangeBegins \/ HistoryBegins \/ PurgeBegins
    \/ DeleteTakesGate \/ Command

Spec == Init /\ [][Next]_vars

\* Requests and commands run on; the gate is a tokio Mutex, which is handed over
\* in the order it was asked for, so nobody is passed over for ever.
Fairness ==
    /\ \A c \in Callers: WF_vars(Serve(c)) /\ SF_vars(TakeGate(c))
    /\ SF_vars(DeleteTakesGate) /\ WF_vars(Command)

FairSpec == Spec /\ Fairness

-----------------------------------------------------------------------------
(* Properties. *)

\* "Only CACHE a FINAL window": a clip clip_path names was cut from all the footage of
\* the event there will ever be, and holds as much of it as a clip may.
CachedClipFinal ==
    event = "closed" /\ path /\ ~legacy =>
        /\ file = Sent(recorded) /\ file > 0
        /\ recorded < Segments => late

\* keep_event_clips, "the moment survives while the bulk recording is deleted": once the
\* footage is cut an event that is still there has its clip, as long as a clip may be.
\* Whatever failed for other requests; only a failure of retention's own excuses it.
KeptMoments ==
    KeepClips /\ cut /\ event = "closed" /\ recorded > 0 /\ ~legacy /\ ~missed =>
        file = Sent(recorded)

Quiet == (\A c \in Callers: phase[c] = "idle") /\ command = NoCommand

\* A clip does not outlive its event: with nothing under way, a file on disk is the clip
\* of an event that is still there.  Retention deletes an event it failed to export
\* without a look at the disk, where a request may just be publishing: that is excused.
NoOrphanClip == Quiet /\ file > 0 /\ ~missed => Exists

Store == INSTANCE ClipStore WITH
    there <- Exists, footage <- ~cut, kept <- IF Exists /\ path THEN file ELSE 0

\* "So the moment survives": while its event is there, footage goes only once the clip has
\* as much of it as a clip may or retention's export has failed, and requests that meet a
\* remembered clip neither replace nor forget it.
ImplementsClipStore == Store!Spec

\* A request is answered or given up, however many others are asking.
RequestsEnd == \A c \in Callers: (phase[c] # "idle") ~> (phase[c] = "idle")

\* A deletion the user asks for gets the clip off the disk, whatever is making it.
DeletedClipGone == (command.kind = "delete") ~> [](event = "deleted" /\ file = 0)
=============================================================================
