# Anivar in TLA+

Models of the event recorder at the heart of Anivar: how motion becomes a row of `motion_events`, how
rows become review cards, how an event gets its clip, how it is analysed and alerted on, how recorded
segments get into the archive and out of it again, how cameras are kept capturing, how sounds are
heard, how updates are installed beside all that, and how models get on disk and the on-device
one is switched. Paths without a prefix are under `src/src-tauri/src/`.

- [The system](#the-system)
- [Modules](#modules)
- [What the runs check](#what-the-runs-check)
- [Fairness](#fairness)
- [What is proved](#what-is-proved)
- [Where code and comments part](#where-code-and-comments-part)
- [Not modelled, and the plan](#not-modelled-and-the-plan)

To check: `tlc -config MCMotionEvent_rows.cfg MCMotionEvent.tla` (and so on for each `.cfg`, named
after its module), `tlapm MotionEvent_proofs.tla` for each `_proofs` module. `PROJECT.json` lists the
runs, the source lines each definition translates, a mutated definition for every property that makes
it fail, and the hazards with the properties that address them.

## The system

A Tauri desktop app: one Rust process, a tokio runtime, one SQLite database in WAL mode behind a
connection pool, ffmpeg child processes that capture and record, and a React frontend that calls
commands. Almost everything that matters is a spawned task writing to the database with no lock and
no transaction around several statements, and most errors are swallowed with `.ok()`.

| Component | State | Operations | Talks to | Hard because | Correct if |
|---|---|---|---|---|---|
| **Motion events** (`motion_lifecycle.rs`, `inference.rs`, `state.rs`, `db.rs` reap, `system_cmds.rs` keep-alive) | `PerCamState` per camera under one lock: open event, streaks, clocks, detections; rows of `motion_events` | a frame with a score; a detection; keep-alive; the tasks INSERT, peak, label, close; reap at start | review segments (groups what it closes), clips (pre-warm), analysis | every row is written by tasks nothing orders; frames, inference and seconds interleave; statements fail silently | one live event; its row is left alone; every open row is somebody's; a kept row is complete when grouped; every event closes |
| **Review segments** (`review_segments.rs`, deletion helpers of `nvr_recording.rs`) | rows of `review_segments`: window, members | upsert of one event, deletion with repair, sweep, rebuild, backfill | called by motion, audio, analysis, deletion | deferred transactions under contention, one-shot rebuild against live events | an event on one card, cards disjoint, cover their events, list no deleted one, miss none |
| **Event clips** (`agent/clip_export.rs`, `footage.rs`, retention, deletes) | `clip_path`, `clip_<id>.mp4`, a gate per event | a request, retention's pre-export, deletes, orphan purge | footage (segments), rows of `motion_events` | an encode of minutes between reading the window and publishing; deletion under it | a remembered clip is final, as long as a clip may be, survives its footage, dies with its event; a request ends |
| **Segment archive** (`nvr_pipes.rs`, `prune_old_footage`, disk guard, clears) | `nvr/incoming/`, `nvr/`, rows of `nvr_segments`, `fail_counts` | record, finalise, index, strike out, re-index, prune, retain, guard, clear, range delete | clips and playback read the rows | file and row are two writes; five deleters; killed recorders | rows and files agree; nothing playable is lost; nothing is stuck; a clear is complete |
| Motion score (`motion.rs`) | none | two frames to a score | motion events | floats | as its unit tests say |
| Inference pipeline (`inference.rs`, `pose.rs`, `depth.rs`, …) | per-camera queue, loaded models, status | intake, round robin, run, publish | motion events, tracking | model loading against frames; slow inference | every camera is served; nothing is shown before depth is known |
| Tracking, behaviour | tracks per camera | associate, dwell, cross | inference, alerts | geometry | as its unit tests say |
| **Event analysis** (`agent/clip.rs`, `agent/cycle.rs`, `agent/analysis.rs`) | `ai_*` columns, rows of `agent_alerts`, settings copied at the start | select, analyse, judge, gate, record | model runtimes, review segments, dispatch | three drivers and no claim on an event; a crash between any two writes | a driver alerts once per event; in the end every closed event is analysed |
| **Alert dispatch, escalation** (`agent/dispatch.rs`, `agent/cycle.rs`) | `pending_escalations` | send, answer, expire, escalate | Telegram | timer against button; in memory only | answered alerts do not escalate, others do, once |
| Agent chat, memory, retrieval | notes, embeddings | ask, retrieve | database, model runtimes | none: text in, text out | – |
| **Model runtimes, skills** (`skills.rs`, `provision.rs`, `agent/local_llm.rs`, `skillDownload.ts`, the save in `events_cmds.rs`) | files on disk, `IN_FLIGHT`, the worker's model and channel, `MODEL_PATH`, `VISION_AVAILABLE` | install, roll back, remove, list; save, `set_tier`; ask, load, unload | the network, settings, analysis | several panels on one folder; a check after the rename; a path that changes under queued requests | a skill is whole or gone, its files checked; an answer comes from a tier in force |
| Faces, persons, plates | embeddings, galleries | match, merge, enrol | database | numeric | – |
| Embedding jobs, vector index | a durable job table, an index | enqueue, work, backfill | database | re-runs | everything kept is found |
| **Audio** (`audio_cmds.rs`) | open sound per camera, microphone claims, `audio_processes` | hit, reap, finalise, claim, start, stop | events, review segments, alerts | detectors that overlap with their successors; three ways to close a row | a sound's row is somebody's, ends, and alerts once; one detector on a microphone |
| **Cameras and capture** (`dshow.rs`, `rtsp.rs`, `boot.rs` watchdog, `cam_config.rs`) | four maps of processes and keys, a start lock, `stopped_usb_captures` | start, stop, remove, re-shape, clear and respawn, the watchdog's tick | archive, inference | starts are locked, kills are not; five parties | one capture per camera; a removed one stays off; one that is on gets recorded again |
| Database, boot, state | tables, settings | migrate, reap, rebuild, scan | all | order of the boot steps | modelled where it touches the above |
| **Updates** (`update_cmds.rs`) | an `INSTALLING` flag, the settings | find, download, wait, install; the button | rows in progress | a wait that must end; two paths to one flag | one install at a time; an update gets installed |
| Remote access, sharing, sign-in | sessions, share links | – | HTTP | – | out of scope |
| Frontend | React state | commands | backend | – | only its keep-alive and its installs are in a model |

How they interact in the models: `MotionEvent` ends by grouping its event (`GroupEvent`), which is the
upsert `ReviewSegments` describes; a row that `ReviewSegments` calls an event is a row `MotionEvent`
settled (or a sound). `EventClip` takes a row's opening and closing as inputs and sees footage as a
number of indexed segments; `SegmentArchive` shows where those segments come from, and `Capture` which
process records them. `EventAlerts` takes up the rows once they are closed. `UpdateGate` extends
`SoundEvents`: the rows it waits for are the sounds', and its restart is their reboot. `LocalModel`
extends `SkillInstall`: the weights it loads are files that panels install and remove, and a removal sends its worker a message. The others share
no variable, and each treats what its neighbour does as something that may happen at any time.

## Modules

| Module | What it is |
|---|---|
| `EventLog` | What readers of `motion_events` may rely on: one live event, open rows follow it, a settled row stays settled. An abstract specification. |
| `MotionEvent` | One camera's lifecycle: `motion_lifecycle::step` per frame, the detector's accumulator, the spawned tasks and the rows. Implements `EventLog` (`live <- active, log <- row`). |
| `ReviewFeed` | What the user may rely on in the feed: an event is on one card, cards are only folded into wider ones, an event leaves with its row or at the rebuild. An abstract specification. |
| `ReviewSegments` | The cards: upserts as load / select / write or lose, deletion with repair and sweep, the rebuild, restarts. Implements `ReviewFeed` (`feed <- cards`). |
| `ClipStore` | What the owner of an event may rely on with `keep_event_clips`: footage, then a clip with as much of it as a clip may hold unless an export was missed, until the event goes. An abstract specification. |
| `EventClip` | One event's clip: any number of requests through the gate, retention's own, and the commands that delete under them. Implements `ClipStore`. |
| `SegmentArchive` | One camera's recordings, from the recorder to whoever deletes them. |
| `AlertBook` | What becomes of an alert: it is made once, waits at most once, and has one end. An abstract specification. |
| `EventAlerts` | What the agent does with events: three drivers without a claim, the alert and its two gates, escalation and answers. Implements `AlertBook` (`stage` from where its alert is). |
| `Capture` | The processes of the cameras, and the five parties that start, stop and replace them. |
| `SoundEvents` | The sound detectors: claims on microphones, open sounds, and the three ways a sound's row is closed. |
| `UpdateGate` | `SoundEvents` with both ways an update is installed and the process restarted. |
| `SkillInstall` | The models on disk, and the panels that install and remove them. |
| `LocalModel` | `SkillInstall` with the on-device language model: saves of the settings, the worker, requests. |
| `MC*` | Instances for TLC (symmetry sets, and the number of files of each skill; the other constants are in the `.cfg` files). |
| `*_proofs` | Theorems and their inductive invariants. |

### MotionEvent

State: the fields of `PerCamState` that decide anything (`active` is `motion_active`, `still` is
`stillness_streak`, `absence` is `object_absence_frames`, …), what the detector holds (`yolo`,
`inferring`), the scene, and per event its row, its peak, its labels, and where its tasks stand
(`inserting`, `peaks` in flight, `closing` as the next statement of the closing task). Actions: a frame
opens, sustains, closes or idles (`OpenEvent`, `SustainEvent`, `CloseEvent`, `IdleFrame`, chosen by the
code's own conditions in its order); `TakeFrame` and `Detect` are the two ends of an inference;
`InsertRow`, `WritePeak`, `WriteLabel`, `DeleteRow`, `ReadDuration`, `EndRow`, `FlushDetections`,
`GroupEvent` are single statements of the tasks; `KeepAlive`, `SecondPasses`, `SceneChanges`, `Restart`
(with the reap). With `Faults` any statement may fail and is handled as the code handles it. `astray` is
history: the events whose INSERT landed when no task was left to settle their row, or one of whose closing statements (or
the reap) failed. A mutant of an operator is next to it, named after it (`ConfirmedBy_LastFrame`).

### ReviewSegments

State: the rows (`event`), the cards, per event the stage of its upsert, the one deletion and the
rebuild. An upsert reads the event outside its transaction (`LoadEvent`), reads a snapshot
(`SelectCards`) and commits (`Write`), unless another commit came between: then it is `stale` and is
lost (`Lose`), as SQLite refuses to upgrade a stale snapshot. `Absorbs` has the three-way rule on gap,
overlap and cap. Deletion is `DeleteRows`, `Repair` per event, `Sweep`. `RepairCard` goes through any member the call does
not name, one an earlier call deleted included: the code takes the first in the list, whose order the model leaves out, and
an upsert of a dead event does nothing. Reading a card and removing it are one step, and a deletion names closed
events only. `missed`, `lost`, `opened` and `brief` are history: events a restart cut off, events whose last upsert was lost
or that went without a repair, lanes in which an upsert met an open event or one shorter than the floor of a window.

### EventClip

State: the row and whether its window can still grow, how many segments are recorded, `clip_path`, the
file, the gate, and per request its next step. A request asks, takes the gate, re-reads, serves, gives
up or encodes, publishes, perhaps remembers, and lets go. Commands run in their own small steps. A clip holds the first `Cap`
segments of the window (`MAX_SENT_CLIP_SECS`, 120 s, `agent/clip_export.rs:240`), so of a longer event a part; any encode may
fail. `missed` is history: retention's own export made nothing, or its pass left the event out
(`RetentionPassesOver`: fifty events a pass, within two days of the death line). Statements on the database succeed.

### SegmentArchive

State: `file` (where each segment is), `row`, the recorder, the post-processor's `strikes` and the
segment it has `moved` but not indexed, and the steps of the boot scan, retention, the guard and a
command. The model is of a process with recording on, of INSERTs as the only statements that
fail, and of an archive without unfinished files of an old version, which the scan would rename back into `incoming/`.
`Finalise` and `IndexSegment` are two steps because a crash, a clear or a scan fits between.
Which rows retention picks is left open, so what holds here holds for any `retention_rules`.

### EventAlerts

State: per event its row and whether it has a summary, per analyst (the cycle, the backfill, a
re-analysis in mid-event) its `queue`, its `phase` and the settings it copied (`snap`); the alerts recorded
(`made`), `forced` by a rule, `sent`, `pending` (the escalation table), `expired` (taken out by the timer) and
`auto` (escalated). One action per stretch of code between two awaits that matter: `Select`, `TakeUp`,
`Judge`, `Gate`, `Send`, `Register`; `Expire` and `Escalate` for the timer; `Answer` for a button, `Restart`.

### Capture

State: the four maps as functions of the camera (`cap` with the shape of the process, `key`, `rec`, `tx`),
whether the processes have died, the start `lock`, and per task where it is (`pc`, `on`, `back`, what it
has spawned and not published in `held`). A start is `Check`, `Lock`, `Clean`, `Spawn`, `Settle`, `Pipes`,
`Publish` or `Record`, whoever runs it; `Stop` is what `stop_capture_for_cam` does; then the commands, `List` and
`Reshape…`, `Clear…` and `Refill`, and the passes of the watchdog's tick.

### SoundEvents and UpdateGate

State: per task where it is, its camera and what is `inHand`; `running`, `proc` (`audio_processes`), `claim`
(`MIC_CLAIMS`), `open` (`OPEN_AUDIO`) and the rows. A task's window is `Window`, `Finalise` per expired row, `Hit`,
`Insert`, `Enter`; `CloseForCam` is a stop's. An update is `AutoFinds`, `AutoTakes` (the flag), `AutoDownloads`,
`AutoPolls` until quiet or out of polls, `AutoDecides`, `AutoInstalls`; the button runs beside it.

### SkillInstall and LocalModel

State: per panel where its install or removal is (`phase`, `what`, `at`), the files and `.part` files, `claimed`
(`IN_FLIGHT`); then the tier in the database, in memory and in `MODEL_PATH`, the `queue` and the worker's model. An install is, per
file, `Claim`, `Opens`, `Streamed`, `Rename`, `Check`, or `Breaks`; any error goes to `Release` and `RemoveDir`, which the
Remove button shares. A save is `Store`, `SetSettings`, then `set_tier` as `Compare`, `Point`, `Look`, `Drop`, since nothing locks
them together, and `Store` may fail, which the code goes on from (`events_cmds.rs:103`); the worker is `TakeUnload`, `TakeRequest`, `ReadPath`, `Load`, `Generate`, `IdleUnload`. The weights
of a loaded model are `Mapped`: Windows neither removes nor replaces them, so a wrong file that is loaded already outlives its failed check
(`RemovalRefused`: `skills.rs:232` and `:243` drop the error). `slipped`, `spoiled`, `since` and `inForce` are
history: what a crash, a refusal or another panel did to a file or a folder, and which tiers were in force since a request was sent.

## What the runs check

| Run | Shows | Bounds |
|---|---|---|
| `motion_rows` | an event at a parked scene closes without a cap, and a kept event gets grouped | 2 events, no cap, streaks of 1, busy or parked scene, unconfirmed events kept, tasks in any order, no failures |
| `motion_faults` | the live row is never touched, only a late INSERT or a failed closing statement leaves a row open, a grouped row has exactly its labels, a confirmed event is never dropped, and `EventLog` is implemented | 2 events, cap of 1 s, keep-alives, the unconfirmed-drop setting changing, every statement may fail, inserts may be late, 1 restart |
| `review_windows` | no event is on two cards, cards are disjoint, cover their events and never narrow | 3 events in 4 units of time, gap 1, cap 2, short events, any interleaving of upserts, re-analysis |
| `review_replaced` | a card lists a deleted event, or misses one after a rebuild, only where an upsert or a repair was lost; `ReviewFeed` is implemented | 3 events in 2 units, racing upserts, deletions of any set, repair of 2 at most, the rebuild, 1 restart |
| `clip_kept` | a remembered clip is of the final window, as long as a clip may be, survives its footage, and no clip outlives its event; `ClipStore` is implemented | 3 viewers and retention, 3 segments of which a clip holds 2, failing exports, deletion at any time |
| `clip_answered` | a request ends; a deletion gets rid of the clip | 1 viewer and retention, 3 segments of which a clip holds 2, every command, an unreadable clip |
| `archive_listed` | rows and files agree when all is quiet, footage that plays is kept, a clear is complete, nothing stays in `incoming/` | 2 segments, both commands, held files, failing INSERTs, 1 restart |
| `alerts` | a loop alerts once per event, `AlertBook` is implemented (answered alerts are not escalated, none twice); every closed event is summarised, an unanswered serious alert escalates | 1 event, all three drivers, two settings to change between, 1 restart |
| `alerts_ruled` (violated) | an alert forced by a rule is recorded and not sent | 2 events, no restart |
| `capture_heals` | one process per camera, a removed camera stays off, a camera that is on is recorded again | 1 camera of either kind, 1 user, 2 deaths or stalls, 3 commands, re-shaping, a clear and the watchdog |
| `sounds` | one camera detects on a microphone, a row in progress is somebody's, a sound alerts once and ends; one install at a time, and an update is installed | 2 cameras on 1 microphone, 2 tasks, 2 sounds, 3 starts, stops, deaths or presses, 1 poll |
| `models` | a wrong file is about to be checked, unless a crash or a mapped file came in between; a skill is whole or gone, unless a crash, a mapped file or a removal under an install came in between; no answer comes from a tier that was not in force since its request was sent | 2 tiers (one of 2 files), 2 panels, 1 saver, 2 requests, 3 installs, removals, saves or crashes |

Why these bounds are enough to be worth checking. Motion: the hazards are between one event and the
next of a camera (a late task of the first against the second), so two events; one restart separates
before from after; streaks are only compared with their threshold. (Scores up to 2
and streaks of 2 have been checked apart, one event at a time.) Review: three events give a card that two others compete
for, or that bridges two cards; four units fit gaps below, at and above the gap and cards below, at and
above the cap. Deletions of one, two and three events are below, at and above the repair's limit. Clips: three viewers and retention are four on one gate. The window is three segments and a clip holds two, so a clip can be
absent, partial, full, and cut short. Archive: two segments are one being recorded and one in any later state; a third adds no
operation that relates three. Alerts: a driver works on one event at a time and no operation relates two, so one event
with three analysts has every overlap, and two settings let one change under an analysis. Capture: the
parties meet at one camera, cameras share only the lock and the order of the lists; two deaths are one
during the recovery from another. (Also checked with four commands: 758,371 states.) Sounds: two tasks are a detector and its
successor, or those of two cameras; one poll has a wait both cut short and run out. Models: two panels are an install and what may come
under it, two files are the fewest a skill can be half of. A switch needs the
one left and the one chosen, two requests are one in front of an unload message and one behind it, three acts are
the install of both tiers and a switch, or two switches and an install. (The skills alone have been checked with three panels and four acts:
510,198 states.) Each run's constants leave some freedom off (short events with deletions,
open upserts, `Watchdog` in the archive) to stay within minutes; the proofs below have no such limits. The archive's
safety properties have also been checked with `Watchdog` on (1.7 million states).

`CHECK_DEADLOCK FALSE` everywhere: each model stops when its bounded events, restarts and requests are
used up.

## Fairness

Only where the process itself keeps going. Motion: frames arrive, the detector takes and finishes them,
seconds pass and spawned tasks run; nothing is assumed of the scene, the frontend, model loading or
restarts. Clips: a request or a command that can go on does; the gate is a `tokio::sync::Mutex`, which
is first come first served, hence strong fairness on taking it. Archive: the post-processor (a 2 s
interval) and the boot scan run on, as one condition each, which holds only with recording on (`boot.rs:556` returns before
either otherwise); recorders, retention, the guard and the user
are not fair. Alerts: the two loops and the escalation timer, each a task of its own, go on; re-analyses,
settings, buttons and restarts are not fair. Capture: a command that was begun, the re-shaping, the clear and the
watchdog go on, and a camera that is not recorded is in the end found stalled by a tick (strong fairness:
what the watchdog compares is the age of the newest segment, which only grows until one is recorded). Sounds: a
detector that runs goes on with its windows, an update that was begun or is wanted goes on. No liveness is claimed for review
segments, where a lost upsert is lost, nor for skills and the on-device model, where every step waits for the network, a user or llama.cpp.

## What is proved

For every value of the constants their assumptions admit, unless said otherwise. Each module's
`TypeCorrect` is `Spec => []TypeOK`; no run repeats it, the theorem being stronger.

**`MotionEvent_proofs`.** `LiveRowSafe` (nothing settles the row of a live event), `LogImplemented`
(every step is a step of `EventLog` or none), `ConfirmedKept`, `PeakOwn`: with faults, late inserts and
restarts. So are `OpenRowsOwned` and `GroupedComplete`, which except the events gone `astray` and assume nothing. The invariant says of each event where it can be: fresh ids have no row and no task, the
live event has no closing task, a closing task has what it needs; `EndingFound` adds that a task which ends a row has
found it, so a late INSERT cannot come under it, and `LabelsAccounted` follows the labels from the buffer to the row.

**`ReviewSegments_proofs`.** `OneCard` and `OnlyWiden`, contention, deletions, rebuilds and restarts
included. `OneCardPerEvent` is not inductive: an upsert that selected its cards earlier could write over
newer ones. `CardInv` adds that a selected snapshot still is the table (`FreshSnapshots`: whatever
writes makes the others stale) and that the cards found include all that have the event
(`ShowsMembers`, `Loaded`, `InOrder` give that its own card is among them). `FeedImplemented` rests on the same
invariant: a write is `Group`, whatever it absorbs, and what repair and the sweep remove has no event that is still there
(an event there lies in its card's window, so `Empty` is false). What it does not promise is what the code does not:
a lost upsert leaves its event off the feed, and an event deleted between its reading and its first write gets a card.

The other four assume nothing either: what they except is in the properties, and is what the history variables say the code
lost (an upsert, a repair, an event a restart cut off) or met (an open event, a brief one).

- `EventsGrouped`: `Grouped` follows an event from its last upsert. Nothing takes it off a card but the rebuild
  (`StaysListed`), and the rebuild is over only when it has replayed it.
- `NoneDangling`: `Dangling` says that a card with a deleted member is still to be repaired (`Repairing`) or excused
  (`Remembered`); it rests on `UpsertCleans`, an upsert that gets to write drops the deleted members of whatever card it folds.
- `EventsCovered`: `Covered`, with `Known`: between loading and writing the end of an event does not change.
- `NoOverlap`: `Settled` and `NoneNarrow` say what holds in a lane where only events that are over were upserted, and none
  brief. `OneSide` is the argument: a card an upsert leaves alone cannot lie between the event and a card it folds, since it
  would be near and too short to be left; so it is before all of them or after, and so is it of the window made of them
  (`MergeSpans`). It needs `Gap + MinWindow <= Cap`, which is 30 + 10 <= 120 in the code; widening a brief event costs less than `MinWindow`.

Each was checked by TLC first.

**`EventClip_proofs`.** `CachedFinal` (with only gated deletion among the commands), `MomentsKept` (and
`keep_event_clips`), `NoOrphan` and
`StoreImplemented` (and no unreadable clip to start with). Exports may fail throughout; `MomentsKept`, `NoOrphan` and `StoreImplemented` except the events retention
`missed`. The invariants follow the gate:
who holds it (`GateHeld`), what it has measured and what is on disk meanwhile (`PathSound`,
`RequestSound`), then retention's promise (`CutSound`, `KeeperSound`), then what a sweep leaves
(`Measured`, `SweptClean`).

**`SegmentArchive_proofs`.** `ListingMatches`, `ClearLeavesNothing`, `ReadableIsKept`. `ListingMatchesDisk`
speaks of quiet states only, so the invariant says who is going to make up for a difference while
there is one: a file without a row is the one just moved or still before the scan (`Listed`), a row
without a file is somebody's to delete (`Backed`); `Settled` says no pass holds a segment that can still
change under it.

**`EventAlerts_proofs`.** `OneAlert` rests on `Fresh`: what a loop has queued, or is working on before it records, has no alert
of that loop. `AnsweredStaysAnswered` and `EscalatedAtMostOnce` rest on `Tokens`: an alert is in one place
only, still to be made, in the table, in the timer's hands, or done. With it `BookImplemented`: every step is one of
`AlertBook` or shows nothing (`Unsent` adds that a message is sent once). An alert nobody was sent may wait and escalate
all the same, so `AlertBook` asks for a delivered message only of an answer.

**`Capture_proofs`.** `OneProcess` and `RemovedOff` for any number of cameras, users and faults. The invariant
is who may hold a process: only the holder of the lock has one in hand, at a camera it has found or made free (`LockInv`,
`HeldInv`, `CapInv`), and no start that could still succeed is at a removed camera (`OffInv`).

**`UpdateGate_proofs`.** `ListensOne`, `SoundsOwned`, `AlertOnce`, `InstallsOne` over both modules. `MapInv` and `AlertInv` say
where a row that has not been alerted on can be; `RunInv` and `ClaimInv` that a running detector is the one in
`audio_processes` and has the claim of its microphone, so that two of them would have the same one.

**`LocalModel_proofs`.** `ChecksPlaced`, `SkillsWhole` and `SwitchesServed`, the last with one saver (two can
each miss the other's change of the path; TLC finds that with two requests and two savers). `PanelInv` says that a panel at work on a file holds
the claim on it alone, `WholeInv` that a panel past a file has it unless somebody is about to remove the folder. For the
tiers, `SwitchInv` says how far `set_tier` is, `WorkerInv` that a model other than the current one is
loaded only with an unload message on its way, and `RequestInv` follows each request through the queue: `Serves(r, n)`
with `n` messages in front of it. `SkillsStrengthened` is the invariant of the skills by itself.

Not proved, only model-checked: all liveness
(`ParkedSceneSettles`, `KeptEventsGrouped`, `RequestsEnd`, `DeletedClipGone`, `SegmentsSettle`, `ClosedEventsAnalysed`, `UnansweredEscalates`, `RecordingHeals`, `StoppedSoundEnds`, `UpdateLands`):
`ENABLED`, and with it fairness, is out of the prover's reach.

## Where code and comments part

With a run that shows it (`findings` in `PROJECT.json`): the alert a rule forces (`agent/dispatch.rs:51` against
`agent/clip.rs:1478`). Stated in a module and violated, though no run is kept for it (name it as the INVARIANT of the run's
`.cfg` to see the counterexample; savers and restarts as noted):

- `CopyRecorderKept` (`capture_heals`): `agent_data_cmds.rs:91` respawns a pipe recorder for every camera that had one, where
  `boot.rs:820` says that "would wrongly give them a JPEG pipe recorder".
- `AllOrNothing` (`models`, `CanCrash` off): the catch at `skillDownload.ts:603` removes the folder whatever the error was; when it is
  the refusal of a file another panel is fetching (`skills.rs:145`), that panel's finished files go, its install goes on with the next
  file and ends well, where `skillDownload.ts:598` says "ALL-OR-NOTHING".
- `TierFollowsSettings` (`models`, two savers): `events_cmds.rs:103` writes database, memory and path under no lock, where `:86` says
  "in lockstep no matter which side made the change".
- `VisionTruthful` (`models`): `agent/local_llm.rs:708` computes the flag on a save and at boot only, where `:715` says "right now".

In the models or seen while modelling:

- `inference.rs:978` counts absence only on frames with a detection, where `state.rs:695` says "YOLO ran but found no tracked
  class": without a cap, an event whose scene empties never closes.
- `review_segments.rs:257`: the transaction is deferred, so of two upserts that overlap the second is refused and dropped,
  where `:436` says the live hooks handle everything.
- `nvr_recording.rs:846`: without `keep_event_clips` a clip that was made and not cached outlives its event, which
  `agent/clip_export.rs:123` means to prevent.

- `motion_lifecycle.rs:274`: the INSERT is a task of its own; if it runs after the closing task, the row
  stays open until the next start, although `db.rs` takes `ended_at IS NULL` for in progress.
  `OpenRowsInProgress` excepts such rows.
- `inference.rs:985` credits a frame's boxes to the event open when inference ends (the comment at 976
  says there is no race). `inference.rs:1037` holds absence at 0 only while
  the scene moves, where `motion_lifecycle.rs:193` says a parked car keeps the event alive. `motion_lifecycle.rs:327` reads a failed SELECT as a row to
  drop, against the comment at 316. `motion_lifecycle.rs:215` drops an unconfirmed event only
  if the user asked for it, where `state.rs:425` says the setting is forced on whenever YOLO is active.
- `review_segments.rs:240`: the event is read before the transaction, so one deleted in between comes
  back as a card; `:494`: a read error ends the rebuild and the flag is set; `:366`: a card reviewed stays
  reviewed when new activity joins it; `:309` against `:5`: the minimum width may overlap a card that was
  left for its cap. `nvr_recording.rs:728`: pruning by start time deletes cards of surviving members; `:789`: repair
  is skipped beyond 200 ids; `:775`: a crash between rows and repair leaves dangling members; `:799`: repair goes through the
  first member its call does not name, and when an earlier call deleted that one the upsert returns at once
  (`review_segments.rs:240`), so the card keeps the newly deleted event, where `:782` says "from any surviving member" and `:751` "so no caller can
  leave dangling references".
- `agent_data_cmds.rs:268`, `agent/clip_export.rs:208`: the purge and the dropping of a stale cache work
  outside the gate. `footage.rs:312`: a window is final a minute after its end, whatever is indexed later.
  `nvr_recording.rs:602`: the pre-export looks at one backstop, the continuous rule deletes by another, and `:618` counts what it
  exported but cuts the footage of what it did not; of an event longer than 120 s the clip holds the first 120 s
  (`agent/clip_export.rs:240`), where `nvr_recording.rs:597` says "so the moment survives". The sweep that follows deletes the event of a
  failed export without looking for a file, which is then left to the orphan purge.
- `agent_data_cmds.rs:130`: a segment swept up between rename and INSERT is listed until the next boot;
  `:235`: a segment indexed between a range delete's SELECT and DELETE loses its row and returns at
  the next boot.
  `nvr_recording.rs:639`: retention deletes the row of a file it could not remove; `:649`, and the chunks of the other deleters, drop the
  error of a DELETE that fails, and the row then lists a file that is gone. `nvr_pipes.rs:476`: a
  recorder that pauses for fourteen seconds loses its segment. `boot.rs:884`: no grace for pipe recorders.
- `agent/clip.rs`: an event may alert once per driver, as nobody claims it; a crash between its summary and its alert
  loses the alert, as the summary keeps it from being selected again. `agent/dispatch.rs:2000`: an answer before
  the alert is in the table finds nothing, and the alert escalates.
- `rtsp.rs:325`: a stop takes no lock; beside another user's start it leaves a camera that is shown and not recorded. `dshow.rs:83`: a start past
  its check brings a removed camera back. `agent_data_cmds.rs:70`: a second deletion overwrites what the first has to
  start again; `:130`: a failing DELETE starts nothing again. `boot.rs:745`: the key goes before the respawn, so a respawn that fails is not
  tried again.
- `events_cmds.rs:182`, `audio_cmds.rs:402`: overlapping starts of one camera's detector leave a row in progress that is ended
  at the next boot only.
- `agent/local_llm.rs:698` says a switch "Unloads first"; the path changes first and the message follows. `skills.rs:276`: 300 ms
  for a worker in mid-generation to let go of its model are not always enough, and the removal then stops at a mapped file. A crash
  between the rename of a download and its check (`skills.rs:231`) leaves a file nothing checks again, and so does a wrong file the worker has mapped before its check removes it (`:232`, `:243`).
- `update_cmds.rs:134` says an install never goes through an event; after six hours (`:183`) it does, and so it does through one that
  opens after the last poll. `:150` says turning either setting off takes effect; `auto_update_check` is not read again
  after the start.

## Not modelled, and the plan

Left out inside the modelled parts: thumbnails, labels' ranking, severity, MQTT, the reviewed flag,
bookmarks, audio tracks of clips, `retention_rules`, times and sizes of segments, `clear_all_events`; recognition,
prompts and plain-English rules of an analysis, `run_live_alert_loop`; Telegram's menus and commands; legacy cameras and HLS;
the sound network; requests with images, streaming, cloud providers, GPU runtimes, old folders of renamed skills. Each module's head lists its own simplifications.

Parts left out altogether, with the reason, are in `PROJECT.json`: numeric code, text, third-party
processes, remote access. They are most of the source by lines (`agent/retrieve.rs`, `agent/dispatch.rs`'s
menus, `persons.rs`, `face.rs`, `agent/llm.rs`, the prompts of `agent/clip.rs`): queries, formatting and arithmetic with one owner
and no state that outlives the call, for which unit tests say more than a model would.

What is left, in order:

1. `retention_rules` as operators against a reference definition (a segment no rule keeps is deleted, one a rule keeps
   is not), instantiating `RetentionSelects`; the rebuild's paging the same way.
2. `InferenceQueue` (`pop_rr` and model loading) feeding `MotionEvent`.
3. Abstract specifications, with the proof that they are implemented: of a camera's recording for `Capture`, of the
   installed models for `LocalModel`.
4. The rebuild of `ReviewSegments` with reads that fail, the pruning of cards by start time.
5. `run_live_alert_loop` beside `EventAlerts`; motion events beside `UpdateGate`.
