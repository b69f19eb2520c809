------------------------------ MODULE Capture ------------------------------
(***************************************************************************)
(* The ffmpeg processes of the cameras and who starts and stops them: the  *)
(* user's commands, the boot, the watchdog, the re-shaping of captures     *)
(* after an anonymization change, and the deletion of all footage.  They   *)
(* meet in four maps (rtsp_processes, capture_keys, nvr_processes,         *)
(* nvr_pipe_txs) and a lock that only starts take.                         *)
(*                                                                         *)
(* Simplifications.                                                        *)
(* - A slot is a USB or a network camera for good, on one device or URL.   *)
(* - Recording is on, ffmpeg and the depth model are installed; a process  *)
(*   that cannot run is one that dies at once.                             *)
(* - A process told to stop is gone: the seconds it takes to finish its     *)
(*   segment are the time between two steps.                               *)
(* - A recording that stalls is one the watchdog may find stalled: the     *)
(*   archive holds a segment of the camera, and times are left out.        *)
(* - Legacy (browser) cameras, the HLS encoders, the audio tap and the     *)
(*   nokhwa fallback are left out, and so is what is deleted meanwhile.    *)
(***************************************************************************)
EXTENDS Integers, FiniteSets

CONSTANTS
    Cams,
    Users,      \* callers of commands (the boot's starts among them), one at a time each
    Watch,      \* the watchdog
    Reshape,    \* reapply_depth_anonymize
    Clear,      \* clear_nvr_recordings, clear_all_events, delete_footage_in_range
    None,
    MaxFaults,  \* processes that die, stalls that are found
    MaxCommands

Tasks  == Users \cup {Watch, Reshape, Clear}
\* tee: USB, records; raw: USB, frames only; relay: network, frames only.
Shapes == {"tee", "raw", "relay"}

ASSUME TaskAssumption ==
    /\ Cardinality({Watch, Reshape, Clear}) = 3
    /\ Users \cap {Watch, Reshape, Clear} = {}
    /\ None \notin Tasks \cup Cams \cup Shapes
ASSUME BoundAssumption == MaxFaults \in Nat /\ MaxCommands \in Nat

VARIABLES
    kind,       \* usb or net
    enabled,    \* camera_configs.enabled
    anon,       \* the registry of anonymized cameras
    cap,        \* rtsp_processes: the shape of the capture
    capDead,    \* its process has exited
    key,        \* capture_keys
    rec,        \* nvr_processes: a copy recorder or a pipe recorder
    recDead,
    tx,         \* nvr_pipe_txs
    parked,     \* stopped_usb_captures
    lock,       \* capture_start_lock
    pc, on,     \* where each task is, and the camera it is at
    back,       \* where it goes on after a start, a stop or a spawn
    held,       \* the process it has spawned and not yet published
    todo,       \* the cameras it still has to look at
    cleared,    \* the cams the deletion has stopped
    wanted,     \* cameras the user last started (history)
    late,       \* removed while a start was past its check (history)
    faults, commands

camVars   == <<kind, enabled, anon>>
procVars  == <<cap, capDead, key>>
recVars   == <<rec, recDead, tx>>
taskVars  == <<lock, pc, on, back, held, todo>>
clearVars == <<parked, cleared>>
histVars  == <<wanted, late, faults, commands>>
vars == <<camVars, procVars, recVars, taskVars, clearVars, histVars>>

Starting == {"lock", "clean", "spawn", "settle", "pipes", "publish", "record"}
Phases == {"idle", "check", "stop", "stale", "list", "next", "unkey", "usb", "net", "dead",
           "started", "pipe", "captures", "resume", "refill"} \cup Starting

ProcTypes ==
    /\ cap \in [Cams -> Shapes \cup {None}] /\ capDead \subseteq Cams /\ key \subseteq Cams
    /\ rec \in [Cams -> {"copy", "pipe", None}] /\ recDead \subseteq Cams /\ tx \subseteq Cams
TaskTypes ==
    /\ lock \in Tasks \cup {None}
    /\ pc \in [Tasks -> Phases] /\ back \in [Tasks -> Phases]
    /\ on \in [Tasks -> Cams \cup {None}]
    /\ held \in [Tasks -> Shapes \cup {None}]
    /\ todo \in [Tasks -> SUBSET Cams]
TypeOK ==
    /\ kind \in [Cams -> {"usb", "net"}]
    /\ enabled \subseteq Cams /\ anon \subseteq Cams
    /\ ProcTypes /\ TaskTypes
    /\ parked \subseteq Cams /\ cleared \subseteq Cams
    /\ wanted \subseteq Cams /\ late \subseteq Cams
    /\ faults \in 0..MaxFaults /\ commands \in 0..MaxCommands

Init ==
    /\ kind \in [Cams -> {"usb", "net"}]
    /\ enabled = Cams /\ anon = {}
    /\ cap = [c \in Cams |-> None] /\ capDead = {} /\ key = {}
    /\ rec = [c \in Cams |-> None] /\ recDead = {} /\ tx = {}
    /\ parked = {} /\ cleared = {} /\ lock = None
    /\ pc = [t \in Tasks |-> "idle"] /\ back = [t \in Tasks |-> "idle"]
    /\ on = [t \in Tasks |-> None] /\ held = [t \in Tasks |-> None]
    /\ todo = [t \in Tasks |-> {}]
    /\ wanted = {} /\ late = {} /\ faults = 0 /\ commands = 0

Usb == {c \in Cams : kind[c] = "usb"}
Up(c)   == cap[c] # None /\ c \notin capDead
RecUp(c) == rec[c] # None /\ c \notin recDead

\* A camera is being recorded: by its capture, by copying its stream, or from its frames.
Recorded(c) ==
    \/ Up(c) /\ cap[c] = "tee"
    \/ RecUp(c) /\ rec[c] = "copy"
    \/ RecUp(c) /\ rec[c] = "pipe" /\ c \in tx /\ Up(c)

-----------------------------------------------------------------------------
(* Entries of the maps, and the steps of a task. *)

Goes(t, p) == pc' = [pc EXCEPT ![t] = p]
Takes(t, c, p, b) ==
    Goes(t, p) /\ on' = [on EXCEPT ![t] = c] /\ back' = [back EXCEPT ![t] = b]
Returns(t) ==
    Goes(t, back[t]) /\ on' = [on EXCEPT ![t] = None] /\ back' = [back EXCEPT ![t] = "idle"]

NoCap(c) == cap' = [cap EXCEPT ![c] = None] /\ capDead' = capDead \ {c}
NoRec(S) == rec' = [c \in Cams |-> IF c \in S THEN None ELSE rec[c]] /\ recDead' = recDead \ S
IsRec(c, r) == rec' = [rec EXCEPT ![c] = r] /\ recDead' = recDead \ {c}

Command == commands < MaxCommands /\ commands' = commands + 1
Fault   == faults < MaxFaults /\ faults' = faults + 1

-----------------------------------------------------------------------------
(* start_usb_capture and start_rtsp_relay, on behalf of whoever called. *)

\* camera_start_allowed
Allowed_Any(c) == TRUE
Allowed(c) == c \in enabled

Check(t) ==
    /\ pc[t] = "check"
    /\ IF Allowed(on[t]) THEN Goes(t, "lock") /\ UNCHANGED <<on, back>> ELSE Returns(t)
    /\ UNCHANGED <<camVars, procVars, recVars, lock, held, todo, clearVars, histVars>>

Running(c) == c \in key /\ Up(c)

\* The same capture already running is left alone; anything else is torn down, first
\* its capture process.
Free_Always == TRUE
Free == lock = None
Lock(t) ==
    /\ pc[t] = "lock" /\ Free
    /\ IF Running(on[t]) THEN Returns(t) /\ UNCHANGED <<lock, procVars>>
       ELSE /\ lock' = t /\ NoCap(on[t]) /\ Goes(t, "clean")
            /\ UNCHANGED <<key, on, back>>
    /\ UNCHANGED <<camVars, recVars, held, todo, clearVars, histVars>>

\* The rest of stop_capture_for_cam: the copy recorder of a network camera, the key.
StopRest(c) ==
    /\ key' = key \ {c}
    /\ IF c \in key /\ kind[c] = "net" THEN NoRec({c}) ELSE UNCHANGED <<rec, recDead>>

Clean(t) ==
    /\ pc[t] = "clean" /\ StopRest(on[t]) /\ Goes(t, "spawn")
    /\ UNCHANGED <<camVars, cap, capDead, tx, lock, on, back, held, todo, clearVars, histVars>>

\* An anonymized camera's raw pixels are not to be recorded.
Shape(c) == IF kind[c] = "net" THEN "relay" ELSE IF c \in anon THEN "raw" ELSE "tee"
Spawn(t) ==
    /\ pc[t] = "spawn"
    /\ held' = [held EXCEPT ![t] = Shape(on[t])]
    /\ Goes(t, IF kind[on[t]] = "net" THEN "publish" ELSE "settle")
    /\ UNCHANGED <<camVars, procVars, recVars, lock, on, back, todo, clearVars, histVars>>

\* A pipe recorder from before is retired; an anonymized camera gets a new one.
Settle(t) ==
    /\ pc[t] = "settle"
    /\ NoRec({on[t]}) /\ tx' = tx \ {on[t]}
    /\ Goes(t, IF held[t] = "raw" THEN "pipes" ELSE "publish")
    /\ UNCHANGED <<camVars, procVars, lock, on, back, held, todo, clearVars, histVars>>

\* What spawn_nvr_pipe returns goes into both maps, and ends what was there.
PipeOn(c) == IsRec(c, "pipe") /\ tx' = tx \cup {c}

Pipes(t) ==
    /\ pc[t] = "pipes" /\ PipeOn(on[t]) /\ Goes(t, "publish")
    /\ UNCHANGED <<camVars, procVars, lock, on, back, held, todo, clearVars, histVars>>

Publish(t) ==
    /\ pc[t] = "publish"
    /\ cap' = [cap EXCEPT ![on[t]] = held[t]] /\ capDead' = capDead \ {on[t]}
    /\ key' = key \cup {on[t]} /\ held' = [held EXCEPT ![t] = None]
    /\ IF kind[on[t]] = "net" THEN Goes(t, "record") /\ UNCHANGED <<lock, on, back>>
       ELSE Returns(t) /\ lock' = None
    /\ UNCHANGED <<camVars, recVars, todo, clearVars, histVars>>

\* A network camera is recorded by a process of its own, which copies the stream.
Record(t) ==
    /\ pc[t] = "record"
    /\ IsRec(on[t], "copy") /\ Returns(t) /\ lock' = None
    /\ UNCHANGED <<camVars, procVars, tx, held, todo, clearVars, histVars>>

Start(t) ==
    Check(t) \/ Lock(t) \/ Clean(t) \/ Spawn(t) \/ Settle(t) \/ Pipes(t) \/ Publish(t) \/ Record(t)

-----------------------------------------------------------------------------
(* The user's commands.  Stops take no lock. *)

UserStart(u, c) ==
    /\ pc[u] = "idle" /\ Command
    /\ Takes(u, c, "check", "idle")
    /\ wanted' = wanted \cup ({c} \cap enabled)
    /\ UNCHANGED <<camVars, procVars, recVars, lock, held, todo, clearVars, late, faults>>

UserStop(u, c) ==
    /\ pc[u] = "idle" /\ c \in enabled /\ Command
    /\ NoCap(c) /\ Takes(u, c, "stop", "idle") /\ wanted' = wanted \ {c}
    /\ UNCHANGED <<camVars, key, recVars, lock, held, todo, clearVars, late, faults>>

\* set_camera_config: a camera that is removed stops at once.
Remove(u, c) ==
    /\ pc[u] = "idle" /\ c \in enabled /\ Command
    /\ enabled' = enabled \ {c} /\ wanted' = wanted \ {c}
    /\ late' = IF \E t \in Tasks: on[t] = c /\ pc[t] \in Starting THEN late \cup {c} ELSE late
    /\ NoCap(c) /\ Takes(u, c, "stop", "stale")
    /\ UNCHANGED <<kind, anon, key, recVars, lock, held, todo, clearVars, faults>>

Add(u, c) ==
    /\ pc[u] = "idle" /\ c \notin enabled /\ Command
    /\ enabled' = enabled \cup {c} /\ late' = late \ {c}
    /\ Takes(u, None, "stale", "idle")
    /\ UNCHANGED <<kind, anon, procVars, recVars, lock, held, todo, clearVars, wanted, faults>>

\* drop_stale_anonymize, which applies the settings when it drops a flag.
Stale(u) ==
    /\ pc[u] = "stale"
    /\ anon' = anon \cap enabled \cap Usb
    /\ IF anon' = anon THEN Goes(u, "idle")
       ELSE pc[Reshape] = "idle" /\ pc' = [pc EXCEPT ![u] = "idle", ![Reshape] = "list"]
    /\ UNCHANGED <<kind, enabled, procVars, recVars, lock, on, back, held, todo, clearVars, histVars>>

Stop(t) ==
    /\ pc[t] = "stop" /\ StopRest(on[t])
    /\ IF t = Watch THEN Goes(t, "check") /\ UNCHANGED <<on, back>> ELSE Returns(t)
    /\ UNCHANGED <<camVars, cap, capDead, tx, lock, held, todo, clearVars, histVars>>

\* apply_settings_update with another depth_anonymize.
Anonymize(c) ==
    /\ c \in Usb \cap enabled /\ pc[Reshape] = "idle" /\ Command
    /\ anon' = IF c \in anon THEN anon \ {c} ELSE anon \cup {c}
    /\ Goes(Reshape, "list")
    /\ UNCHANGED <<kind, enabled, procVars, recVars, lock, on, back, held, todo, clearVars,
                   wanted, late, faults>>

-----------------------------------------------------------------------------
(* reapply_depth_anonymize: every USB capture is ended and started anew. *)

List(t) ==
    /\ pc[t] = "list"
    /\ todo' = [todo EXCEPT ![t] = key \cap Usb] /\ Goes(t, "next")
    /\ UNCHANGED <<camVars, procVars, recVars, lock, on, back, held, clearVars, histVars>>

ReshapeNext(c) ==
    /\ pc[Reshape] = "next" /\ c \in todo[Reshape]
    /\ todo' = [todo EXCEPT ![Reshape] = @ \ {c}]
    /\ NoCap(c) /\ Takes(Reshape, c, "unkey", "next")
    /\ UNCHANGED <<camVars, key, recVars, lock, held, clearVars, histVars>>

ReshapeUnkey ==
    /\ pc[Reshape] = "unkey"
    /\ key' = key \ {on[Reshape]} /\ NoRec({on[Reshape]}) /\ tx' = tx \ {on[Reshape]}
    /\ Goes(Reshape, "check")
    /\ UNCHANGED <<camVars, cap, capDead, lock, on, back, held, todo, clearVars, histVars>>

-----------------------------------------------------------------------------
(* Deleting footage: stop_all_nvr_pipes and respawn_nvr_pipes around it. *)

ClearBegins ==
    /\ pc[Clear] = "idle" /\ Command
    /\ cleared' = tx \cup {c \in Cams : rec[c] # None}
    /\ NoRec(Cams) /\ tx' = {} /\ Goes(Clear, "captures")
    /\ UNCHANGED <<camVars, procVars, lock, on, back, held, todo, parked, wanted, late, faults>>

ClearCaptures ==
    /\ pc[Clear] = "captures"
    /\ parked' = key \cap Usb /\ key' = key \ Usb
    /\ cap' = [c \in Cams |-> IF c \in key \cap Usb THEN None ELSE cap[c]]
    /\ capDead' = capDead \ (key \cap Usb)
    /\ Goes(Clear, "resume")
    /\ UNCHANGED <<camVars, recVars, lock, on, back, held, todo, cleared, histVars>>

Resume ==
    /\ pc[Clear] = "resume"
    /\ todo' = [todo EXCEPT ![Clear] = parked] /\ parked' = {} /\ Goes(Clear, "next")
    /\ UNCHANGED <<camVars, procVars, recVars, lock, on, back, held, cleared, histVars>>

ClearNext(c) ==
    /\ pc[Clear] = "next" /\ c \in todo[Clear]
    /\ todo' = [todo EXCEPT ![Clear] = @ \ {c}] /\ Takes(Clear, c, "check", "next")
    /\ UNCHANGED <<camVars, procVars, recVars, lock, held, clearVars, histVars>>

\* Whatever had a recorder gets a pipe recorder.
Refill(c) ==
    /\ pc[Clear] = "refill" /\ c \in cleared
    /\ cleared' = cleared \ {c} /\ PipeOn(c)
    /\ UNCHANGED <<camVars, procVars, taskVars, parked, histVars>>

\* A task that has been through its list.
Done(t) ==
    /\ pc[t] \in {"next", "refill"} /\ todo[t] = {} /\ (pc[t] = "refill" => cleared = {})
    /\ Goes(t, IF t = Clear /\ pc[t] = "next" THEN "refill" ELSE "idle")
    /\ UNCHANGED <<camVars, procVars, recVars, lock, on, back, held, todo, clearVars, histVars>>

-----------------------------------------------------------------------------
(* The watchdog's tick: USB captures, network cameras, dead pipe recorders, *)
(* stalled ones.                                                            *)

Looks(p, S) == Goes(Watch, p) /\ todo' = [todo EXCEPT ![Watch] = S]
Seen(c)     == todo' = [todo EXCEPT ![Watch] = @ \ {c}]

Tick ==
    /\ pc[Watch] = "idle" /\ Looks("usb", key \cap Usb)
    /\ UNCHANGED <<camVars, procVars, recVars, lock, on, back, held, clearVars, histVars>>

Down(c) == IF kind[c] = "usb" THEN ~Up(c) ELSE ~Up(c) \/ ~RecUp(c)

\* No segment for 75 s, as the archive has it: what is not recorded, or what hangs.
Stalled(c) == IF Recorded(c) THEN Fault ELSE UNCHANGED faults

\* Dead, or found stalled; a removed camera is left as it is.
Replaced_DeadOnly(c, bad) == Down(c) /\ c \in enabled
Replaced(c, bad) == bad /\ c \in enabled
Verdict(c, bad) ==
    /\ pc[Watch] \in {"usb", "net"} /\ c \in todo[Watch]
    /\ Seen(c)
    /\ IF Down(c) \/ ~bad THEN bad = Down(c) /\ UNCHANGED faults ELSE Stalled(c)
    /\ IF Replaced(c, bad)
       THEN NoCap(c) /\ Takes(Watch, c, IF pc[Watch] = "usb" THEN "unkey" ELSE "stop", pc[Watch])
       ELSE UNCHANGED <<cap, capDead, pc, on, back>>
    /\ UNCHANGED <<camVars, key, recVars, lock, held, clearVars, wanted, late, commands>>

WatchUnkey ==
    /\ pc[Watch] = "unkey" /\ key' = key \ {on[Watch]} /\ Goes(Watch, "check")
    /\ UNCHANGED <<camVars, cap, capDead, recVars, lock, on, back, held, todo, clearVars, histVars>>

WatchNet ==
    /\ pc[Watch] = "usb" /\ todo[Watch] = {} /\ Looks("net", key \ Usb)
    /\ UNCHANGED <<camVars, procVars, recVars, lock, on, back, held, clearVars, histVars>>

\* Network cameras under a key are the other half's business.
WatchDead ==
    /\ pc[Watch] = "net" /\ todo[Watch] = {}
    /\ LET gone == {c \in Cams : rec[c] # None /\ c \in recDead /\ ~(c \in key /\ kind[c] = "net")}
       IN  NoRec(gone) /\ Looks("dead", gone)
    /\ UNCHANGED <<camVars, procVars, tx, lock, on, back, held, clearVars, histVars>>

WatchRepipe(c) ==
    /\ pc[Watch] = "dead" /\ c \in todo[Watch]
    /\ Seen(c) /\ tx' = tx \ {c} /\ Takes(Watch, c, "pipe", "dead")
    /\ UNCHANGED <<camVars, procVars, rec, recDead, lock, held, clearVars, histVars>>

Pipe ==
    /\ pc[Watch] = "pipe" /\ PipeOn(on[Watch]) /\ Returns(Watch)
    /\ UNCHANGED <<camVars, procVars, lock, held, todo, clearVars, histVars>>

WatchStarted ==
    /\ pc[Watch] = "dead" /\ todo[Watch] = {} /\ Looks("started", tx)
    /\ UNCHANGED <<camVars, procVars, recVars, lock, on, back, held, clearVars, histVars>>

\* A removed camera's pipe is ended; a stalled one is replaced.
StartedVerdict(c, stalled) ==
    /\ pc[Watch] = "started" /\ c \in todo[Watch]
    /\ Seen(c)
    /\ IF c \notin enabled THEN ~stalled /\ UNCHANGED <<pc, on, back, faults>>
       ELSE IF stalled THEN Takes(Watch, c, "pipe", "started") /\ Stalled(c)
       ELSE UNCHANGED <<pc, on, back, faults>>
    /\ IF c \notin enabled \/ stalled THEN NoRec({c}) /\ tx' = tx \ {c} ELSE UNCHANGED recVars
    /\ UNCHANGED <<camVars, procVars, lock, held, clearVars, wanted, late, commands>>

TickEnds ==
    /\ pc[Watch] = "started" /\ todo[Watch] = {} /\ Goes(Watch, "idle")
    /\ UNCHANGED <<camVars, procVars, recVars, lock, on, back, held, todo, clearVars, histVars>>

-----------------------------------------------------------------------------
\* The processes exit when they please.
CapDies(c) ==
    /\ Up(c) /\ Fault /\ capDead' = capDead \cup {c}
    /\ UNCHANGED <<camVars, cap, key, recVars, taskVars, clearVars, wanted, late, commands>>
RecDies(c) ==
    /\ RecUp(c) /\ Fault /\ recDead' = recDead \cup {c}
    /\ UNCHANGED <<camVars, procVars, rec, tx, taskVars, clearVars, wanted, late, commands>>

UserSteps(u)  == Start(u) \/ Stop(u) \/ Stale(u)
ReshapeSteps  == Start(Reshape) \/ List(Reshape) \/ (\E c \in Cams: ReshapeNext(c))
                 \/ ReshapeUnkey \/ Done(Reshape)
ClearSteps    == Start(Clear) \/ ClearCaptures \/ Resume
                 \/ (\E c \in Cams: ClearNext(c) \/ Refill(c)) \/ Done(Clear)
WatchSteps    ==
    \/ Start(Watch) \/ Stop(Watch) \/ Tick \/ WatchUnkey \/ WatchNet \/ WatchDead
    \/ Pipe \/ WatchStarted \/ TickEnds
    \/ \E c \in Cams, bad \in BOOLEAN: Verdict(c, bad) \/ StartedVerdict(c, bad)
    \/ \E c \in Cams: WatchRepipe(c)

Commands ==
    \/ \E u \in Users, c \in Cams: UserStart(u, c) \/ UserStop(u, c) \/ Remove(u, c) \/ Add(u, c)
    \/ \E c \in Cams: Anonymize(c)
    \/ ClearBegins

Next ==
    \/ Commands
    \/ \E u \in Users: UserSteps(u)
    \/ ReshapeSteps \/ ClearSteps \/ WatchSteps
    \/ \E c \in Cams: CapDies(c) \/ RecDies(c)

Spec == Init /\ [][Next]_vars

\* What was begun goes on, and the watchdog ticks for ever; what is not recorded it finds
\* stalled in one of its ticks.  Nobody has to give a command.
Fairness ==
    /\ \A u \in Users: WF_vars(UserSteps(u))
    /\ WF_vars(ReshapeSteps) /\ WF_vars(ClearSteps) /\ WF_vars(WatchSteps)
    /\ \A c \in Cams: SF_vars(~Recorded(c) /\ Verdict(c, TRUE))

FairSpec == Spec /\ Fairness

-----------------------------------------------------------------------------
(* Properties. *)

\* "The TOCTOU race that spawned duplicate ffmpegs": whoever starts, stops or replaces
\* captures at once, at most one process that nobody has told to stop holds a camera.
OneCapture ==
    \A c \in Cams:
        LET spawned == {t \in Tasks : on[t] = c /\ held[t] # None}
        IN  Cardinality(spawned) <= 1 /\ (spawned # {} => cap[c] = None)

\* "A REMOVED/disabled camera must never re-open its device, no matter who asks": once the
\* removal has stopped it, nothing runs unless a start was past its check when it came.
RemovedStaysOff ==
    \A c \in Cams \ (enabled \cup late): cap[c] = None /\ \A t \in Tasks: on[t] = c => held[t] = None

\* "So recording self-heals": a camera the user started is recorded again whatever died,
\* stalled, was re-shaped or cleared away meanwhile, unless the user stops or removes it.
RecordingHeals == \A c \in Cams: c \in wanted ~> (Recorded(c) \/ c \notin wanted)

\* A claim of the source that the code does not keep; TLC finds a deletion that breaks it.

\* "spawn_nvr_pipe would wrongly give them a JPEG pipe recorder": a network camera under
\* its key has its copy recorder or none.
CopyRecorderKept == \A c \in key: kind[c] = "net" => rec[c] # "pipe"
=============================================================================
