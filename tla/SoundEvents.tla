---------------------------- MODULE SoundEvents ----------------------------
(***************************************************************************)
(* The sound detectors of the cameras: spawn_audio_detection, which claims *)
(* the microphone and runs one task per ffmpeg; note_audio_hit, which      *)
(* opens a row for a sound or extends the open one; and the three ways a   *)
(* row is closed: reap_audio_events in every window of any detector,       *)
(* close_audio_for_cam, and close_orphan_audio_events at the next spawn.   *)
(*                                                                         *)
(* Simplifications.                                                        *)
(* - Sound detection is on and its model installed.                        *)
(* - A task is a detector from its spawn to its end, or the closing half   *)
(*   of a stop.  Its name stands for the token of its claim.               *)
(* - AUDIO_MAX_NOT_HEARD_SECS are any time at all; what a sound is, how    *)
(*   loud and how sure, is whether it is critical.  An open sound that is  *)
(*   heard again is confirmed, AUDIO_CONFIRM_WINDOWS being two.            *)
(* - The ring buffer, the review segment, the timeline and the clip made   *)
(*   ahead of time are left out; database statements succeed.              *)
(***************************************************************************)
EXTENDS Integers, FiniteSets

CONSTANTS
    Cams,
    Mics,
    MicOf,      \* the microphone of each camera
    Buffering,  \* cameras whose microphone is opened for their clips, too (USB)
    Tasks,
    MaxSound,   \* rows, numbered as they are inserted
    None,
    MaxActs     \* starts and stops of detectors, and ffmpegs that die or do not start

ASSUME MicAssumption == MicOf \in [Cams -> Mics] /\ Buffering \subseteq Cams
Sounds == 1..MaxSound

ASSUME NoneAssumption == None \notin Cams \cup Tasks \cup Sounds
ASSUME BoundAssumption == MaxActs \in Nat /\ MaxSound \in Nat

VARIABLES
    phase, cam, \* where each task is, and its camera
    inHand,     \* the rows it is about to write
    listens,    \* tasks that detect
    running,    \* tasks whose ffmpeg runs
    proc,       \* audio_processes
    claim,      \* MIC_CLAIMS
    open,       \* OPEN_AUDIO: the row of each camera's open sound
    alerted,    \* cameras whose open sound has been alerted on
    row, of,    \* motion_events, and their cameras
    alerts,     \* alerts sent, by row
    lost,       \* rows replaced in the map by another start's (history)
    mixed,      \* cameras of which two detectors were started at once (history)
    acts

taskVars  == <<phase, cam, inHand, listens>>
procVars  == <<running, proc, claim>>
openVars  == <<open, alerted>>
rowVars   == <<row, of, alerts>>
histVars  == <<lost, mixed>>
machineVars == <<taskVars, procVars, openVars, rowVars, histVars>>
soundVars == <<machineVars, acts>>

Starting == {"claim", "orphans", "spawn"}
Phases   == {"idle", "read", "reap", "detect", "insert", "enter", "close", "final"} \cup Starting

TaskTypes ==
    /\ phase \in [Tasks -> Phases]
    /\ cam \in [Tasks -> Cams \cup {None}]
    /\ inHand \in [Tasks -> SUBSET Sounds]
    /\ listens \subseteq Tasks
ProcTypes ==
    /\ running \subseteq Tasks
    /\ proc \in [Cams -> Tasks \cup {None}] /\ claim \in [Mics -> Tasks \cup {None}]
SoundTypes ==
    /\ open \in [Cams -> Sounds \cup {None}] /\ alerted \subseteq Cams
    /\ row \in [Sounds -> {"absent", "open", "ended"}] /\ of \in [Sounds -> Cams \cup {None}]
    /\ alerts \in [Sounds -> 0..2]
    /\ lost \subseteq Sounds /\ mixed \subseteq Cams
SoundOK ==
    /\ TaskTypes /\ ProcTypes /\ SoundTypes
    /\ acts \in 0..MaxActs

SoundInit ==
    /\ phase = [d \in Tasks |-> "idle"] /\ cam = [d \in Tasks |-> None]
    /\ inHand = [d \in Tasks |-> {}] /\ listens = {}
    /\ running = {} /\ proc = [c \in Cams |-> None] /\ claim = [m \in Mics |-> None]
    /\ open = [c \in Cams |-> None] /\ alerted = {}
    /\ row = [r \in Sounds |-> "absent"] /\ of = [r \in Sounds |-> None]
    /\ alerts = [r \in Sounds |-> 0]
    /\ lost = {} /\ mixed = {} /\ acts = 0

Goes(d, next) == phase' = [phase EXCEPT ![d] = next]
Ends(d) ==
    /\ Goes(d, "idle") /\ cam' = [cam EXCEPT ![d] = None]
    /\ listens' = listens \ {d}

Act     == acts < MaxActs /\ acts' = acts + 1
Kill(c) == running' = running \ {proc[c]} /\ proc' = [proc EXCEPT ![c] = None]

-----------------------------------------------------------------------------
(* A camera's detector is started, started anew (reapply_audio) or stopped. *)

Start(c, d) ==
    /\ phase[d] = "idle" /\ Act
    /\ Kill(c)
    /\ Goes(d, "claim") /\ cam' = [cam EXCEPT ![d] = c]
    /\ mixed' = IF \E e \in Tasks: cam[e] = c /\ phase[e] \in Starting THEN mixed \cup {c} ELSE mixed
    /\ UNCHANGED <<inHand, listens, claim, openVars, rowVars, lost>>

Stop(c, d) ==
    /\ phase[d] = "idle" /\ Act
    /\ Kill(c)
    /\ Goes(d, "close") /\ cam' = [cam EXCEPT ![d] = c]
    /\ UNCHANGED <<inHand, listens, claim, openVars, rowVars, histVars>>

MicOfTask(d) == MicOf[cam[d]]

\* Another camera's detector on the same microphone.
TakenFrom(d) ==
    LET holder == claim[MicOfTask(d)] IN holder # None /\ cam[holder] # cam[d]

Claim(d) ==
    /\ phase[d] = "claim"
    /\ IF TakenFrom(d)
       THEN /\ UNCHANGED claim
            /\ IF cam[d] \in Buffering THEN Goes(d, "orphans") /\ UNCHANGED <<cam, listens>>
               ELSE Ends(d)
       ELSE /\ claim' = [claim EXCEPT ![MicOfTask(d)] = d] /\ listens' = listens \cup {d}
            /\ Goes(d, "orphans") /\ UNCHANGED cam
    /\ UNCHANGED <<inHand, running, proc, openVars, rowVars, histVars, acts>>

\* close_orphan_audio_events
Orphans(d) ==
    /\ phase[d] = "orphans" /\ Goes(d, "spawn")
    /\ row' = [r \in Sounds |-> IF row[r] = "open" /\ of[r] = cam[d] THEN "ended" ELSE row[r]]
    /\ UNCHANGED <<cam, inHand, listens, procVars, openVars, of, alerts, histVars, acts>>

\* release_mic: "releases only its own claim".
Released_Any(d) == [claim EXCEPT ![MicOfTask(d)] = None]
Released(d) == [claim EXCEPT ![MicOfTask(d)] = IF @ = d THEN None ELSE @]

\* The child that was in audio_processes is dropped, and killed by that.
Spawn(d) ==
    /\ phase[d] = "spawn"
    /\ \/ /\ running' = (running \ {proc[cam[d]]}) \cup {d} /\ proc' = [proc EXCEPT ![cam[d]] = d]
          /\ Goes(d, "read") /\ UNCHANGED <<cam, listens, claim, acts>>
       \/ /\ Act /\ claim' = Released(d) /\ Ends(d) /\ UNCHANGED <<running, proc>>
    /\ UNCHANGED <<inHand, openVars, rowVars, histVars>>

-----------------------------------------------------------------------------
(* The loop of a detector, once a second. *)

Heard(S) == open' = [c \in Cams |-> IF c \in S THEN None ELSE open[c]] /\ alerted' = alerted \ S
AfterReap(d) == IF d \in listens THEN "detect" ELSE "read"

\* reap_audio_events takes what has been silent out of the map, of any camera.
Reaped_Forgets(S) == {}
Reaped(S) == {open[c] : c \in S}
Window(d) ==
    /\ phase[d] = "read" /\ d \in running
    /\ \E S \in SUBSET {c \in Cams : open[c] # None}:
          /\ Heard(S) /\ inHand' = [inHand EXCEPT ![d] = Reaped(S)]
          /\ Goes(d, IF Reaped(S) = {} THEN AfterReap(d) ELSE "reap")
    /\ UNCHANGED <<cam, listens, procVars, rowVars, histVars, acts>>

\* finalize_audio_event, row by row; then on to the window's sound, or the task is over.
Finalise(d, r) ==
    /\ phase[d] \in {"reap", "final"} /\ r \in inHand[d]
    /\ row' = [row EXCEPT ![r] = "ended"] /\ inHand' = [inHand EXCEPT ![d] = @ \ {r}]
    /\ IF inHand[d] # {r} THEN UNCHANGED <<phase, cam, listens>>
       ELSE IF phase[d] = "reap" THEN Goes(d, AfterReap(d)) /\ UNCHANGED <<cam, listens>>
       ELSE Ends(d)
    /\ UNCHANGED <<procVars, openVars, of, alerts, histVars, acts>>

Nothing(d) ==
    /\ phase[d] = "detect" /\ Goes(d, "read")
    /\ UNCHANGED <<cam, inHand, listens, procVars, openVars, rowVars, histVars, acts>>

Alert(r) == alerts' = [alerts EXCEPT ![r] = IF @ < 2 THEN @ + 1 ELSE @]

\* note_audio_hit: under the lock it is decided whether the sound is a new one.  (New ones
\* are heard while there are ids left.)
IdsLeft == Cardinality({d \in Tasks : phase[d] = "insert"}) < Cardinality({r \in Sounds : row[r] = "absent"})
Hit(d) ==
    /\ phase[d] = "detect"
    /\ LET c == cam[d]
       IN  IF open[c] = None
           THEN IdsLeft /\ Goes(d, "insert") /\ UNCHANGED <<alerted, alerts>>
           ELSE /\ Goes(d, "read") /\ alerted' = alerted \cup {c}
                /\ IF c \in alerted THEN UNCHANGED alerts ELSE Alert(open[c])
    /\ UNCHANGED <<cam, inHand, listens, procVars, open, row, of, histVars, acts>>

Insert(d, r) ==
    /\ phase[d] = "insert" /\ row[r] = "absent" /\ \A q \in 1..(r - 1): row[q] # "absent"
    /\ row' = [row EXCEPT ![r] = "open"] /\ of' = [of EXCEPT ![r] = cam[d]]
    /\ inHand' = [inHand EXCEPT ![d] = {r}] /\ Goes(d, "enter")
    /\ UNCHANGED <<cam, listens, procVars, openVars, alerts, histVars, acts>>

\* The map has it once the row, the timeline and the review segment are written; a
\* critical sound is alerted on at once.
Alerted_Later(d, critical) == alerted \ {cam[d]}
Alerted(d, critical) == IF critical THEN alerted \cup {cam[d]} ELSE alerted \ {cam[d]}
Enter(d, r, critical) ==
    /\ phase[d] = "enter" /\ r \in inHand[d]
    /\ open' = [open EXCEPT ![cam[d]] = r] /\ alerted' = Alerted(d, critical)
    /\ lost' = lost \cup ({open[cam[d]]} \ {None})
    /\ IF critical THEN Alert(r) ELSE UNCHANGED alerts
    /\ inHand' = [inHand EXCEPT ![d] = {}] /\ Goes(d, "read")
    /\ UNCHANGED <<cam, listens, procVars, row, of, mixed, acts>>

\* ffmpeg's output ends.  (A dead child in audio_processes is as good as none.)
Eof(d) ==
    /\ phase[d] = "read" /\ d \notin running
    /\ claim' = Released(d) /\ Goes(d, "close")
    /\ proc' = [proc EXCEPT ![cam[d]] = IF @ = d THEN None ELSE @]
    /\ UNCHANGED <<cam, inHand, listens, running, openVars, rowVars, histVars, acts>>

\* close_audio_for_cam
Closing_Nothing(c) == {}
Closing(c) == {open[c]} \ {None}
CloseForCam(d) ==
    /\ phase[d] = "close" /\ Heard({cam[d]})
    /\ inHand' = [inHand EXCEPT ![d] = Closing(cam[d])]
    /\ IF Closing(cam[d]) = {} THEN Ends(d) ELSE Goes(d, "final") /\ UNCHANGED <<cam, listens>>
    /\ UNCHANGED <<procVars, rowVars, histVars, acts>>

Detector(d) ==
    \/ Claim(d) \/ Orphans(d) \/ Spawn(d) \/ Window(d) \/ Nothing(d) \/ Hit(d)
    \/ \E r \in Sounds: Finalise(d, r) \/ Insert(d, r)
    \/ \E r \in Sounds, critical \in BOOLEAN: Enter(d, r, critical)
    \/ Eof(d) \/ CloseForCam(d)

Dies(d) ==
    /\ d \in running /\ Act /\ running' = running \ {d}
    /\ UNCHANGED <<taskVars, proc, claim, openVars, rowVars, histVars>>

\* Only the rows survive; the boot ends those left open.
Reboot ==
    /\ phase' = [d \in Tasks |-> "idle"] /\ cam' = [d \in Tasks |-> None]
    /\ inHand' = [d \in Tasks |-> {}] /\ listens' = {}
    /\ running' = {} /\ proc' = [c \in Cams |-> None] /\ claim' = [m \in Mics |-> None]
    /\ open' = [c \in Cams |-> None] /\ alerted' = {}
    /\ row' = [r \in Sounds |-> IF row[r] = "open" THEN "ended" ELSE row[r]]
    /\ UNCHANGED <<of, alerts, histVars>>

Calls == \E c \in Cams, d \in Tasks: Start(c, d) \/ Stop(c, d)

SoundNext ==
    \/ Calls
    \/ \E d \in Tasks: Detector(d) \/ Dies(d)

-----------------------------------------------------------------------------
(* Properties. *)

\* "Two cameras on the same mic heard every sound twice": of the cameras on a microphone
\* one detects, through restarts, deaths and failed spawns, except where two starts of a
\* camera ran into each other.
OneListener ==
    \A d, e \in running \cap listens:
        cam[d] # cam[e] /\ MicOfTask(d) = MicOfTask(e) => cam[d] \in mixed \/ cam[e] \in mixed

\* A row in progress is in the map or in the hands of a task, so that somebody will end
\* it, except where a start has put another in its place.
OpenSoundsOwned ==
    \A r \in Sounds \ lost:
        row[r] = "open" => (\E c \in Cams: open[c] = r) \/ (\E d \in Tasks: r \in inHand[d])

\* "alert at most once per event", however many detectors of a camera overlap.
AlertedOnce == \A r \in Sounds: alerts[r] <= 1

\* "So a sound that was playing at teardown doesn't leave a perpetual open event".
StoppedSoundEnds ==
    \A r \in Sounds:
        (row[r] = "open" /\ \A d \in running: cam[d] # of[r])
            ~> (row[r] = "ended" \/ r \in lost \/ \E d \in running: cam[d] = of[r])
=============================================================================
