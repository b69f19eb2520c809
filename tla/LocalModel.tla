----------------------------- MODULE LocalModel -----------------------------
(***************************************************************************)
(* The on-device language model, beside the skills that are its tiers.     *)
(* One thread owns the model: it takes requests and unload messages from a *)
(* channel in order, loads the weights MODEL_PATH names when a request     *)
(* comes and drops them when told to or after some idle time.  Every save  *)
(* of the settings points it at the chosen tier and removing a skill makes *)
(* it let go.                                                              *)
(*                                                                         *)
(* Simplifications.                                                        *)
(* - Each request is made once.  A generation ends with a text or an error *)
(*   and streams nothing; images do not go with requests.                  *)
(* - llama.cpp initialises.  Loading a file that is there works or fails.  *)
(***************************************************************************)
EXTENDS SkillInstall, Sequences

CONSTANTS
    VisionTier,  \* the tier with a projector, its second file
    Savers,      \* who calls apply_settings_update
    Requests     \* callers of chat

ASSUME VisionAssumption == VisionTier \in Skills
ASSUME RequestsAssumption ==
    /\ None \notin Requests /\ "unload" \notin Requests
    /\ Skills \cap {"new", "sent", "error"} = {}

VARIABLES
    saved, tier,            \* local_llm_tier in the database and in memory
    path, vision,           \* MODEL_PATH, VISION_AVAILABLE
    save, wants, changed,   \* per saver: where it is, its tier; those that found a change
    queue,                  \* the channel to the worker
    worker, loaded,         \* where the worker is, and its model
    job, reading,           \* the request in its hands, the path it read
    answer,                 \* per request: "new", "sent", "error", or who answered
    since,                  \* history: tiers in force at some time since it was sent
    inForce                 \* history: the tier of the last set_tier that returned

saverVars   == <<saved, tier, path, vision, save, wants, changed, inForce>>
workerVars  == <<worker, loaded, job, reading>>
requestVars == <<answer, since>>
modelVars   == <<saverVars, queue, workerVars, requestVars>>
vars        == <<skillVars, modelVars>>

ModelOK ==
    /\ saved \in Skills /\ tier \in Skills /\ path \in Skills /\ inForce \in Skills
    /\ vision \in BOOLEAN
    /\ save \in [Savers -> {"idle", "store", "set", "compare", "point", "look", "drop"}]
    /\ wants \in [Savers -> Skills] /\ changed \subseteq Savers
    /\ queue \in Seq(Requests \cup {"unload"})
    /\ worker \in {"wait", "read", "load", "generate"}
    /\ loaded \in Skills \cup {None} /\ reading \in Skills \cup {None}
    /\ job \in Requests \cup {None}
    /\ answer \in [Requests -> {"new", "sent", "error"} \cup Skills]
    /\ since \in [Requests -> SUBSET Skills]
TypeOK == SkillOK /\ ModelOK

\* vision_ready
Ready(t) == t = VisionTier /\ \A i \in 1..NumFiles[t]: disk[<<t, i>>] # None

Init ==
    /\ SkillInit
    /\ saved \in Skills /\ tier = saved /\ path = saved /\ inForce = saved
    /\ vision = FALSE /\ changed = {}
    /\ save = [v \in Savers |-> "idle"] /\ wants = [v \in Savers |-> saved]
    /\ queue = <<>> /\ worker = "wait" /\ loaded = None /\ job = None /\ reading = None
    /\ answer = [r \in Requests |-> "new"] /\ since = [r \in Requests |-> {}]

-----------------------------------------------------------------------------
(* apply_settings_update, and the steps of set_tier at its end. *)

SaveGoes(v, next) == save' = [save EXCEPT ![v] = next]

Save(v, t) ==
    /\ save[v] = "idle" /\ Act /\ SaveGoes(v, "store") /\ wants' = [wants EXCEPT ![v] = t]
    /\ UNCHANGED <<panelVars, fileVars, claimed, slipped, spoiled>>
    /\ UNCHANGED <<saved, tier, path, vision, changed, inForce, queue, workerVars, requestVars>>

\* Whether the database took it is not looked at.
Store(v) ==
    /\ save[v] = "store" /\ SaveGoes(v, "set") /\ saved' \in {saved, wants[v]}
    /\ UNCHANGED <<tier, path, vision, wants, changed, inForce, queue, requestVars>>

SetSettings(v) ==
    /\ save[v] = "set" /\ SaveGoes(v, "compare") /\ tier' = wants[v]
    /\ UNCHANGED <<saved, path, vision, wants, changed, inForce, queue, requestVars>>

Differs_Late(v) == FALSE
Differs(v) == path # wants[v]
Compare(v) ==
    /\ save[v] = "compare" /\ SaveGoes(v, "point")
    /\ changed' = IF Differs(v) THEN changed \cup {v} ELSE changed \ {v}
    /\ UNCHANGED <<saved, tier, path, vision, wants, inForce, queue, requestVars>>

\* From here on the new tier may answer what was asked before.
Point(v) ==
    /\ save[v] = "point" /\ SaveGoes(v, "look") /\ path' = wants[v]
    /\ since' = [r \in Requests |-> since[r] \cup {wants[v]}]
    /\ UNCHANGED <<saved, tier, vision, wants, changed, inForce, queue, answer>>

Look(v) ==
    /\ save[v] = "look" /\ vision' = Ready(wants[v])
    /\ IF v \in changed THEN SaveGoes(v, "drop") /\ UNCHANGED inForce
       ELSE SaveGoes(v, "idle") /\ inForce' = wants[v]
    /\ UNCHANGED <<saved, tier, path, wants, changed, queue, requestVars>>

Drop(v) ==
    /\ save[v] = "drop" /\ SaveGoes(v, "idle") /\ inForce' = wants[v]
    /\ queue' = Append(queue, "unload") /\ changed' = changed \ {v}
    /\ UNCHANGED <<saved, tier, path, vision, wants, requestVars>>

Saves(v) ==
    /\ Store(v) \/ SetSettings(v) \/ Compare(v) \/ Point(v) \/ Look(v) \/ Drop(v)
    /\ UNCHANGED <<skillVars, workerVars>>

-----------------------------------------------------------------------------
(* chat_full, and the worker. *)

Ask(r) ==
    /\ answer[r] = "new" /\ answer' = [answer EXCEPT ![r] = "sent"]
    /\ since' = [since EXCEPT ![r] = {path, inForce}]
    /\ queue' = Append(queue, r)
    /\ UNCHANGED <<saverVars, workerVars>>

TakeUnload ==
    /\ worker = "wait" /\ queue # <<>> /\ Head(queue) = "unload"
    /\ queue' = Tail(queue) /\ loaded' = None
    /\ UNCHANGED <<saverVars, worker, job, reading, requestVars>>

TakeRequest ==
    /\ worker = "wait" /\ queue # <<>> /\ Head(queue) # "unload"
    /\ queue' = Tail(queue) /\ job' = Head(queue)
    /\ worker' = IF loaded = None THEN "read" ELSE "generate"
    /\ UNCHANGED <<saverVars, loaded, reading, requestVars>>

ReadPath ==
    /\ worker = "read" /\ worker' = "load" /\ reading' = path
    /\ UNCHANGED <<saverVars, queue, loaded, job, requestVars>>

Replies(x) ==
    /\ answer' = [answer EXCEPT ![job] = x] /\ worker' = "wait" /\ job' = None /\ reading' = None
    /\ UNCHANGED since

Load ==
    /\ worker = "load" /\ disk[<<reading, 1>>] # None
    /\ worker' = "generate" /\ loaded' = reading /\ reading' = None
    /\ UNCHANGED <<saverVars, queue, job, requestVars>>

LoadFails ==
    /\ worker = "load" /\ Replies("error")
    /\ UNCHANGED <<saverVars, queue, loaded>>

Generate ==
    /\ worker = "generate" /\ (Replies(loaded) \/ Replies("error"))
    /\ UNCHANGED <<saverVars, queue, loaded>>

\* recv_timeout ran out.
IdleUnload ==
    /\ worker = "wait" /\ queue = <<>> /\ loaded # None /\ loaded' = None
    /\ UNCHANGED <<saverVars, queue, worker, job, reading, requestVars>>

Works ==
    /\ TakeUnload \/ TakeRequest \/ ReadPath \/ Load \/ LoadFails \/ Generate \/ IdleUnload
    /\ UNCHANGED skillVars

-----------------------------------------------------------------------------
(* The skills. *)

\* remove_skill sends the message whatever the worker does, and waits 300 ms.
Lets(p) == Release(p) /\ queue' = Append(queue, "unload") /\ UNCHANGED <<saverVars, workerVars, requestVars>>

\* A loaded model's weights are mapped.
Mapped(f) == loaded # None /\ f = <<loaded, 1>>
Empties(p) == \E kept \in SUBSET FilesOf(what[p]):
    /\ kept = {} \/ \E f \in kept: Mapped(f)
    /\ RemoveDir(p, kept)

Skill == \E p \in Panels:
    \/ /\ \/ Asked(p) \/ Fetches(p) \/ Empties(p)
          \/ Mapped(At(p)) /\ (RenameRefused(p) \/ RemovalRefused(p))
       /\ UNCHANGED modelVars
    \/ Lets(p)

\* Boot reads the settings and calls set_tier.
Crash ==
    /\ SkillCrash
    /\ tier' = saved /\ path' = saved /\ inForce' = saved /\ vision' = Ready(saved)
    /\ save' = [v \in Savers |-> "idle"] /\ changed' = {} /\ queue' = <<>>
    /\ worker' = "wait" /\ loaded' = None /\ job' = None /\ reading' = None
    /\ answer' = [r \in Requests |-> IF answer[r] = "sent" THEN "error" ELSE answer[r]]
    /\ UNCHANGED <<saved, wants, since>>

Next ==
    \/ Skill \/ Works \/ Crash
    \/ \E v \in Savers: Saves(v) \/ \E t \in Skills: Save(v, t)
    \/ \E r \in Requests: Ask(r) /\ UNCHANGED skillVars

Spec == Init /\ [][Next]_vars

-----------------------------------------------------------------------------
(* Properties. *)

\* "the next answer comes from the model the user just picked": a request is answered by a
\* tier that was in force at some time since it was sent, whatever was loaded, queued or
\* being loaded when the tier was switched.
SwitchServed == \A r \in Requests: answer[r] \in Skills => answer[r] \in since[r]

-----------------------------------------------------------------------------
(* Claims of the source that the code does not keep; TLC finds two saves   *)
(* at once, and a removal of the selected tier.                            *)

\* "in lockstep no matter which side made the change": with no save under way, the database,
\* the settings in memory and the worker's path name the same tier.
TierFollowsSettings == (\A v \in Savers: save[v] = "idle") => saved = tier /\ path = tier

\* "Is the on-device engine able to look at a frame right now?"
VisionTruthful == (\A v \in Savers: save[v] = "idle") => (vision <=> Ready(path))
=============================================================================
