----------------------------- MODULE UpdateGate -----------------------------
(***************************************************************************)
(* Installing updates, beside the sound detectors: the automatic path,     *)
(* which downloads an update, waits for a moment without a row in progress *)
(* and restarts the process, and the button, which does not wait.  The     *)
(* rows it waits for are those of SoundEvents, and its restart is their    *)
(* reboot.                                                                 *)
(*                                                                         *)
(* Simplifications.                                                        *)
(* - One release.  The check for updates and the download succeed or fail. *)
(* - The 360 minutes of waiting are MaxPolls polls.                        *)
(* - auto_update_check is on; motion events are left out, a sound in       *)
(*   progress holds an update up in the same way.                          *)
(***************************************************************************)
EXTENDS SoundEvents

CONSTANTS
    MaxPolls

ASSUME PollAssumption == MaxPolls \in Nat

VARIABLES
    auto, manual,   \* where spawn_auto_update and update_install are
    installing,     \* INSTALLING
    wants,          \* auto_update_install
    polls,          \* minutes the automatic path has waited
    installed       \* the release is installed

updateVars == <<auto, manual, installing, wants, polls, installed>>
vars == <<soundVars, updateVars>>

UpdateOK ==
    /\ auto \in {"idle", "found", "download", "wait", "decide", "install"}
    /\ manual \in {"idle", "find", "download", "install"}
    /\ installing \in BOOLEAN /\ wants \in BOOLEAN /\ installed \in BOOLEAN
    /\ polls \in 0..MaxPolls
TypeOK == SoundOK /\ UpdateOK

Init ==
    /\ SoundInit
    /\ auto = "idle" /\ manual = "idle" /\ installing = FALSE
    /\ wants = FALSE /\ polls = 0 /\ installed = FALSE

-----------------------------------------------------------------------------
(* The button. *)

Switch ==
    /\ Act /\ wants' = ~wants
    /\ UNCHANGED <<machineVars, auto, manual, installing, polls, installed>>

\* INSTALLING.swap: whoever finds it set gives up.
Press ==
    /\ manual = "idle" /\ Act
    /\ installing' = TRUE
    /\ manual' = IF installing THEN "idle" ELSE "find"
    /\ UNCHANGED <<machineVars, auto, wants, polls, installed>>

\* An error, or no update: the flag is given back.
ManualFails ==
    /\ manual # "idle" /\ manual' = "idle" /\ installing' = FALSE
    /\ IF manual = "find" /\ installed THEN UNCHANGED acts ELSE Act
    /\ UNCHANGED <<machineVars, auto, wants, polls, installed>>

ManualGoesOn ==
    /\ ~installed
    /\ \/ manual = "find" /\ manual' = "download"
       \/ manual = "download" /\ manual' = "install"
    /\ UNCHANGED <<soundVars, auto, installing, wants, polls, installed>>

-----------------------------------------------------------------------------
(* auto_update_once, every six hours. *)

AutoFinds ==
    /\ auto = "idle" /\ ~installed /\ wants /\ auto' = "found"
    /\ UNCHANGED <<soundVars, manual, installing, wants, polls, installed>>

AutoTakes ==
    /\ auto = "found" /\ installing' = TRUE
    /\ auto' = IF installing THEN "idle" ELSE "download"
    /\ UNCHANGED <<soundVars, manual, wants, polls, installed>>

AutoDownloads ==
    /\ auto = "download" /\ auto' = "wait" /\ polls' = 0
    /\ UNCHANGED <<soundVars, manual, installing, wants, installed>>

AutoFails ==
    /\ auto \in {"download", "install"} /\ Act
    /\ auto' = "idle" /\ installing' = FALSE
    /\ UNCHANGED <<machineVars, manual, wants, polls, installed>>

\* event_in_progress
InProgress == \E r \in Sounds: row[r] = "open"

Waits_ForEver == InProgress
Waits == InProgress /\ polls < MaxPolls
AutoPolls ==
    /\ auto = "wait"
    /\ IF Waits THEN polls' = (IF polls < MaxPolls THEN polls + 1 ELSE polls) /\ UNCHANGED auto
       ELSE auto' = "decide" /\ UNCHANGED polls
    /\ UNCHANGED <<soundVars, manual, installing, wants, installed>>

\* Switched off while it waited.
Given_Kept == installing
Given == FALSE
AutoDecides ==
    /\ auto = "decide"
    /\ IF wants THEN auto' = "install" /\ UNCHANGED installing
       ELSE auto' = "idle" /\ installing' = Given
    /\ UNCHANGED <<soundVars, manual, wants, polls, installed>>

\* The process is gone, and the new one begins.
Restarts ==
    /\ Reboot
    /\ auto' = "idle" /\ manual' = "idle" /\ installing' = FALSE /\ polls' = 0
    /\ UNCHANGED wants

AutoInstalls   == auto = "install" /\ Restarts /\ installed' = TRUE /\ UNCHANGED acts
ManualInstalls == manual = "install" /\ Restarts /\ installed' = TRUE /\ UNCHANGED acts
Crash          == Restarts /\ UNCHANGED installed /\ Act

Automatic == AutoFinds \/ AutoTakes \/ AutoDownloads \/ AutoFails \/ AutoPolls \/ AutoDecides \/ AutoInstalls
Manual    == ManualGoesOn \/ ManualFails \/ ManualInstalls

Next ==
    \/ SoundNext /\ UNCHANGED updateVars
    \/ Switch \/ Press \/ Manual \/ Automatic
    \/ Crash

Spec == Init /\ [][Next]_vars

\* Tasks of the runtime go on; nobody has to call, press or speak.
Fairness ==
    /\ \A d \in Tasks: WF_vars(Detector(d) /\ UNCHANGED updateVars)
    /\ WF_vars(Automatic) /\ WF_vars(Manual)

FairSpec == Spec /\ Fairness

-----------------------------------------------------------------------------
(* Properties. *)

\* "One install at a time", and whoever took the flag gives it back, so that no later
\* press is refused for an install that is over.
OneInstall ==
    LET byAuto   == auto \in {"download", "wait", "decide", "install"}
        byButton == manual # "idle"
    IN  ~(byAuto /\ byButton) /\ (installing <=> byAuto \/ byButton)

\* "The wait below is bounded": an update gets installed though a sound never ends or its
\* row was lost, unless the user switches the installing off.
UpdateLands == (wants /\ ~installed) ~> (installed \/ ~wants)
=============================================================================
