---------------------------- MODULE SkillInstall ----------------------------
(***************************************************************************)
(* The models on disk.  A skill is a folder of files that panels of the    *)
(* UI fetch one after the other with download_skill: each is claimed,      *)
(* streamed to a .part, renamed into place and then checked.  A panel      *)
(* whose file fails takes the whole folder away, and so does the Remove    *)
(* button.  Several panels offer the same skill without knowing of each    *)
(* other.                                                                  *)
(*                                                                         *)
(* Simplifications.                                                        *)
(* - Content is right or wrong; the test for a web page and the size floor *)
(*   go with the digest, and a stream shorter than announced fails.        *)
(* - A folder is removed in one step, or but for some files if a mapped    *)
(*   one among them resists; old folders of renamed skills are left out.   *)
(***************************************************************************)
EXTENDS Naturals, FiniteSets

CONSTANTS
    Skills, MaxFiles, NumFiles,  \* the registry: how many files a skill has
    Panels,                      \* the parts of the UI that install and remove
    CanCrash,
    MaxActs,                     \* bound on installs, removals and crashes
    None

ASSUME FilesAssumption == MaxFiles \in Nat /\ NumFiles \in [Skills -> 1..MaxFiles]
ASSUME NoneAssumption == None \notin Skills \cup Panels \cup {"good", "bad"}
ASSUME ActsAssumption == MaxActs \in Nat /\ CanCrash \in BOOLEAN

VARIABLES
    phase, what, at,  \* per panel: where it is, with which skill, at which file
    wrong,            \* panels whose stream ended with the wrong content
    disk,             \* the files under their names: None, "good" or "bad"
    part,             \* the .part files: None, or who writes it
    claimed,          \* IN_FLIGHT
    acts,             \* MaxActs
    slipped,          \* history: wrong files a crash cut the check of, or that resisted it
    spoiled           \* history: skills with two panels at once, a crash, or a mapped file

panelVars == <<phase, what, at, wrong>>
fileVars  == <<disk, part>>
skillVars == <<panelVars, fileVars, claimed, acts, slipped, spoiled>>

Files == Skills \X (1..MaxFiles)
FilesOf(s) == {s} \X (1..MaxFiles)
Fetching == {"get", "stream", "rename", "check"}
Phases == {"idle", "claim", "release", "remove"} \cup Fetching
At(p) == <<what[p], at[p]>>
Busy(s, P) == \E p \in P: phase[p] # "idle" /\ what[p] = s

SkillOK ==
    /\ phase \in [Panels -> Phases] /\ what \in [Panels -> Skills \cup {None}]
    /\ at \in [Panels -> 1..(MaxFiles + 1)] /\ wrong \subseteq Panels
    /\ disk \in [Files -> {"good", "bad", None}] /\ part \in [Files -> Panels \cup {None}]
    /\ claimed \subseteq Files /\ acts \in 0..MaxActs
    /\ slipped \subseteq Files /\ spoiled \subseteq Skills

SkillInit ==
    /\ phase = [p \in Panels |-> "idle"] /\ what = [p \in Panels |-> None]
    /\ at = [p \in Panels |-> 1] /\ wrong = {}
    /\ disk = [f \in Files |-> None] /\ part = [f \in Files |-> None]
    /\ claimed = {} /\ acts = 0 /\ slipped = {} /\ spoiled = {}

Act == acts < MaxActs /\ acts' = acts + 1
Goes(p, next) == phase' = [phase EXCEPT ![p] = next]

-----------------------------------------------------------------------------
(* downloadSkill and download_skill. *)

\* What a panel knows of the others is its last listing.
Install(p, s) ==
    /\ phase[p] = "idle" /\ Act /\ Goes(p, "claim")
    /\ what' = [what EXCEPT ![p] = s] /\ at' = [at EXCEPT ![p] = 1]
    /\ UNCHANGED <<wrong, fileVars, claimed, slipped, spoiled>>

\* The catch of downloadSkill.
AfterError_Kept == "idle"
AfterError == "release"

\* "that download is already running"
Taken(f) == f \in claimed
Claim(p) ==
    /\ phase[p] = "claim"
    /\ Goes(p, IF Taken(At(p)) THEN AfterError ELSE "get")
    /\ claimed' = claimed \cup {At(p)}
    /\ UNCHANGED <<what, at, wrong, fileVars, acts, slipped, spoiled>>

\* A .part that is there is truncated.
Opens(p) ==
    /\ phase[p] = "get" /\ Goes(p, "stream") /\ part' = [part EXCEPT ![At(p)] = p]
    /\ UNCHANGED <<what, at, wrong, disk, claimed, acts, slipped, spoiled>>

Streamed(p) ==
    /\ phase[p] = "stream" /\ Goes(p, "rename") /\ wrong' \in {wrong, wrong \cup {p}}
    /\ UNCHANGED <<what, at, fileVars, claimed, acts, slipped, spoiled>>

\* The guard is dropped with the command.
Fails(p) == Goes(p, AfterError) /\ claimed' = claimed \ {At(p)}

\* The network fails, or the stream ends early: the partial file goes.
Breaks(p) ==
    /\ phase[p] \in {"get", "stream"} /\ Fails(p)
    /\ part' = IF phase[p] = "stream" THEN [part EXCEPT ![At(p)] = None] ELSE part
    /\ UNCHANGED <<what, at, wrong, disk, acts, slipped, spoiled>>

\* What was under the name goes first; a writer keeps its stream when somebody removes
\* the .part, and then finds nothing to rename.
Rename(p) ==
    LET written == IF part[At(p)] = p /\ p \notin wrong THEN "good" ELSE "bad" IN
    /\ phase[p] = "rename"
    /\ disk' = [disk EXCEPT ![At(p)] = IF part[At(p)] = None THEN None ELSE written]
    /\ part' = [part EXCEPT ![At(p)] = None]
    /\ IF part[At(p)] = None THEN Fails(p) ELSE Goes(p, "check") /\ UNCHANGED claimed
    /\ slipped' = slipped \ {At(p)} /\ wrong' = wrong \ {p}
    /\ UNCHANGED <<what, at, acts, spoiled>>

\* Windows renames nothing over a mapped file: the .part stays.
RenameRefused(p) ==
    /\ phase[p] = "rename" /\ disk[At(p)] # None /\ Fails(p) /\ wrong' = wrong \ {p}
    /\ UNCHANGED <<what, at, fileVars, acts, slipped, spoiled>>

\* A file that fails its check does not stay.
Rejected_Kept(f) == disk
Rejected(f) == [disk EXCEPT ![f] = None]

\* reject_if_not_a_file and verify_sha256, on the file in place.
Check(p) ==
    /\ phase[p] = "check"
    /\ IF disk[At(p)] = "good"
       THEN /\ claimed' = claimed \ {At(p)} /\ UNCHANGED disk
            /\ at' = [at EXCEPT ![p] = @ + 1]
            /\ Goes(p, IF at[p] = NumFiles[what[p]] THEN "idle" ELSE "claim")
       ELSE Fails(p) /\ disk' = Rejected(At(p)) /\ UNCHANGED at
    /\ UNCHANGED <<what, wrong, part, acts, slipped, spoiled>>

\* Nor does Windows remove a mapped file, and the check does not ask: a wrong file that
\* was loaded as soon as it was in place keeps its name.
RemovalRefused(p) ==
    /\ phase[p] = "check" /\ disk[At(p)] = "bad" /\ Fails(p)
    /\ slipped' = slipped \cup {At(p)}
    /\ UNCHANGED <<what, at, wrong, fileVars, acts, spoiled>>

-----------------------------------------------------------------------------
(* remove_skill, and the end of the process. *)

\* list_installed_skills counts every byte in the folder.
Listed(s) == \E f \in FilesOf(s): disk[f] # None \/ part[f] # None

Remove(p, s) ==
    /\ phase[p] = "idle" /\ Listed(s) /\ Act /\ Goes(p, "release")
    /\ what' = [what EXCEPT ![p] = s]
    /\ UNCHANGED <<at, wrong, fileVars, claimed, slipped, spoiled>>

\* A model in use is let go of first.
Release(p) ==
    /\ phase[p] = "release" /\ Goes(p, "remove")
    /\ UNCHANGED <<what, at, wrong, fileVars, claimed, acts, slipped, spoiled>>

\* The folder goes, but for what is kept by a mapped file in it.
RemoveDir(p, kept) ==
    LET s    == what[p]
        gone == FilesOf(s) \ kept
    IN  /\ phase[p] = "remove" /\ Goes(p, "idle")
        /\ disk' = [f \in Files |-> IF f \in gone THEN None ELSE disk[f]]
        /\ part' = [f \in Files |-> IF f \in gone THEN None ELSE part[f]]
        /\ slipped' = slipped \ gone
        /\ spoiled' = IF kept # {} \/ Busy(s, Panels \ {p}) THEN spoiled \cup {s} ELSE spoiled \ {s}
        /\ UNCHANGED <<what, at, wrong, claimed, acts>>

SkillCrash ==
    /\ CanCrash
    /\ phase' = [p \in Panels |-> "idle"] /\ wrong' = {} /\ claimed' = {} /\ Act
    /\ slipped' = slipped \cup {f \in Files: disk[f] = "bad"}
    /\ spoiled' = spoiled \cup {s \in Skills: Busy(s, Panels)}
    /\ UNCHANGED <<what, at, fileVars>>

Fetches(p) == Claim(p) \/ Opens(p) \/ Streamed(p) \/ Breaks(p) \/ Rename(p) \/ Check(p)
Asked(p)   == \E s \in Skills: Install(p, s) \/ Remove(p, s)

-----------------------------------------------------------------------------
(* Properties. *)

\* "A mismatch deletes the file and fails the install": of the files a model is loaded
\* from, one with the wrong content is about to be checked by who put it there, however
\* many panels install and remove, unless a crash came in between or the worker has it
\* mapped when it fails its check.
PlacedChecked ==
    \A f \in Files \ slipped:
        disk[f] = "bad" => \E p \in Panels: phase[p] = "check" /\ At(p) = f

Whole(s) == \A i, j \in 1..NumFiles[s]: disk[<<s, i>>] = None <=> disk[<<s, j>>] = None

\* A skill nobody is busy with has all its files or none, unless a folder was taken away
\* under another panel's install, a crash cut an install short or a mapped file resisted.
SkillWhole == \A s \in Skills \ spoiled: Busy(s, Panels) \/ Whole(s)

-----------------------------------------------------------------------------
(* A claim of the source that the code does not keep; TLC finds a refused  *)
(* install that takes the folder from under another panel.                 *)

\* "ALL-OR-NOTHING. A multi-file skill is only usable with every file", without exception.
AllOrNothing == \A s \in Skills: Busy(s, Panels) \/ Whole(s)
=============================================================================
