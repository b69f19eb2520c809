----------------------------- MODULE ClipStore -----------------------------
(***************************************************************************)
(* What an event's owner may rely on with keep_event_clips: as long as the *)
(* event is there, its moments can be played, first from the footage and   *)
(* later from a clip that holds the first Cap segments of it; a clip once  *)
(* remembered is neither replaced nor forgotten.  The one excuse for       *)
(* cutting footage without a clip is an export that was due and missed.    *)
(* EventClip implements it.                                                *)
(***************************************************************************)
EXTENDS Naturals

CONSTANT Cap    \* the segments a clip holds at most

VARIABLES
    there,      \* the event has not been deleted
    recorded,   \* segments of it that were recorded
    footage,    \* their recordings are still there
    kept,       \* segments in the remembered clip, 0 when none is
    missed      \* an export due before the cut gave no clip

vars == <<there, recorded, footage, kept, missed>>

Init == there = TRUE /\ recorded = 0 /\ footage = TRUE /\ kept = 0 /\ missed = FALSE

Held(n) == IF n < Cap THEN n ELSE Cap

\* Recording is over before a clip is remembered.
Record ==
    /\ there /\ footage /\ kept = 0
    /\ recorded' = recorded + 1 /\ UNCHANGED <<there, footage, kept, missed>>

\* After the cut only an export that was under way while another missed.
Remember ==
    /\ there /\ (footage \/ missed) /\ kept = 0 /\ recorded > 0
    /\ kept' = Held(recorded) /\ UNCHANGED <<there, recorded, footage, missed>>

Miss ==
    /\ there => kept = 0
    /\ missed' = TRUE /\ UNCHANGED <<there, recorded, footage, kept>>

\* Not before the clip has what it can hold.
Cut ==
    /\ footage /\ (there => kept = Held(recorded) \/ missed)
    /\ footage' = FALSE /\ UNCHANGED <<there, recorded, kept, missed>>

Delete ==
    /\ there
    /\ there' = FALSE /\ kept' = 0 /\ UNCHANGED <<recorded, footage, missed>>

Next == Record \/ Remember \/ Miss \/ Cut \/ Delete

Spec == Init /\ [][Next]_vars
=============================================================================
