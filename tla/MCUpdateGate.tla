---------------------------- MODULE MCUpdateGate ----------------------------
(* Model-checking instances of UpdateGate and the sounds it waits for: see   *)
(* the .cfg files.                                                           *)
EXTENDS UpdateGate

OneMic == [c \in Cams |-> CHOOSE m \in Mics: TRUE]
=============================================================================
