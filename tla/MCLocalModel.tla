---------------------------- MODULE MCLocalModel ----------------------------
(* Model-checking instances of LocalModel and the skills beneath it: see the *)
(* .cfg files.                                                               *)
EXTENDS LocalModel, TLC

Projector     == [s \in Skills |-> IF s = VisionTier THEN 2 ELSE 1]
ModelSymmetry == Permutations(Panels) \cup Permutations(Requests)
=============================================================================
