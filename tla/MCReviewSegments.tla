-------------------------- MODULE MCReviewSegments --------------------------
(* Model-checking instances of ReviewSegments: see the .cfg files.  Neither  *)
(* events nor lanes are told apart by the specification.                     *)
EXTENDS ReviewSegments, TLC

ReviewSymmetry == Permutations(Events) \cup Permutations(Lanes)
=============================================================================
