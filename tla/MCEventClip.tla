----------------------------- MODULE MCEventClip ----------------------------
(* Model-checking instances of EventClip: see the .cfg files.  The viewers   *)
(* are interchangeable.                                                      *)
EXTENDS EventClip, TLC

ViewerSymmetry == Permutations(Viewers)
=============================================================================
