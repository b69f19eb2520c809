---------------------------- MODULE MCMotionEvent ----------------------------
(* Model-checking instances of MotionEvent: see the .cfg files.  Event ids   *)
(* are interchangeable, which the safety runs use; the liveness runs do not. *)
EXTENDS MotionEvent, TLC

EventSymmetry == Permutations(Events)
=============================================================================
