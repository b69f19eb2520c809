----------------------------- MODULE MCCapture -----------------------------
(* Model-checking instances of Capture: see the .cfg files.                *)
EXTENDS Capture
=============================================================================
