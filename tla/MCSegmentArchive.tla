-------------------------- MODULE MCSegmentArchive --------------------------
(* Model-checking instance of SegmentArchive: see the .cfg file.            *)
EXTENDS SegmentArchive
=============================================================================
