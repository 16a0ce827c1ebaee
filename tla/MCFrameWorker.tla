--------------------------- MODULE MCFrameWorker ----------------------------
(* Instances of FrameWorker for TLC. *)
EXTENDS FrameWorker
=============================================================================
