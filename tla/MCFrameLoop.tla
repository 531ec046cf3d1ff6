---------------------------- MODULE MCFrameLoop -----------------------------
(* Instances of FrameLoop.                                                 *)
EXTENDS FrameLoop
=============================================================================
