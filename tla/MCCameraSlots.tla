--------------------------- MODULE MCCameraSlots ----------------------------
(* Instances of CameraSlots.                                               *)
EXTENDS CameraSlots
=============================================================================
