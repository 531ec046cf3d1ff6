---------------------------- MODULE MCCameraNode ----------------------------
EXTENDS CameraNode
=============================================================================
