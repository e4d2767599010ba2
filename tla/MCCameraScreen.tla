--------------------------- MODULE MCCameraScreen ---------------------------
(* An instance of CameraScreen for TLC. *)
EXTENDS CameraScreen
=============================================================================
