--------------------------- MODULE MCCameraFanout ---------------------------
(* Instances of CameraFanout for TLC: two viewers of one printer's camera.   *)
EXTENDS CameraFanout, TLC

CONSTANTS v1, v2, s1

TwoViewers == {v1, v2}
OneStopper == {s1}
=============================================================================
