--------------------------- MODULE MCDispatchToast ---------------------------
(* Instances of DispatchToast for TLC.                                       *)
EXTENDS DispatchToast, TLC

CONSTANTS i1, i2

TwoItems == {i1, i2}
=============================================================================
