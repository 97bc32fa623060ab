---------------------------- MODULE MCTabSession ----------------------------
(* Instances of TabSession for TLC.                                          *)
EXTENDS TabSession, TLC

CONSTANTS t1, c1, c2

OneToken == {t1}
TwoChecks == {c1, c2}
=============================================================================
