----------------------------- MODULE MCSliceJobs -----------------------------
(* Instances of SliceJobs for TLC.                                           *)
EXTENDS SliceJobs, TLC

CONSTANTS benchy, bracket

TwoWorks == {benchy, bracket}
=============================================================================
