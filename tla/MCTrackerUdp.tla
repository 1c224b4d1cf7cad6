---------------------------- MODULE MCTrackerUdp ----------------------------
(* Requests with a callback, and one without.                              *)
EXTENDS TrackerUdp, TLC

CONSTANTS r1, r2, s1
=============================================================================
