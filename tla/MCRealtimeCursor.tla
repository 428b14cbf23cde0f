-------------------------- MODULE MCRealtimeCursor --------------------------
(* Model values for the TLC run of RealtimeCursor.                         *)
EXTENDS RealtimeCursor, TLC

CONSTANTS p1, p2
=============================================================================
