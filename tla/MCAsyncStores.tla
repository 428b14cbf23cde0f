---------------------------- MODULE MCAsyncStores ----------------------------
(* Model values for the TLC runs of AsyncStores.                           *)
EXTENDS AsyncStores

CONSTANTS p1, p2
=============================================================================
