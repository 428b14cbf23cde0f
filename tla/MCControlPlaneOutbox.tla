----------------------- MODULE MCControlPlaneOutbox -----------------------
(* Model values for the TLC run of ControlPlaneOutbox.                     *)
EXTENDS ControlPlaneOutbox

CONSTANTS w1, w2
=============================================================================
