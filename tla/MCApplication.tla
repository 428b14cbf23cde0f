--------------------------- MODULE MCApplication ---------------------------
\* Application for TLC: two documents, the second without one of the controls
\* and with a machine of its own.
EXTENDS Application

CONSTANTS a, b, wide, narrow

MCNodesOf == [d \in {wide, narrow} |-> IF d = wide THEN {a, b} ELSE {a}]
MCMachineOf == [d \in {wide, narrow} |-> d]
=============================================================================
