------------------------- MODULE MCControlPlaneStore -------------------------
(* Model values and symmetry for the TLC runs of ControlPlaneStore.        *)
EXTENDS ControlPlaneStore

StoreSymmetry ==
  UNION {Permutations(S) : S \in {Editors, Callers, Admins, Requests, Objects, Tenants}}
=============================================================================
