--------------------------- MODULE MCStudioSession ---------------------------
(* StudioSession for TLC: two base documents and proposals of every kind.  *)
EXTENDS StudioSession

Base == Document(1, "old", "submit", {"n"})
Edited == Document(2, "typed", "submit", {"n"})

\* A proposal for a document that keeps the policy's form: a test of the revision,
\* its replacement, and one change.
Proposal(base, revision, path, value, risk) ==
  [baseHash |-> base, baseRevision |-> base.revision, risk |-> risk,
   operations |-> <<[op |-> "test", path |-> "revision", value |-> base.revision],
                    [op |-> "replace", path |-> "revision", value |-> revision],
                    [op |-> "replace", path |-> path, value |-> value]>>]

Relabel == Proposal(Base, 3, "label", "new", Presentation)

\* Behaviour, which the model declares as presentation.
Rewire == Proposal(Base, 4, "action", "delete", Presentation)

\* A subtree without a node it had.
Prune == Proposal(Base, 5, "nodes", {}, Behavior)

RelabelEdited == Proposal(Edited, 6, "label", "new", Presentation)

MCProposals == {Relabel, Rewire, Prune, RelabelEdited}
MCHostProposals == {Rewire}
MCEdits == {Edited}
=============================================================================
