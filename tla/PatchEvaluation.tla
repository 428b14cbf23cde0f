--------------------------- MODULE PatchEvaluation ---------------------------
(***************************************************************************)
(* The guarded evaluation of a UI patch proposal (packages/ai/src/         *)
(* proposal.ts, policy.ts and risk.ts): whether a proposal is meant for a  *)
(* document, what it is allowed to touch, what it makes of the document,   *)
(* and whether a person has to approve it first.                           *)
(*                                                                         *)
(* A document has a revision, a presentation and a behaviour part, and the *)
(* stable IDs of its nodes.  Its RFC 8785 hash stands for the document.    *)
(***************************************************************************)
EXTENDS Integers, SequencesExt

\* Paths an operation may name: "nodes" is the subtree that holds the nodes and
\* their IDs, "id" an ID itself, "contract" anything outside the mutable roots.
MutablePaths == {"revision", "label", "action", "nodes"}
Paths == MutablePaths \cup {"id", "contract"}

\* Ranks of UiPatchRisk, the lowest of which needs no approval.
Presentation == 0
Behavior == 2
Risks == 0..4

Document(revision, label, action, nodes) ==
  [revision |-> revision, label |-> label, action |-> action, nodes |-> nodes]

\* A label that does not compile.
Invalid == "invalid"

-----------------------------------------------------------------------------
(* The policy.                                                             *)

AllowedOperation(operation) ==
  /\ operation.op \in {"test", "add", "remove", "replace"}
  /\ operation.path \in MutablePaths

\* The first operation tests the base revision, and one replaces it by another.
GuardsRevision(proposal) ==
  /\ proposal.operations # << >>
  /\ Head(proposal.operations) =
       [op |-> "test", path |-> "revision", value |-> proposal.baseRevision]
  /\ \E operation \in Range(proposal.operations) :
       /\ operation.op = "replace" /\ operation.path = "revision"
       /\ operation.value # proposal.baseRevision

MeantFor(proposal, document) ==
  /\ proposal.baseRevision = document.revision
  /\ proposal.baseHash = document

OperationRisk(operation) ==
  IF operation.op = "test" \/ operation.path \in {"revision", "label"}
  THEN Presentation ELSE Behavior

\* The risk the model declares can be raised by what the operations touch,
\* never lowered.
EffectiveRisk(proposal) ==
  Max({proposal.risk} \cup {OperationRisk(o) : o \in Range(proposal.operations)})

-----------------------------------------------------------------------------
(* The candidate.                                                          *)

TestHolds(operation, document) ==
  operation.op = "test" => document[operation.path] = operation.value

\* The value of an operation is what it leaves at its path.
Applied(operation, document) ==
  IF operation.op = "test" THEN document
  ELSE [document EXCEPT ![operation.path] = operation.value]

\* What the operations make of the document, in their order: nothing if one fails.
Patched(document, operations) ==
  FoldLeft(LAMBDA made, o : {Applied(o, d) : d \in {e \in made : TestHolds(o, e)}},
           {document}, operations)

\* The compiler and the requested checks take it.
Compiles(document) == document.label # Invalid

Rejected == [status |-> "rejected"]
ReviewRequired == [status |-> "review-required"]
Accepted(candidate) == [status |-> "accepted", candidate |-> candidate]

Evaluate(document, proposal, approved) ==
  LET fit == {c \in Patched(document, proposal.operations) :
                document.nodes \subseteq c.nodes /\ Compiles(c)}
  IN  IF \/ \E o \in Range(proposal.operations) : ~AllowedOperation(o)
         \/ ~GuardsRevision(proposal) \/ ~MeantFor(proposal, document) \/ fit = {}
      THEN Rejected
      ELSE IF EffectiveRisk(proposal) # Presentation /\ ~approved THEN ReviewRequired
      ELSE Accepted(CHOOSE c \in fit : TRUE)
=============================================================================
