---------------------------- MODULE StudioSession ----------------------------
(***************************************************************************)
(* A governed Studio session (packages/studio) beside other writers of the *)
(* live document: a request asks the server for a proposal                 *)
(* (GovernedGeneration), the proposal is evaluated (PatchEvaluation),      *)
(* reviewed if it must be, previewed, and applied.                         *)
(*                                                                         *)
(* A step is what runs between two awaits of one operation.  Every call of *)
(* the session takes the next operation number, so operations overlap: a   *)
(* request, an approval or an application is superseded, cancelled or      *)
(* disposed of at any of its awaits, and the live document changes there.  *)
(* Another guarded writer is commitUiPatchProposal (packages/ai).          *)
(***************************************************************************)
EXTENDS GovernedGeneration

CONSTANTS
  Initial,        \* the live document at first
  Edits,          \* documents that other writers make live
  MaxOperations,  \* bound: calls of the session; those in Requests may be requests
  MaxEdits,       \* bound: edits by others
  HostProposals   \* proposals the host commits by itself, one per behaviour

Operations == 1..MaxOperations

ASSUME RequestsAssumption == MaxOperations \in Nat /\ Requests \subseteq Operations
ASSUME MaxEditsAssumption == MaxEdits \in Nat
\* What the proposal schema guarantees, and that a proposal is made for a document.
ASSUME ProposalsAssumption ==
  \A p \in Proposals \cup HostProposals :
    /\ DOMAIN p.baseHash = MutablePaths
    /\ p.operations \in Seq(Range(p.operations))
    /\ p.risk \in Risks

VARIABLES
  live,      \* application.authored
  edits,     \* number of edits by others
  session,   \* the fields of UnifoldStudioSession and the state of its machine
  operations,\* operation number -> where its promise is
  open,      \* external: operations whose preview is open
  commit,    \* a commitUiPatchProposal call
  approved   \* history: requests whose proposal the user has approved

vars == <<generations, ledger, live, edits, session, operations, open, commit, approved>>

NoProposal == [operations |-> << >>]
NoDocument == [revision |-> 0]
NoPreview == 0
NoOperation == [stage |-> "none"]
\* A proposal with the request that brought it, and its preview: the document it
\* was made for, which the diff is based on, and the candidate.
NoData == [proposal |-> NoProposal, request |-> 0, base |-> NoDocument, candidate |-> NoDocument]

Init ==
  /\ GenerationsInit
  /\ live = Initial
  /\ edits = 0
  /\ session = [state |-> "idle", operation |-> 0, approval |-> FALSE, data |-> NoData,
                preview |-> NoPreview]
  /\ operations = [o \in Operations |-> NoOperation]
  /\ open = {}
  /\ commit = NoOperation
  /\ approved = {}

Current(o) == session.operation = o /\ session.state # "disposed"

\* The state machine of the session: an event no transition is declared for is
\* ignored.
Sent(state, event) ==
  CASE state = "disposed" -> state
    [] event = "dispose" -> "disposed"
    [] event = "failed" -> "failed"
    [] event = "request" -> "generating"
    [] event = "previewed" /\ state = "generating" -> "preview-ready"
    [] event = "review" /\ state = "generating" -> "review-required"
    [] event = "apply" /\ state = "preview-ready" -> "applying"
    [] event = "applied" /\ state = "applying" -> "applied"
    [] OTHER -> state

\* The session moves on by event, with changes to its fields.
Moved(s, event) == [s EXCEPT !.state = Sent(@, event)]
WithoutPreview(s) == [s EXCEPT !.preview = NoPreview]
WithoutData(s) == [s EXCEPT !.data = NoData]

\* fail: the preview is disposed of and the data forgotten.
Failed(s) == Moved(WithoutData(WithoutPreview(s)), "failed")

Goes(o, operation) == operations' = [operations EXCEPT ![o] = operation]
Ends(o) == Goes(o, [stage |-> "done"])

\* The session fails at the hands of its current operation o, which leaves the
\* previews in S open.
Fails(o, S) ==
  /\ session' = Failed(session)
  /\ open' = S \ {session.preview}
  /\ Ends(o)

\* Mutation of FinishFailure: the session is not told.
FinishFailureSilently(o) == Ends(o) /\ UNCHANGED <<session, open>>

\* finishFailure: only the current operation fails the session.
FinishFailure(o) ==
  IF Current(o) THEN Fails(o, open)
  ELSE Ends(o) /\ UNCHANGED <<session, open>>

\* What the session only reads.
outside == <<generations, ledger, live, edits, commit, approved>>

-----------------------------------------------------------------------------
(* The calls of the session.                                               *)

NextOperation == session.operation + 1
Callable == session.state # "disposed" /\ session.operation < MaxOperations

Request ==
  /\ Callable /\ NextOperation \in Requests
  /\ session' = Moved([WithoutData(WithoutPreview(session)) EXCEPT
                         !.approval = FALSE, !.operation = NextOperation], "request")
  /\ open' = open \ {session.preview}
  /\ Goes(NextOperation, [stage |-> "proposing", base |-> live])
  /\ UNCHANGED outside

Approve ==
  /\ Callable
  /\ session.state = "review-required"
  /\ session' = Moved([session EXCEPT !.approval = TRUE, !.operation = NextOperation], "request")
  /\ Goes(NextOperation, [stage |-> "evaluating", base |-> live, proposal |-> session.data.proposal,
                  request |-> session.data.request, approval |-> TRUE])
  /\ approved' = approved \cup {session.data.request}
  /\ UNCHANGED <<generations, ledger, live, edits, commit, open>>

Apply ==
  /\ Callable
  /\ session.state = "preview-ready"
  /\ session' = Moved([session EXCEPT !.operation = NextOperation], "apply")
  /\ Goes(NextOperation, [stage |-> "revalidating", base |-> live, proposal |-> session.data.proposal,
                  approval |-> session.approval])
  /\ UNCHANGED <<outside, open>>

Cancel ==
  /\ Callable
  /\ session' = Failed([session EXCEPT !.operation = NextOperation])
  /\ open' = open \ {session.preview}
  /\ UNCHANGED <<outside, operations>>

Dispose ==
  /\ Callable
  /\ session' = Moved(WithoutPreview([session EXCEPT !.operation = NextOperation]), "dispose")
  /\ open' = open \ {session.preview}
  /\ UNCHANGED <<outside, operations>>

-----------------------------------------------------------------------------
(* The awaits of an operation.                                             *)

\* propose() resolves with what the server answered, or rejects.
ProposalArrives(o) ==
  /\ operations[o].stage = "proposing"
  /\ \/ FinishFailure(o)
     \/ /\ generations[o].stage = "succeeded"
        /\ IF Current(o)
           THEN Goes(o, [stage |-> "evaluating", base |-> operations[o].base, request |-> o,
                         proposal |-> generations[o].proposal, approval |-> FALSE])
           ELSE Ends(o)
        /\ UNCHANGED <<session, open>>
  /\ UNCHANGED outside

Review(o) ==
  /\ session' = Moved([session EXCEPT !.data = [NoData EXCEPT
                         !.proposal = operations[o].proposal,
                         !.request = operations[o].request]], "review")
  /\ Ends(o)
  /\ UNCHANGED open

\* finishEvaluation of a request or an approval, with the first part of openPreview.
FinishEvaluation(o) ==
  LET operation == operations[o]
      evaluation == Evaluate(operation.base, operation.proposal, operation.approval)
  IN  \/ evaluation = ReviewRequired /\ Review(o)
      \/ evaluation = Rejected /\ Fails(o, open)
      \/ evaluation.status = "accepted" /\ live # operation.base /\ Fails(o, open)
      \/ /\ evaluation.status = "accepted" /\ live = operation.base
         /\ Goes(o, [stage |-> "diffing", base |-> operation.base, request |-> operation.request,
                     proposal |-> operation.proposal, candidate |-> evaluation.candidate])
         /\ UNCHANGED <<session, open>>

\* evaluate() resolves, or throws.
Evaluated(o) ==
  /\ operations[o].stage = "evaluating"
  /\ \/ FinishFailure(o)
     \/ Current(o) /\ FinishEvaluation(o)
     \/ ~Current(o) /\ Ends(o) /\ UNCHANGED <<session, open>>
  /\ UNCHANGED outside

\* The diff is made and the preview opened, whatever happened meanwhile.
OpenPreview(o) ==
  /\ operations[o].stage = "diffing"
  /\ \/ FinishFailure(o)
     \/ /\ Goes(o, [operations[o] EXCEPT !.stage = "opening"])
        /\ open' = open \cup {o}
        /\ UNCHANGED session
  /\ UNCHANGED outside

\* Mutation of InstallPreview: a preview that comes too late is left alone.
InstallPreviewOrLeave(o) ==
  /\ operations[o].stage = "opening"
  /\ LET operation == operations[o]
     IN  \/ Current(o) /\ Fails(o, open \ {o})
         \/ ~Current(o) /\ Ends(o) /\ UNCHANGED <<session, open>>
         \/ /\ Current(o) /\ live = operation.base
            /\ session' = Moved([session EXCEPT !.preview = o,
                 !.data = [proposal |-> operation.proposal, request |-> operation.request,
                           base |-> operation.base, candidate |-> operation.candidate]],
                            "previewed")
            /\ Ends(o)
            /\ UNCHANGED open
  /\ UNCHANGED outside

\* installPreview, or the failure of an asynchronous preview.open().
InstallPreview(o) ==
  /\ operations[o].stage = "opening"
  /\ LET operation == operations[o]
         closed == open \ {o}
     IN  \/ Current(o) /\ Fails(o, closed)
         \/ ~Current(o) /\ Ends(o) /\ open' = closed /\ UNCHANGED session
         \/ /\ Current(o) /\ live = operation.base
            /\ session' = Moved([session EXCEPT !.preview = o,
                 !.data = [proposal |-> operation.proposal, request |-> operation.request,
                           base |-> operation.base, candidate |-> operation.candidate]],
                            "previewed")
            /\ Ends(o)
            /\ UNCHANGED open
  /\ UNCHANGED outside

\* The application takes a candidate, or rejects it unchanged.
ApplyCandidate(o, candidate) ==
  \/ Fails(o, open) /\ UNCHANGED live
  \/ /\ live' = candidate
     /\ session' = Moved(WithoutPreview([session EXCEPT !.data.candidate = candidate]), "applied")
     /\ open' = open \ {session.preview}
     /\ Ends(o)

\* Mutation of ApplyEvaluation: the live document is not compared once more.
ApplyStaleEvaluation(o) ==
  LET evaluation == Evaluate(operations[o].base, operations[o].proposal, operations[o].approval)
  IN  \/ evaluation.status # "accepted" /\ Fails(o, open) /\ UNCHANGED live
      \/ evaluation.status = "accepted" /\ ApplyCandidate(o, evaluation.candidate)

\* applyEvaluation, applyCandidate and applyJsonCandidate.
ApplyEvaluation(o) ==
  LET evaluation == Evaluate(operations[o].base, operations[o].proposal, operations[o].approval)
  IN  \/ /\ evaluation.status # "accepted" \/ live # operations[o].base
         /\ Fails(o, open)
         /\ UNCHANGED live
      \/ /\ evaluation.status = "accepted" /\ live = operations[o].base
         /\ ApplyCandidate(o, evaluation.candidate)

\* The evaluation before an application resolves, or throws.
Revalidated(o) ==
  /\ operations[o].stage = "revalidating"
  /\ \/ FinishFailure(o) /\ UNCHANGED live
     \/ Current(o) /\ ApplyEvaluation(o)
     \/ ~Current(o) /\ Ends(o) /\ UNCHANGED <<session, open, live>>
  /\ UNCHANGED <<generations, ledger, edits, commit, approved>>

-----------------------------------------------------------------------------
(* Other writers of the live document.                                     *)

Edit(document) ==
  /\ edits < MaxEdits
  /\ live # document
  /\ live' = document
  /\ edits' = edits + 1
  /\ UNCHANGED <<generations, ledger, session, operations, open, commit, approved>>

\* commitUiPatchProposal, up to its evaluation.
StartCommit(proposal, approval) ==
  /\ commit = NoOperation
  /\ commit' = [stage |-> "evaluating", base |-> live, proposal |-> proposal, approval |-> approval]
  /\ UNCHANGED <<generations, ledger, live, edits, session, operations, open, approved>>

FinishCommit ==
  /\ commit.stage = "evaluating"
  /\ LET evaluation == Evaluate(commit.base, commit.proposal, commit.approval)
     IN  \/ /\ evaluation.status = "accepted" /\ live = commit.base
            /\ live' = evaluation.candidate
            /\ commit' = [commit EXCEPT !.stage = "applied"]
         \/ /\ commit' = [stage |-> "refused"]
            /\ UNCHANGED live
  /\ UNCHANGED <<generations, ledger, edits, session, operations, open, approved>>

-----------------------------------------------------------------------------
\* The server works on a request it was sent, also when nobody waits any more.
Serves(r) ==
  /\ operations[r].stage = "proposing" \/ generations[r] # NotStarted
  /\ Serve(r)
  /\ UNCHANGED <<live, edits, session, operations, open, commit, approved>>

Proceed(o) ==
  \/ ProposalArrives(o) \/ Evaluated(o) \/ OpenPreview(o) \/ InstallPreview(o) \/ Revalidated(o)

Next ==
  \/ Request \/ Approve \/ Apply \/ Cancel \/ Dispose
  \/ (\E r \in Requests : Serves(r)) \/ (\E o \in Operations : Proceed(o))
  \/ \E d \in Edits : Edit(d)
  \/ \E p \in HostProposals, approval \in BOOLEAN : StartCommit(p, approval)
  \/ FinishCommit

Spec == Init /\ [][Next]_vars

(* The ports of the session answer; nothing is assumed of the server, whose *)
(* client fails if it does not, of the user or of other writers.           *)
FairSpec == Spec /\ \A o \in Operations : WF_vars(Proceed(o))

-----------------------------------------------------------------------------
Documents == {Initial} \cup Edits
               \cup UNION {Patched(p.baseHash, p.operations) : p \in Proposals \cup HostProposals}
States == {"idle", "generating", "review-required", "preview-ready", "applying", "applied",
           "failed", "disposed"}

TypeOK ==
  /\ live \in Documents
  /\ edits \in 0..MaxEdits
  /\ session \in [state : States, operation : 0..MaxOperations, approval : BOOLEAN,
                  data : [proposal : Proposals \cup {NoProposal}, request : Requests \cup {0},
                          base : Documents \cup {NoDocument},
                          candidate : Documents \cup {NoDocument}],
                  preview : Operations \cup {NoPreview}]
  /\ \A o \in Operations : operations[o].stage \in
       {"none", "proposing", "evaluating", "diffing", "opening", "revalidating", "done"}
  /\ open \subseteq Operations
  /\ approved \subseteq Requests

(* Every preview that is open is the session's own or is about to be       *)
(* installed by the operation that opened it, and the session holds one    *)
(* exactly while the user may apply it: superseded, cancelled and failed   *)
(* work leaves none behind, whichever await it was in.  What may be        *)
(* approved or applied is there (requireProposal throws after apply() has  *)
(* moved the state machine).                                               *)
PreviewsAccounted ==
  /\ open = ({session.preview} \ {NoPreview}) \cup {o \in Operations : operations[o].stage = "opening"}
  /\ session.preview # NoPreview <=> session.state \in {"preview-ready", "applying"}
  /\ session.state \in {"review-required", "preview-ready", "applying"} =>
       session.data.proposal # NoProposal
  /\ session.state \in {"preview-ready", "applying"} => session.data.candidate # NoDocument

StudioApplies == session.state = "applying" /\ session'.state = "applied"
HostApplies == commit.stage = "evaluating" /\ commit'.stage = "applied"

(* A guarded change of the live document: it keeps every stable ID, and    *)
(* changes more than its presentation only if somebody approved.           *)
Guarded(approval) ==
  /\ live.nodes \subseteq live'.nodes
  /\ live'.action # live.action \/ live'.nodes # live.nodes => approval

(* The session and the host's commit change the live document only into    *)
(* the candidate of a proposal made for exactly the document they replace, *)
(* so no edit is overwritten.  The session's is the one that was previewed *)
(* against that document, was paid for, and was approved by the user for   *)
(* this request unless it is presentation only.                            *)
(* docs/ai-and-export.md: "a synchronous final canonical comparison        *)
(* prevents a live edit made during async evaluation from being            *)
(* overwritten", "interaction, behavior, data, and external-effect risks   *)
(* require explicit approval".                                             *)
AppliedAsReviewed ==
  [][/\ StudioApplies =>
          LET request == session.data.request
          IN  /\ live = session.data.base /\ live' = session.data.candidate
              /\ generations[request].stage = "succeeded"
              /\ ledger[request].state = "completed"
              /\ Guarded(request \in approved)
     /\ HostApplies => live = commit.proposal.baseHash /\ Guarded(commit.approval)
     /\ live' # live => StudioApplies \/ HostApplies \/ edits' # edits]_vars

(* The session never stays busy: whatever its ports answer, and whatever   *)
(* was superseded, it ends in a state the user can go on from.             *)
BusyEnds ==
  LET busy == session.state \in {"generating", "applying"}
  IN  busy ~> ~busy
=============================================================================
