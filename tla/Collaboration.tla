---------------------------- MODULE Collaboration ----------------------------
(* The reference collaboration service of packages/collaboration:          *)
(* ReferenceCollaborationService.execute with its six operations,          *)
(* createBranch, the bounded event log and a host that follows it.         *)
(*                                                                         *)
(* A revision, and the candidate it comes from, is named by its sequence   *)
(* number.  A request refused before it reads or writes the state          *)
(* (malformed, not authorised, a repeated key, an absent target) changes   *)
(* nothing and is a stuttering step.                                       *)
EXTENDS CollaborationDocuments

CONSTANTS
  Actors,          \* actor identities, all of the service's tenant
  Capabilities,    \* [Actors -> SUBSET of the operations]
  Proposals,       \* proposal ids
  Keys,            \* idempotency keys
  Branches,        \* branch ids; "main" is one
  BranchPolicies,  \* policies createBranch may be given
  Genesis,         \* [policy, document] records the service may start with
  Patches,         \* sequences of operations
  ApprovalTtl, PresenceTtl,  \* in ticks
  EventCapacity,   \* 10 to 10,000 in the code
  MaxRevision, MaxTime, MaxComments, MaxEvents  \* bounds of the exploration

None == 0

\* normalizeBranchPolicy, validPolicy: a protected branch requires an approval.
Policies == {p \in [protected : BOOLEAN, requiredApprovals : 0..Cardinality(Actors),
                    reviewerIds : SUBSET Actors, separateAuthorAndReviewer : BOOLEAN] :
               p.protected => p.requiredApprovals > 0}

ASSUME CollaborationAssumption ==
  /\ IsFiniteSet(Actors)
  /\ "main" \in Branches
  /\ Capabilities \in [Actors -> SUBSET {"propose", "approve", "comment", "publish", "undo", "presence"}]
  /\ BranchPolicies \subseteq Policies
  /\ \A g \in Genesis : g.policy \in Policies /\ g.document \in Documents
  /\ \A patch \in Patches :
       /\ patch \in Seq(Range(patch))
       /\ \A o \in Range(patch) :
            o.op \in OperationTypes /\ IsPointer(o.path) /\ (o.from = <<>> \/ IsPointer(o.from))
  /\ EventCapacity \in Nat \ {0}
  /\ ApprovalTtl \in Nat /\ PresenceTtl \in Nat /\ MaxTime \in Nat
  /\ MaxRevision \in Nat \ {0} /\ MaxComments \in Nat /\ MaxEvents \in Nat

VARIABLES
  sequence,     \* #revisionSequence
  revisions,    \* committed revisions
  branches,     \* existing branches
  proposals,    \* recorded proposals
  candidates,   \* candidates of proposals that are not committed
  idempotency,  \* answers by <<actor, operation, key>>
  presence,     \* expiry by <<branch, actor>>
  events,       \* the retained events, oldest first
  latest,       \* #latestSequence of the log
  now,          \* the clock
  follower      \* a host following the log: its cursor and its view of the branches

vars == <<sequence, revisions, branches, proposals, candidates, idempotency, presence,
          events, latest, now, follower>>
historyVars == <<sequence, revisions, branches>>
reviewVars == <<proposals, candidates>>
logVars == <<events, latest>>

Put(f, key, value) == [k \in DOMAIN f \cup {key} |-> IF k = key THEN value ELSE f[k]]
Drop(f, key) == [k \in DOMAIN f \ {key} |-> f[k]]
May(actor, operation) == operation \in Capabilities[actor]

-----------------------------------------------------------------------------
(* The tree of revisions.                                                  *)

\* What a walk along parentRevision from r meets.
Ancestry(r) ==
  LET walk[s \in DOMAIN revisions] ==
        {s} \cup (IF revisions[s].parent = None THEN {} ELSE walk[revisions[s].parent])
  IN walk[r]

HeadOf(branch) == branches[branch].head

\* intervening: the revisions between a base and a head, defined for an ancestor only.
IsAncestor(base, head) == base \in Ancestry(head)
Intervening(head, base) == Ancestry(head) \ Ancestry(base)

-----------------------------------------------------------------------------
(* The event log.                                                          *)

Event(type, branch, revision) == [type |-> type, branch |-> branch, revision |-> revision]

\* CollaborationEventLog.append of each event in turn: past the capacity the
\* oldest events are dropped.
Retained(log) == IF Len(log) <= EventCapacity THEN log
                 ELSE SubSeq(log, Len(log) - EventCapacity + 1, Len(log))
Emit(emitted) ==
  /\ latest + Len(emitted) <= MaxEvents
  /\ events' = Retained(events \o emitted)
  /\ latest' = latest + Len(emitted)

\* oldestAvailableSequence
OldestAvailable == latest - Len(events) + 1

\* Mutant: the gap is noticed one event late.
GapLate(cursor) == cursor < OldestAvailable - 2

\* resume: a cursor before the retained window is told of the gap, any other
\* receives every retained event after it.
Gap(cursor) == cursor < OldestAvailable - 1
EventsAfter(cursor) ==
  LET missed == latest - Len(events)
  IN SubSeq(events, IF cursor < missed THEN 1 ELSE cursor - missed + 1, Len(events))

-----------------------------------------------------------------------------
(* proposal.submit                                                         *)

ProposalKey(actor, key) == <<actor, "propose", key>>
UndoKey(actor, key) == <<actor, "undo", key>>

\* Mutant: an answer that asks for a review is not remembered.
RecordAccepted(entry, status, revision) ==
  idempotency' = IF status = "reviewRequired" THEN idempotency
                 ELSE Put(idempotency, entry, [status |-> status, revision |-> revision])

\* recordIdempotency: the answer, with the revision it names.
Record(entry, status, revision) ==
  idempotency' = Put(idempotency, entry, [status |-> status, revision |-> revision])

\* mutableProposal, proposalExpiry
NewProposal(actor, branch, base, candidate) ==
  [author |-> actor, base |-> base, branch |-> branch, candidate |-> candidate.revision,
   approvals |-> {}, comments |-> 0, rebased |-> base # candidate.parent, status |-> "pending",
   expires |-> IF branches[branch].policy.protected THEN now + ApprovalTtl ELSE None]

\* pendingCandidate
Candidate(branch, patch, document) ==
  [branch |-> branch, parent |-> HeadOf(branch), revision |-> sequence + 1, document |-> document,
   changedPaths |-> ChangedPaths(patch)]

\* commit: the candidate becomes a revision.
Revision(candidate, proposal, compensates) ==
  [branch |-> candidate.branch, parent |-> candidate.parent, document |-> candidate.document,
   changedPaths |-> candidate.changedPaths, proposal |-> proposal, compensates |-> compensates]

\* commitProposal without its events: the head moves to the candidate.
CommitHistory(candidate, proposal) ==
  /\ revisions' = Put(revisions, candidate.revision, Revision(candidate, {proposal}, None))
  /\ branches' = [branches EXCEPT ![candidate.branch].head = candidate.revision]

\* recordProposal: on a protected branch the proposal waits for its reviews,
\* elsewhere it is committed at once.
RecordProposal(actor, id, key, base, candidate) ==
  LET proposal == NewProposal(actor, candidate.branch, base, candidate)
      created == Event("proposalCreated", candidate.branch, candidate.revision)
      committed == Event("revisionCommitted", candidate.branch, candidate.revision)
  IN IF branches[candidate.branch].policy.protected
     THEN /\ proposals' = Put(proposals, id, proposal)
          /\ candidates' = Put(candidates, id, candidate)
          /\ Record(ProposalKey(actor, key), "reviewRequired", candidate.revision)
          /\ Emit(<<created>>)
          /\ UNCHANGED <<revisions, branches>>
     ELSE /\ proposals' = Put(proposals, id, [proposal EXCEPT !.status = "committed"])
          /\ CommitHistory(candidate, id)
          /\ Record(ProposalKey(actor, key), "accepted", candidate.revision)
          /\ Emit(<<created, committed>>)
          /\ UNCHANGED candidates

\* The conflicts of a patch made against `base` with what the branch got since.
SubmitConflicts(branch, base, patch) ==
  CollaborationConflicts(patch, UNION {revisions[r].changedPaths : r \in Intervening(HeadOf(branch), base)})

\* submitProposal of a new proposal under a new key.  The identity is taken
\* before the patch is applied to the head's document, so a patch that fails
\* still uses a sequence number up.
SubmitProposal(actor, id, branch, base, patch, key) ==
  /\ May(actor, "propose")
  /\ ProposalKey(actor, key) \notin DOMAIN idempotency
  /\ branch \in DOMAIN branches
  /\ id \notin DOMAIN proposals
  /\ IsAncestor(base, HeadOf(branch))
  /\ SubmitConflicts(branch, base, patch) = {}
  /\ sequence < MaxRevision
  /\ sequence' = sequence + 1
  /\ LET results == ApplyCollaborationPatch(revisions[HeadOf(branch)].document, patch)
     IN \/ /\ results = {}
           /\ Record(ProposalKey(actor, key), "invalid", None)
           /\ UNCHANGED <<revisions, branches, proposals, candidates, events, latest>>
        \/ \E document \in results :
             RecordProposal(actor, id, key, base, Candidate(branch, patch, document))
  /\ UNCHANGED <<presence, now, follower>>

\* submitProposal refused over a used proposal id, a base that is no ancestor of
\* the head, or a conflict: the refusal is remembered under the key like any
\* other answer.
RefusedBases(branch) ==
  {base \in DOMAIN revisions :
     IsAncestor(base, HeadOf(branch)) => \E patch \in Patches : SubmitConflicts(branch, base, patch) # {}}
RefuseProposal(actor, branch, key) ==
  /\ May(actor, "propose")
  /\ ProposalKey(actor, key) \notin DOMAIN idempotency
  /\ branch \in DOMAIN branches
  /\ \/ DOMAIN proposals # {} /\ Record(ProposalKey(actor, key), "invalid", None)
     \/ /\ DOMAIN proposals # Proposals /\ RefusedBases(branch) # {}
        /\ Record(ProposalKey(actor, key), "conflict", None)
  /\ UNCHANGED <<historyVars, reviewVars, presence, logVars, now, follower>>

-----------------------------------------------------------------------------
(* proposal.approve and proposal.comment                                   *)

\* isReviewer: an empty list admits everybody.
IsReviewer(policy, actor) == policy.reviewerIds = {} \/ actor \in policy.reviewerIds

\* Mutation of MayApprove: authors approve their own proposals.
MayApproveOwn(actor, proposal) ==
  /\ proposal.expires # None => now < proposal.expires
  /\ IsReviewer(branches[proposal.branch].policy, actor)

\* approvalDiagnostic: neither the proposal's expiry nor the duties of its
\* author stand against this approval; its status is not looked at.
MayApprove(actor, proposal) ==
  LET policy == branches[proposal.branch].policy
  IN /\ proposal.expires # None => now < proposal.expires
     /\ IsReviewer(policy, actor)
     /\ policy.separateAuthorAndReviewer => proposal.author # actor

\* hasRequiredApprovals: distinct reviewers.
HasRequiredApprovals(policy, reviewers) == Cardinality(reviewers) >= policy.requiredApprovals

\* recordApproval
ApprovalEvents(actor, proposal) ==
  IF actor \in proposal.approvals THEN <<>>
  ELSE <<Event("approvalRecorded", proposal.branch, proposal.candidate)>>

\* finishApprovedProposal: a candidate whose parent is no longer the head goes
\* stale, any other is committed; without a candidate only the approval stays.
FinishApproved(id, approved, recorded) ==
  IF id \notin DOMAIN candidates THEN
    /\ proposals' = Put(proposals, id, approved)
    /\ Emit(recorded)
    /\ UNCHANGED <<revisions, branches, candidates>>
  ELSE IF HeadOf(approved.branch) # candidates[id].parent THEN
    /\ proposals' = Put(proposals, id, [approved EXCEPT !.status = "stale"])
    /\ Emit(recorded)
    /\ UNCHANGED <<revisions, branches, candidates>>
  ELSE
    /\ proposals' = Put(proposals, id, [approved EXCEPT !.status = "committed"])
    /\ candidates' = Drop(candidates, id)
    /\ CommitHistory(candidates[id], id)
    /\ Emit(Append(recorded, Event("revisionCommitted", approved.branch, approved.candidate)))

\* approveProposal of the candidate a reviewer was shown (expectedRevision).
ApproveProposal(actor, id, expectedRevision) ==
  /\ May(actor, "approve")
  /\ id \in DOMAIN proposals
  /\ expectedRevision = proposals[id].candidate
  /\ MayApprove(actor, proposals[id])
  /\ LET approved == [proposals[id] EXCEPT !.approvals = @ \cup {actor}]
         recorded == ApprovalEvents(actor, proposals[id])
     IN \/ /\ HasRequiredApprovals(branches[approved.branch].policy, approved.approvals)
           /\ FinishApproved(id, approved, recorded)
        \/ /\ ~HasRequiredApprovals(branches[approved.branch].policy, approved.approvals)
           /\ proposals' = Put(proposals, id, approved)
           /\ Emit(recorded)
           /\ UNCHANGED <<revisions, branches, candidates>>
  /\ UNCHANGED <<sequence, idempotency, presence, now, follower>>

\* commentOnProposal, at any status of the proposal.
CommentOnProposal(actor, id) ==
  /\ May(actor, "comment")
  /\ id \in DOMAIN proposals
  /\ proposals[id].comments < MaxComments
  /\ proposals' = [proposals EXCEPT ![id].comments = @ + 1]
  /\ Emit(<<Event("commentAdded", proposals[id].branch, None)>>)
  /\ UNCHANGED <<historyVars, candidates, idempotency, presence, now, follower>>

-----------------------------------------------------------------------------
(* revision.publish, revision.undo, presence.update and createBranch       *)

\* Mutant: any head may be published.
MayPublishHead(branch, r) == HeadOf(branch) = r

\* revisionMayPublish: the head, and on a protected branch the product of a
\* proposal that has the approvals this branch requires.
MayPublish(branch, r) ==
  LET policy == branches[branch].policy
  IN /\ HeadOf(branch) = r
     /\ policy.protected =>
          \E id \in revisions[r].proposal :
            /\ proposals[id].candidate = r
            /\ HasRequiredApprovals(policy, proposals[id].approvals)

PublishRevision(actor, branch, r) ==
  /\ May(actor, "publish")
  /\ branch \in DOMAIN branches
  /\ MayPublish(branch, r)
  /\ branches' = [branches EXCEPT ![branch].published = r]
  /\ Emit(<<Event("revisionPublished", branch, r)>>)
  /\ UNCHANGED <<sequence, revisions, reviewVars, idempotency, presence, now, follower>>

\* compensationCandidate: the parent's document again, changed at "/".
Compensation(branch, target) ==
  [branch |-> branch, parent |-> target, revision |-> sequence + 1,
   document |-> revisions[revisions[target].parent].document, changedPaths |-> {RootPath}]

\* Mutant: the head is moved back instead of compensated.
UndoByMovingBack(actor, branch, target, key) ==
  /\ May(actor, "undo")
  /\ UndoKey(actor, key) \notin DOMAIN idempotency
  /\ branch \in DOMAIN branches
  /\ HeadOf(branch) = target
  /\ revisions[target].parent # None
  /\ branches' = [branches EXCEPT ![branch].head = revisions[target].parent]
  /\ Record(UndoKey(actor, key), "accepted", revisions[target].parent)
  /\ Emit(<<Event("revisionCommitted", branch, revisions[target].parent)>>)
  /\ UNCHANGED <<sequence, revisions, reviewVars, presence, now, follower>>

\* undoRevision of the head under a new key; no approval is asked for, not even
\* on a protected branch.  The validation judges the restored document again and
\* cannot refuse it: it judges content, and what was restored was admitted (TypeOK).
UndoRevision(actor, branch, target, key) ==
  /\ May(actor, "undo")
  /\ UndoKey(actor, key) \notin DOMAIN idempotency
  /\ branch \in DOMAIN branches
  /\ HeadOf(branch) = target
  /\ revisions[target].parent # None
  /\ sequence < MaxRevision
  /\ sequence' = sequence + 1
  /\ LET candidate == Compensation(branch, target)
     IN /\ revisions' = Put(revisions, candidate.revision, Revision(candidate, {}, target))
        /\ branches' = [branches EXCEPT ![branch].head = candidate.revision]
        /\ Record(UndoKey(actor, key), "accepted", candidate.revision)
        /\ Emit(<<Event("revisionCommitted", branch, candidate.revision)>>)
  /\ UNCHANGED <<reviewVars, presence, now, follower>>

\* undoRevision refused: the target is no longer the head, or has no parent.
RefuseUndo(actor, branch, key) ==
  /\ May(actor, "undo")
  /\ UndoKey(actor, key) \notin DOMAIN idempotency
  /\ branch \in DOMAIN branches
  /\ \/ DOMAIN revisions # {HeadOf(branch)} /\ Record(UndoKey(actor, key), "conflict", None)
     \/ revisions[HeadOf(branch)].parent = None /\ Record(UndoKey(actor, key), "notFound", None)
  /\ UNCHANGED <<historyVars, reviewVars, presence, logVars, now, follower>>

\* updateCollaborationPresence: expired entries are swept, the actor's is renewed.
UpdatePresence(actor, branch) ==
  /\ May(actor, "presence")
  /\ branch \in DOMAIN branches
  /\ LET live == {k \in DOMAIN presence : presence[k] > now}
     IN presence' = [k \in live \cup {<<branch, actor>>} |->
                       IF k = <<branch, actor>> THEN now + PresenceTtl ELSE presence[k]]
  /\ Emit(<<Event("presenceChanged", branch, None)>>)
  /\ UNCHANGED <<historyVars, reviewVars, idempotency, now, follower>>

\* createBranch: the host branches from any revision; no event is emitted.
CreateBranch(branch, from, policy) ==
  /\ branch \notin DOMAIN branches
  /\ from \in DOMAIN revisions
  /\ branches' = Put(branches, branch, [head |-> from, policy |-> policy, published |-> None])
  /\ UNCHANGED <<sequence, revisions, reviewVars, idempotency, presence, logVars, now, follower>>

Tick ==
  /\ now < MaxTime
  /\ now' = now + 1
  /\ UNCHANGED <<historyVars, reviewVars, idempotency, presence, logVars, follower>>

-----------------------------------------------------------------------------
(* External: a host that keeps the branches it knows current by resuming   *)
(* the log, and that reads them again after a gap.                         *)

BranchView == [b \in DOMAIN branches |-> [head |-> branches[b].head, published |-> branches[b].published]]

\* The messages about a branch that tell its head and its published revision.
Publications(branch, messages) ==
  {i \in DOMAIN messages : messages[i].branch = branch /\ messages[i].type = "revisionPublished"}
Moves(branch, messages) ==
  Publications(branch, messages)
    \cup {i \in DOMAIN messages : messages[i].branch = branch /\ messages[i].type = "revisionCommitted"}

\* What the view becomes when the messages are taken in order: the last one
\* about each branch counts.
Told(messages, positions) == messages[Max(positions)].revision
Follow(view, messages) ==
  [b \in DOMAIN view \cup {c \in Branches : Moves(c, messages) # {}} |->
     [head |-> IF Moves(b, messages) # {} THEN Told(messages, Moves(b, messages)) ELSE view[b].head,
      published |-> IF Publications(b, messages) # {} THEN Told(messages, Publications(b, messages))
                    ELSE IF b \in DOMAIN view THEN view[b].published ELSE None]]

\* A poll of the host: the answer moves its cursor to the end of the log.
ResumeEvents ==
  /\ ~follower.reading
  /\ follower.cursor < latest
  /\ LET gap == Gap(follower.cursor)
     IN follower' = [cursor |-> latest, reading |-> gap,
                     view |-> IF gap THEN follower.view
                              ELSE Follow(follower.view, EventsAfter(follower.cursor))]
  /\ UNCHANGED <<historyVars, reviewVars, idempotency, presence, logVars, now>>

\* The branches are read after the gap was answered, so the view may be ahead
\* of the cursor.
ReadBranches ==
  /\ follower.reading
  /\ follower' = [cursor |-> follower.cursor, reading |-> FALSE, view |-> BranchView]
  /\ UNCHANGED <<historyVars, reviewVars, idempotency, presence, logVars, now>>

-----------------------------------------------------------------------------
Init ==
  \E g \in Genesis :
    /\ sequence = 1
    /\ revisions = [r \in {1} |->
         [branch |-> "main", parent |-> None, document |-> g.document,
          changedPaths |-> {RootPath}, proposal |-> {}, compensates |-> None]]
    /\ branches = [b \in {"main"} |-> [head |-> 1, policy |-> g.policy, published |-> None]]
    /\ proposals = <<>>
    /\ candidates = <<>>
    /\ idempotency = <<>>
    /\ presence = <<>>
    /\ events = <<>>
    /\ latest = 0
    /\ now = 0
    /\ follower = [cursor |-> 0, reading |-> FALSE,
                   view |-> [b \in {"main"} |-> [head |-> 1, published |-> None]]]

Next ==
  \/ \E actor \in Actors, id \in Proposals, branch \in Branches, base \in DOMAIN revisions,
        patch \in Patches, key \in Keys : SubmitProposal(actor, id, branch, base, patch, key)
  \/ \E actor \in Actors, branch \in Branches, key \in Keys : RefuseProposal(actor, branch, key)
  \/ \E actor \in Actors, id \in Proposals, r \in 1..MaxRevision : ApproveProposal(actor, id, r)
  \/ \E actor \in Actors, id \in Proposals : CommentOnProposal(actor, id)
  \/ \E actor \in Actors, branch \in Branches, r \in DOMAIN revisions : PublishRevision(actor, branch, r)
  \/ \E actor \in Actors, branch \in Branches, r \in DOMAIN revisions, key \in Keys :
       UndoRevision(actor, branch, r, key)
  \/ \E actor \in Actors, branch \in Branches, key \in Keys : RefuseUndo(actor, branch, key)
  \/ \E actor \in Actors, branch \in Branches : UpdatePresence(actor, branch)
  \/ \E branch \in Branches, r \in DOMAIN revisions, policy \in BranchPolicies :
       CreateBranch(branch, r, policy)
  \/ Tick
  \/ ResumeEvents
  \/ ReadBranches

Spec == Init /\ [][Next]_vars

-----------------------------------------------------------------------------
(* Properties.                                                             *)

RevisionType(r) ==
  [branch : DOMAIN branches, parent : {None} \cup DOMAIN revisions, document : {r.document},
   changedPaths : {r.changedPaths}, proposal : {{}} \cup {{id} : id \in DOMAIN proposals},
   compensates : {None} \cup DOMAIN revisions]
BranchType == [head : DOMAIN revisions, policy : Policies, published : {None} \cup DOMAIN revisions]
ProposalType ==
  [author : Actors, base : DOMAIN revisions, branch : DOMAIN branches, candidate : 1..sequence,
   approvals : SUBSET Actors, comments : Nat, rebased : BOOLEAN,
   status : {"pending", "committed", "stale"}, expires : Nat]
CandidateType(c) ==
  [branch : DOMAIN branches, parent : DOMAIN revisions, revision : 1..sequence,
   document : {c.document}, changedPaths : {c.changedPaths}]
\* What a revision or a candidate carries: a document the host's validation
\* admits, and pointers.
WellFormed(carrier) ==
  /\ IsDocument(carrier.document) /\ IsValid(carrier.document)
  /\ \A path \in carrier.changedPaths : IsPointer(path)

\* TypeOK: the variables keep their types; what a record names exists.
TypeOK ==
  /\ sequence \in Nat /\ DOMAIN revisions \subseteq 1..sequence
  /\ \A r \in DOMAIN revisions : revisions[r] \in RevisionType(revisions[r]) /\ WellFormed(revisions[r])
  /\ DOMAIN branches \subseteq Branches /\ \A b \in DOMAIN branches : branches[b] \in BranchType
  /\ DOMAIN proposals \subseteq Proposals /\ \A id \in DOMAIN proposals : proposals[id] \in ProposalType
  /\ DOMAIN candidates \subseteq DOMAIN proposals
  /\ \A id \in DOMAIN candidates :
       candidates[id] \in CandidateType(candidates[id]) /\ WellFormed(candidates[id])
  /\ latest \in Nat /\ Len(events) <= EventCapacity /\ now \in Nat
  /\ follower.cursor \in 0..latest

\* NothingLost: what was committed to a branch stays in the history of its head,
\* in whatever order submissions, late approvals and undos of several actors
\* arrive: no commit drops another one.  (Every set that holds the head and is
\* closed under parentRevision holds the revision.)
ClosedUnderParent(S) == \A r \in S : revisions[r].parent # None => revisions[r].parent \in S
InHistory(r, branch) ==
  \A S \in SUBSET DOMAIN revisions : HeadOf(branch) \in S /\ ClosedUnderParent(S) => r \in S
NothingLost == \A r \in DOMAIN revisions : InHistory(r, revisions[r].branch)

\* ReviewedHistory: a proposal that reached a protected branch had, when it did,
\* enough approvals of distinct reviewers its policy admits, and none of its
\* author where duties are separated.
Reviewed(id, policy) ==
  LET reviewers == {a \in proposals[id].approvals :
                      /\ IsReviewer(policy, a)
                      /\ policy.separateAuthorAndReviewer => a # proposals[id].author}
  IN HasRequiredApprovals(policy, reviewers)
ReviewedHistory ==
  \A r \in DOMAIN revisions :
    LET policy == branches[revisions[r].branch].policy
    IN policy.protected => \A id \in revisions[r].proposal : Reviewed(id, policy)

\* ReviewedPublication: a protected branch shows the public a revision of its
\* history, produced by a proposal with as many approvals as the branch requires;
\* never the initial revision or a compensation.
ReviewedPublication ==
  \A b \in DOMAIN branches :
    LET published == branches[b].published
    IN published # None =>
         /\ InHistory(published, b)
         /\ branches[b].policy.protected =>
              \E id \in revisions[published].proposal :
                HasRequiredApprovals(branches[b].policy, proposals[id].approvals)

\* LateApprovalRefused: approvals never reach a proposal whose time is over, and
\* a proposal that was found stale or was committed never becomes anything else
\* (the approval handler does not look at the status).
LateApprovalRefused ==
  [][\A id \in DOMAIN proposals :
       LET old == proposals[id]
           new == proposals'[id]
       IN /\ (new.approvals # old.approvals /\ old.expires # None) => now < old.expires
          /\ old.status # "pending" => new.status = old.status]_vars

\* EffectsAnswered: each proposal and each compensation is the remembered answer
\* of exactly one request, so a client that retries under its key is told of it
\* and cannot cause another one.
Answers(r) == {entry \in DOMAIN idempotency : idempotency[entry].revision = r}
EffectsAnswered ==
  /\ \A id \in DOMAIN proposals :
       \E entry \in DOMAIN idempotency :
         Answers(proposals[id].candidate) = {entry} /\ entry[1] = proposals[id].author /\ entry[2] = "propose"
  /\ \A r \in DOMAIN revisions : revisions[r].compensates # None =>
       \E entry \in DOMAIN idempotency : Answers(r) = {entry} /\ entry[2] = "undo"

\* FollowerAgrees: a host that has read the log to its end, gaps included, sees
\* the head and the published revision of every branch it knows as they are.
FollowerAgrees ==
  (~follower.reading /\ follower.cursor = latest) =>
    \A b \in DOMAIN follower.view :
      follower.view[b] = [head |-> branches[b].head, published |-> branches[b].published]

\* The paths at which a revision really changed the document of its parent.
Changes(r) == {path \in DocumentPaths :
                 ValueAt(revisions[r].document, path) # ValueAt(revisions[revisions[r].parent].document, path)}
\* A revision accounts for its changes when each meets a path it declares.
Accounted(r) ==
  \A path \in Changes(r) : \E declared \in revisions[r].changedPaths : PointersOverlap(path, declared)

\* What a proposal writes, and the revision it is applied to.
Applied(id) == IF id \in DOMAIN candidates THEN candidates[id] ELSE revisions[proposals[id].candidate]

\* The author of a proposal saw, at every path it writes, what the revision it
\* was applied to holds there.
SawWhatItWrites(id) ==
  \A path \in Applied(id).changedPaths :
    ValueAt(revisions[proposals[id].base].document, path)
      = ValueAt(revisions[Applied(id).parent].document, path)

\* A proposal that lengthens or shortens the array moves its other elements.
Restructures(id) ==
  Len(Applied(id).document.items) # Len(revisions[Applied(id).parent].document.items)
SawTheArray(id) ==
  revisions[proposals[id].base].document.items = revisions[Applied(id).parent].document.items

\* RebaseSafe: a proposal moved over revisions that account for their changes
\* never writes a value its author did not see, and never inserts into or removes
\* from an array its author did not see as it is: the footprints of its
\* operations meet every change that would matter.
RebaseSafe ==
  \A id \in DOMAIN proposals :
    (\A r \in Intervening(Applied(id).parent, proposals[id].base) : Accounted(r)) =>
      SawWhatItWrites(id) /\ (Restructures(id) => SawTheArray(id))

\* RebaseDisjoint: docs/collaboration.md, "automatically rebased only when every
\* intervening changed path is disjoint" and "array-structural changes use their
\* parent as a conservative conflict footprint": nothing a proposal writes was
\* changed by the revisions it is moved over.
RebaseDisjoint == \A id \in DOMAIN proposals : SawWhatItWrites(id)

-----------------------------------------------------------------------------
(* The promise of the history: a branch only ever grows by a revision made *)
(* on top of its head.                                                     *)
History == INSTANCE BranchHistory WITH
  head <- [b \in DOMAIN branches |-> branches[b].head],
  parent <- [r \in DOMAIN revisions |-> revisions[r].parent]
HistorySpec == History!Spec
=============================================================================
