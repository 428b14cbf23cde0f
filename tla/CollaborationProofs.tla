------------------------ MODULE CollaborationProofs ------------------------
(***************************************************************************)
(* Proofs about Collaboration, for any actors, policies, branches, patches *)
(* and bounds.                                                             *)
(*                                                                         *)
(* A step of the service either keeps the revisions and the head of every  *)
(* branch (Kept), or puts one fresh revision on top of the head of one     *)
(* branch (Committed).  Pending says why the candidate of a proposal is    *)
(* fresh when its last approval commits it, Admitted and Sources what the   *)
(* approvals of a proposal and the proposal of a revision are worth.       *)
(*                                                                         *)
(* A step either tells the log nothing a follower keeps (KeptTold), or its *)
(* last event tells the new head of one branch (Tells): LogNames says what *)
(* the events that are left are worth, Follows what a follower still       *)
(* knows without them.                                                     *)
(*                                                                         *)
(* A patch is a fold of operations over documents, and one that changes    *)
(* the length of the array guards the array (PatchFacts); what no revision *)
(* in between changes is the same in base and head (Unchanged): together   *)
(* they make a submission without conflicts safe, and what was safe stays  *)
(* so, since the ancestors of a revision never change.                     *)
(***************************************************************************)
EXTENDS Collaboration, FiniteSetTheorems, SequenceTheorems, WellFoundedInduction, TLAPS

\* What is known of the records: those that are named exist.
Known ==
  /\ sequence \in Nat \ {0}
  /\ now \in Nat
  /\ DOMAIN revisions \subseteq 1..sequence
  /\ \A r \in DOMAIN revisions :
       /\ revisions[r].branch \in DOMAIN branches
       /\ revisions[r].parent \in {None} \cup DOMAIN revisions
       /\ revisions[r].proposal \subseteq DOMAIN proposals
  /\ DOMAIN branches \subseteq Branches
  /\ \A b \in DOMAIN branches : branches[b] \in BranchType
  /\ DOMAIN candidates \subseteq DOMAIN proposals
  /\ \A id \in DOMAIN proposals : proposals[id] \in ProposalType

\* A candidate belongs to its proposal and waits for it under a revision number
\* of its own; it never waits for a committed proposal, and under a stale one
\* only after the head has moved away.
Pending ==
  /\ \A id \in DOMAIN candidates :
       /\ candidates[id].branch = proposals[id].branch
       /\ candidates[id].revision = proposals[id].candidate
       /\ candidates[id].revision \in (1..sequence) \ DOMAIN revisions
       /\ candidates[id].parent \in DOMAIN revisions
       /\ proposals[id].status # "committed"
       /\ proposals[id].status = "stale" => HeadOf(proposals[id].branch) # candidates[id].parent
  /\ \A i, j \in DOMAIN candidates : candidates[i].revision = candidates[j].revision => i = j

\* Every recorded approval is one the policy of the branch admits.
Admitted ==
  \A id \in DOMAIN proposals : \A a \in proposals[id].approvals :
    LET policy == branches[proposals[id].branch].policy
    IN /\ IsReviewer(policy, a)
       /\ policy.separateAuthorAndReviewer => proposals[id].author # a

\* A revision made by a proposal is that proposal's, which had enough approvals
\* if the branch is protected.
Sources ==
  \A r \in DOMAIN revisions : \A id \in revisions[r].proposal :
    LET policy == branches[revisions[r].branch].policy
    IN /\ proposals[id].branch = revisions[r].branch
       /\ proposals[id].candidate = r
       /\ policy.protected => HasRequiredApprovals(policy, proposals[id].approvals)

\* An answer names no revision, or one that was numbered.
AnswersNumbered == \A entry \in DOMAIN idempotency : idempotency[entry].revision \in 0..sequence

IInv ==
  /\ Known /\ Pending /\ Admitted /\ Sources /\ AnswersNumbered
  /\ EffectsAnswered /\ NothingLost /\ ReviewedPublication

-----------------------------------------------------------------------------
(* What a step does to the history.                                        *)

\* A branch that exists keeps its head and its policy, and what it published.
KeptBranch(b) ==
  /\ b \in DOMAIN branches'
  /\ branches'[b].head = branches[b].head
  /\ branches'[b].policy = branches[b].policy

Kept ==
  /\ revisions' = revisions
  /\ \A b \in DOMAIN branches : KeptBranch(b)

Committed(branch, r, revision) ==
  /\ branch \in DOMAIN branches
  /\ r \in Nat \ (DOMAIN revisions \cup {None})
  /\ revision.branch = branch /\ revision.parent = HeadOf(branch)
  /\ revisions' = Put(revisions, r, revision)
  /\ branches' = [branches EXCEPT ![branch].head = r]

LEMMA CommittedFacts ==
  ASSUME Known, NEW branch, NEW r, NEW revision, Committed(branch, r, revision)
  PROVE  /\ DOMAIN revisions' = DOMAIN revisions \cup {r}
         /\ revisions'[r] = revision
         /\ \A s \in DOMAIN revisions : revisions'[s] = revisions[s]
         /\ DOMAIN branches' = DOMAIN branches
         /\ branches'[branch] = [head |-> r, policy |-> branches[branch].policy,
                                 published |-> branches[branch].published]
         /\ \A b \in DOMAIN branches \ {branch} : branches'[b] = branches[b]
<1>1. branches[branch] \in BranchType
  BY DEF Known, Committed
<1>2. revisions' = Put(revisions, r, revision) /\ r \notin DOMAIN revisions
  BY DEF Committed
<1>3. /\ DOMAIN revisions' = DOMAIN revisions \cup {r}
      /\ revisions'[r] = revision
      /\ \A s \in DOMAIN revisions : revisions'[s] = revisions[s]
  BY <1>2 DEF Put
<1>4. branches' = [branches EXCEPT ![branch].head = r] /\ branch \in DOMAIN branches
  BY DEF Committed
<1>5. /\ DOMAIN branches' = DOMAIN branches
      /\ \A b \in DOMAIN branches \ {branch} : branches'[b] = branches[b]
      /\ branches'[branch] = [branches[branch] EXCEPT !.head = r]
  BY <1>4
<1>6. branches'[branch] = [head |-> r, policy |-> branches[branch].policy,
                           published |-> branches[branch].published]
  BY <1>1, <1>5 DEF BranchType
<1> QED BY <1>3, <1>5, <1>6

\* A revision in the history of a branch stays there when nothing is committed.
LEMMA HistoryKept ==
  ASSUME Known, Kept, NEW b \in DOMAIN branches, NEW s, InHistory(s, b)
  PROVE  InHistory(s, b)'
BY DEF Kept, KeptBranch, InHistory, HeadOf, ClosedUnderParent

\* Nor does a commit on any branch take it away: what is closed under the new
\* tree's parents is, without the new revision, closed under the old one's.
LEMMA HistoryExtended ==
  ASSUME Known, NEW branch, NEW r, NEW revision, Committed(branch, r, revision),
         NEW b \in DOMAIN branches, NEW s, InHistory(s, b)
  PROVE  InHistory(s, b)'
<1> SUFFICES ASSUME NEW S \in SUBSET DOMAIN revisions', branches'[b].head \in S,
                    \A q \in S : revisions'[q].parent # None => revisions'[q].parent \in S
             PROVE  s \in S
  BY DEF InHistory, HeadOf, ClosedUnderParent
<1> DEFINE T == S \ {r}
<1>0. /\ DOMAIN revisions' = DOMAIN revisions \cup {r}
      /\ revisions'[r] = revision
      /\ \A q \in DOMAIN revisions : revisions'[q] = revisions[q]
      /\ branches'[branch] = [head |-> r, policy |-> branches[branch].policy,
                              published |-> branches[branch].published]
      /\ \A c \in DOMAIN branches \ {branch} : branches'[c] = branches[c]
  BY CommittedFacts
<1>1. T \in SUBSET DOMAIN revisions
  BY <1>0
<1>2. ClosedUnderParent(T)
  <2> SUFFICES ASSUME NEW q \in T, revisions[q].parent # None
               PROVE  revisions[q].parent \in T
    BY DEF ClosedUnderParent
  <2>1. q \in DOMAIN revisions /\ revisions'[q] = revisions[q]
    BY <1>0, <1>1
  <2>2. revisions[q].parent \in DOMAIN revisions
    BY <2>1 DEF Known
  <2> QED BY <2>1, <2>2 DEF Committed
<1>3. branches[b].head \in T
  <2>1. branches[b].head \in DOMAIN revisions
    BY DEF Known, BranchType
  <2>2. branches[b].head # r
    BY <2>1 DEF Committed
  <2>3. CASE b = branch
    <3>1. revisions'[r].parent = branches[b].head
      BY <1>0, <2>3 DEF Committed, HeadOf
    <3>2. branches'[b].head = r
      BY <1>0, <2>3
    <3>3. branches[b].head # None
      BY <2>1 DEF Known, None
    <3> QED BY <2>2, <3>1, <3>2, <3>3
  <2>4. CASE b # branch
    BY <1>0, <2>2, <2>4
  <2> QED BY <2>3, <2>4
<1>4. s \in T
  BY <1>1, <1>2, <1>3 DEF InHistory, HeadOf
<1> QED BY <1>4

\* The head of a branch is in its history.
LEMMA HeadInHistory ==
  ASSUME NEW b
  PROVE  InHistory(HeadOf(b), b)
BY DEF InHistory

\* What every step does to the history: nothing, or a commit.
HistoryMoves == Kept \/ \E branch, r, revision : Committed(branch, r, revision)

LEMMA MovesFacts ==
  ASSUME Known, HistoryMoves
  PROVE  /\ DOMAIN revisions \subseteq DOMAIN revisions'
         /\ \A r \in DOMAIN revisions : revisions'[r] = revisions[r]
         /\ DOMAIN branches \subseteq DOMAIN branches'
         /\ \A b \in DOMAIN branches : branches'[b].policy = branches[b].policy
         /\ \A b \in DOMAIN branches : \A s : InHistory(s, b) => InHistory(s, b)'
<1>1. CASE Kept
  <2>1. \A b \in DOMAIN branches : \A s : InHistory(s, b) => InHistory(s, b)'
    BY <1>1, HistoryKept
  <2> QED BY <1>1, <2>1 DEF Kept, KeptBranch
<1>2. ASSUME NEW branch, NEW r, NEW revision, Committed(branch, r, revision)
      PROVE  /\ DOMAIN revisions \subseteq DOMAIN revisions'
             /\ \A q \in DOMAIN revisions : revisions'[q] = revisions[q]
             /\ DOMAIN branches \subseteq DOMAIN branches'
             /\ \A b \in DOMAIN branches : branches'[b].policy = branches[b].policy
             /\ \A b \in DOMAIN branches : \A s : InHistory(s, b) => InHistory(s, b)'
  <2>1. \A b \in DOMAIN branches : \A s : InHistory(s, b) => InHistory(s, b)'
    BY <1>2, HistoryExtended
  <2>2. /\ DOMAIN revisions' = DOMAIN revisions \cup {r}
        /\ \A q \in DOMAIN revisions : revisions'[q] = revisions[q]
        /\ DOMAIN branches' = DOMAIN branches
        /\ branches'[branch] = [head |-> r, policy |-> branches[branch].policy,
                                published |-> branches[branch].published]
        /\ \A b \in DOMAIN branches \ {branch} : branches'[b] = branches[b]
    BY <1>2, CommittedFacts
  <2>3. \A b \in DOMAIN branches : branches'[b].policy = branches[b].policy
    BY <2>2
  <2> QED BY <2>1, <2>2, <2>3
<1> QED BY <1>1, <1>2 DEF HistoryMoves

\* The record of a proposal keeps what it is and loses no approval.
ReviewsGrow ==
  \A id \in DOMAIN proposals :
    /\ id \in DOMAIN proposals'
    /\ proposals'[id].author = proposals[id].author
    /\ proposals'[id].branch = proposals[id].branch
    /\ proposals'[id].candidate = proposals[id].candidate
    /\ proposals'[id].approvals \in SUBSET Actors
    /\ proposals[id].approvals \subseteq proposals'[id].approvals

\* Enough approvals stay enough when more are added.
LEMMA EnoughStays ==
  ASSUME NEW policy \in Policies, NEW few, NEW many \in SUBSET Actors, few \subseteq many,
         HasRequiredApprovals(policy, few)
  PROVE  HasRequiredApprovals(policy, many)
<1>1. IsFiniteSet(Actors)
  BY CollaborationAssumption
<1>2. IsFiniteSet(many) /\ IsFiniteSet(few)
  BY <1>1, FS_Subset
<1>3. Cardinality(few) <= Cardinality(many)
  BY <1>2, FS_Subset
<1>4. Cardinality(few) \in Nat /\ Cardinality(many) \in Nat /\ Cardinality(Actors) \in Nat
  BY <1>1, <1>2, FS_CardinalityType
<1>5. policy.requiredApprovals \in Nat
  BY <1>4 DEF Policies
<1> QED BY <1>3, <1>4, <1>5 DEF HasRequiredApprovals

\* No commit drops another one.
LEMMA NothingLostStep ==
  ASSUME Known, HistoryMoves, NothingLost
  PROVE  NothingLost'
<1> USE MovesFacts
<1> SUFFICES ASSUME NEW q \in DOMAIN revisions'
             PROVE  InHistory(q, revisions[q].branch)'
  BY DEF NothingLost
<1>1. CASE q \in DOMAIN revisions
  BY <1>1 DEF NothingLost, Known
<1>2. CASE q \notin DOMAIN revisions
  <2>1. PICK branch, r, revision : Committed(branch, r, revision)
    BY <1>2 DEF HistoryMoves, Kept
  <2>2. /\ DOMAIN revisions' = DOMAIN revisions \cup {r}
        /\ revisions'[r] = revision
        /\ branches'[branch] = [head |-> r, policy |-> branches[branch].policy,
                                published |-> branches[branch].published]
    BY <2>1, CommittedFacts
  <2>3. q = r /\ revisions'[q].branch = branch
    BY <1>2, <2>1, <2>2 DEF Committed
  <2>4. branches'[branch].head = q
    BY <2>2, <2>3
  <2> QED BY <2>3, <2>4 DEF InHistory, HeadOf
<1> QED BY <1>1, <1>2

\* What a branch has published stays in its history, and reviewed.
Published(b) ==
  LET published == branches[b].published
  IN published # None =>
       /\ InHistory(published, b)
       /\ branches[b].policy.protected =>
            \E id \in revisions[published].proposal :
              HasRequiredApprovals(branches[b].policy, proposals[id].approvals)

LEMMA PublishedStep ==
  ASSUME Known, HistoryMoves, ReviewsGrow, NEW b \in DOMAIN branches, Published(b),
         branches'[b].published = branches[b].published
  PROVE  Published(b)'
<1> SUFFICES ASSUME branches[b].published # None
             PROVE  /\ InHistory(branches[b].published, b)'
                    /\ branches[b].policy.protected =>
                         \E id \in revisions[branches[b].published].proposal :
                           HasRequiredApprovals(branches[b].policy, proposals'[id].approvals)
  <2>1. branches'[b].policy = branches[b].policy
    BY MovesFacts
  <2>2. branches[b].published \in {None} \cup DOMAIN revisions
    BY DEF Known, BranchType
  <2>3. branches[b].published # None =>
          revisions'[branches[b].published] = revisions[branches[b].published]
    BY <2>2, MovesFacts
  <2> QED BY <2>1, <2>3 DEF Published, HasRequiredApprovals
<1>1. InHistory(branches[b].published, b)'
  BY MovesFacts DEF Published
<1>2. ASSUME branches[b].policy.protected
      PROVE  \E id \in revisions[branches[b].published].proposal :
               HasRequiredApprovals(branches[b].policy, proposals'[id].approvals)
  <2>1. PICK id \in revisions[branches[b].published].proposal :
          HasRequiredApprovals(branches[b].policy, proposals[id].approvals)
    BY <1>2 DEF Published
  <2>2. branches[b].published \in DOMAIN revisions /\ branches[b].policy \in Policies
    BY DEF Known, BranchType
  <2>3. id \in DOMAIN proposals
    BY <2>2 DEF Known
  <2> QED BY <2>1, <2>2, <2>3, EnoughStays DEF ReviewsGrow
<1> QED BY <1>1, <1>2

\* Revisions that exist keep their proposals, which keep their approvals.
LEMMA SourcesStep ==
  ASSUME Known, HistoryMoves, ReviewsGrow, Sources,
         \A r \in DOMAIN revisions' \ DOMAIN revisions : \A id \in revisions'[r].proposal :
           /\ proposals'[id].branch = revisions'[r].branch
           /\ proposals'[id].candidate = r
           /\ branches'[revisions'[r].branch].policy.protected =>
                HasRequiredApprovals(branches'[revisions'[r].branch].policy, proposals'[id].approvals)
  PROVE  Sources'
<1> SUFFICES ASSUME NEW r \in DOMAIN revisions, NEW id \in revisions[r].proposal
             PROVE  /\ proposals'[id].branch = revisions[r].branch
                    /\ proposals'[id].candidate = r
                    /\ branches[revisions[r].branch].policy.protected =>
                         HasRequiredApprovals(branches[revisions[r].branch].policy, proposals'[id].approvals)
  <2>1. /\ \A q \in DOMAIN revisions : revisions'[q] = revisions[q]
        /\ \A b \in DOMAIN branches : branches'[b].policy = branches[b].policy
    BY MovesFacts
  <2>2. \A q \in DOMAIN revisions : revisions[q].branch \in DOMAIN branches
    BY DEF Known
  <2> QED BY <2>1, <2>2 DEF Sources, HasRequiredApprovals
<1>1. id \in DOMAIN proposals /\ revisions[r].branch \in DOMAIN branches
  BY DEF Known
<1>2. branches[revisions[r].branch].policy \in Policies
  BY <1>1 DEF Known, BranchType
<1>3. proposals[id].branch = revisions[r].branch /\ proposals[id].candidate = r
  BY DEF Sources
<1>4. ASSUME branches[revisions[r].branch].policy.protected
      PROVE  HasRequiredApprovals(branches[revisions[r].branch].policy, proposals'[id].approvals)
  <2>1. HasRequiredApprovals(branches[revisions[r].branch].policy, proposals[id].approvals)
    BY <1>4 DEF Sources
  <2> QED BY <1>1, <1>2, <2>1, EnoughStays DEF ReviewsGrow
<1> QED BY <1>1, <1>3, <1>4 DEF ReviewsGrow

-----------------------------------------------------------------------------
(* Answers.  A step remembers none, or one under a new key that names a    *)
(* fresh number or none.                                                   *)

Remembers(entry, answer) ==
  /\ entry \notin DOMAIN idempotency
  /\ answer.revision \in {None, sequence + 1}
  /\ idempotency' = Put(idempotency, entry, answer)

\* The answers that name n after the step.
AnswersAfter(n) == {entry \in DOMAIN idempotency' : idempotency'[entry].revision = n}

LEMMA AnswersKept ==
  ASSUME Known, idempotency' = idempotency \/ \E entry, answer : Remembers(entry, answer),
         NEW n \in 1..sequence
  PROVE  AnswersAfter(n) = Answers(n)
<1>1. CASE idempotency' = idempotency
  BY <1>1 DEF Answers, AnswersAfter
<1>2. ASSUME NEW entry, NEW answer, Remembers(entry, answer)
      PROVE  AnswersAfter(n) = Answers(n)
  <2>1. n # answer.revision
    BY <1>2 DEF Remembers, None, Known
  <2>2. /\ DOMAIN idempotency' = DOMAIN idempotency \cup {entry}
        /\ idempotency'[entry] = answer
        /\ \A e \in DOMAIN idempotency : idempotency'[e] = idempotency[e]
    BY <1>2 DEF Remembers, Put
  <2> QED BY <2>1, <2>2 DEF Answers, AnswersAfter
<1> QED BY <1>1, <1>2

\* The answer that names a fresh number is the only one.
LEMMA FreshAnswer ==
  ASSUME Known, AnswersNumbered, NEW entry, NEW answer, Remembers(entry, answer),
         answer.revision = sequence + 1
  PROVE  AnswersAfter(sequence + 1) = {entry} /\ entry \in DOMAIN idempotency'
<1>1. /\ DOMAIN idempotency' = DOMAIN idempotency \cup {entry}
      /\ idempotency'[entry] = answer
      /\ \A e \in DOMAIN idempotency : idempotency'[e] = idempotency[e]
  BY DEF Remembers, Put
<1> QED BY <1>1 DEF Known, AnswersNumbered, AnswersAfter

LEMMA NumberedStep ==
  ASSUME Known, AnswersNumbered,
         \/ idempotency' = idempotency /\ sequence' = sequence
         \/ \E entry, answer : /\ Remembers(entry, answer)
                               /\ \/ sequence' = sequence + 1
                                  \/ sequence' = sequence /\ answer.revision = None
  PROVE  AnswersNumbered'
<1>1. CASE idempotency' = idempotency /\ sequence' = sequence
  BY <1>1 DEF AnswersNumbered
<1>2. ASSUME NEW entry, NEW answer, Remembers(entry, answer),
             \/ sequence' = sequence + 1
             \/ sequence' = sequence /\ answer.revision = None
      PROVE  AnswersNumbered'
  <2>1. /\ DOMAIN idempotency' = DOMAIN idempotency \cup {entry}
        /\ idempotency'[entry] = answer
        /\ \A e \in DOMAIN idempotency : idempotency'[e] = idempotency[e]
    BY <1>2 DEF Remembers, Put
  <2> QED BY <1>2, <2>1 DEF Known, AnswersNumbered, Remembers, None
<1> QED BY <1>1, <1>2

\* The answers of the proposals and compensations that exist stay the only ones.
LEMMA AnsweredStep ==
  ASSUME Known, HistoryMoves, ReviewsGrow, EffectsAnswered,
         idempotency' = idempotency \/ \E entry, answer : Remembers(entry, answer),
         \A id \in DOMAIN proposals' \ DOMAIN proposals :
           \E entry \in DOMAIN idempotency' :
             /\ AnswersAfter(proposals'[id].candidate) = {entry}
             /\ entry[1] = proposals'[id].author /\ entry[2] = "propose",
         \A r \in DOMAIN revisions' \ DOMAIN revisions : revisions'[r].compensates # None =>
           \E entry \in DOMAIN idempotency' : AnswersAfter(r) = {entry} /\ entry[2] = "undo"
  PROVE  EffectsAnswered'
<1>0. DOMAIN idempotency \subseteq DOMAIN idempotency'
  BY DEF Remembers, Put
<1>1. \A id \in DOMAIN proposals' :
        \E entry \in DOMAIN idempotency' :
          /\ AnswersAfter(proposals'[id].candidate) = {entry}
          /\ entry[1] = proposals'[id].author /\ entry[2] = "propose"
  <2> SUFFICES ASSUME NEW id \in DOMAIN proposals
               PROVE  \E entry \in DOMAIN idempotency' :
                        /\ AnswersAfter(proposals'[id].candidate) = {entry}
                        /\ entry[1] = proposals'[id].author /\ entry[2] = "propose"
    OBVIOUS
  <2>1. proposals[id].candidate \in 1..sequence
    BY DEF Known, ProposalType
  <2>3. \A n \in 1..sequence : AnswersAfter(n) = Answers(n)
    BY AnswersKept
  <2>4. PICK entry \in DOMAIN idempotency :
          /\ Answers(proposals[id].candidate) = {entry}
          /\ entry[1] = proposals[id].author /\ entry[2] = "propose"
    BY DEF EffectsAnswered
  <2> QED BY <1>0, <2>1, <2>3, <2>4 DEF ReviewsGrow
<1>2. \A r \in DOMAIN revisions' : revisions'[r].compensates # None =>
        \E entry \in DOMAIN idempotency' : AnswersAfter(r) = {entry} /\ entry[2] = "undo"
  <2> SUFFICES ASSUME NEW r \in DOMAIN revisions, revisions'[r].compensates # None
               PROVE  \E entry \in DOMAIN idempotency' : AnswersAfter(r) = {entry} /\ entry[2] = "undo"
    OBVIOUS
  <2>1. r \in 1..sequence /\ revisions[r].compensates # None
    BY MovesFacts DEF Known
  <2>2. AnswersAfter(r) = Answers(r)
    BY <2>1, AnswersKept
  <2> QED BY <1>0, <2>1, <2>2 DEF EffectsAnswered
<1> QED BY <1>1, <1>2 DEF EffectsAnswered, Answers, AnswersAfter

-----------------------------------------------------------------------------
(* The invariant under each kind of step.                                  *)

LEMMA TypesGrow ==
  ASSUME Known, sequence' \in {sequence, sequence + 1},
         DOMAIN revisions \subseteq DOMAIN revisions', DOMAIN branches \subseteq DOMAIN branches'
  PROVE  BranchType \subseteq BranchType' /\ ProposalType \subseteq ProposalType'
<1>1. BranchType \subseteq BranchType'
  BY DEF BranchType
<1>2. 1..sequence \subseteq 1..sequence'
  BY DEF Known
<1>3. ProposalType \subseteq ProposalType'
  BY <1>2 DEF ProposalType
<1> QED BY <1>1, <1>3

LEMMA PublicationStep ==
  ASSUME \A b \in DOMAIN branches' : Published(b)'
  PROVE  ReviewedPublication'
BY DEF ReviewedPublication, Published

LEMMA PublishedNow ==
  ASSUME ReviewedPublication, NEW b \in DOMAIN branches
  PROVE  Published(b)
BY DEF ReviewedPublication, Published

\* A head never comes back to a revision that exists.
LEMMA HeadsLeave ==
  ASSUME Known, HistoryMoves, NEW b \in DOMAIN branches
  PROVE  branches'[b].head = branches[b].head \/ branches'[b].head \notin DOMAIN revisions
<1>1. CASE Kept
  BY <1>1 DEF Kept, KeptBranch
<1>2. ASSUME NEW branch, NEW r, NEW revision, Committed(branch, r, revision)
      PROVE  branches'[b].head = branches[b].head \/ branches'[b].head \notin DOMAIN revisions
  <2>1. /\ branches'[branch] = [head |-> r, policy |-> branches[branch].policy,
                                published |-> branches[branch].published]
        /\ \A c \in DOMAIN branches \ {branch} : branches'[c] = branches[c]
    BY <1>2, CommittedFacts
  <2>2. r \notin DOMAIN revisions
    BY <1>2 DEF Committed
  <2> QED BY <2>1, <2>2
<1> QED BY <1>1, <1>2 DEF HistoryMoves

\* What Pending says of a candidate and its proposal.
Waits(id) ==
  /\ candidates[id].branch = proposals[id].branch
  /\ candidates[id].revision = proposals[id].candidate
  /\ candidates[id].revision \in (1..sequence) \ DOMAIN revisions
  /\ candidates[id].parent \in DOMAIN revisions
  /\ proposals[id].status # "committed"
  /\ proposals[id].status = "stale" => HeadOf(proposals[id].branch) # candidates[id].parent

\* A candidate whose proposal stays as it is goes on waiting, whatever is
\* committed in the meantime.
LEMMA WaitsOn ==
  ASSUME Known, HistoryMoves, sequence' \in {sequence, sequence + 1},
         NEW id \in DOMAIN candidates, Waits(id),
         candidates'[id] = candidates[id],
         proposals'[id].branch = proposals[id].branch,
         proposals'[id].candidate = proposals[id].candidate,
         proposals'[id].status = proposals[id].status,
         candidates[id].revision \notin DOMAIN revisions'
  PROVE  Waits(id)'
<1>1. proposals[id].branch \in DOMAIN branches
  BY DEF Known, ProposalType
<1>2. 1..sequence \subseteq 1..sequence'
  BY DEF Known
<1>3. DOMAIN revisions \subseteq DOMAIN revisions'
  BY MovesFacts
<1>4. \/ branches'[proposals[id].branch].head = branches[proposals[id].branch].head
      \/ branches'[proposals[id].branch].head \notin DOMAIN revisions
  BY <1>1, HeadsLeave
<1> QED BY <1>2, <1>3, <1>4 DEF Waits, HeadOf

LEMMA PendingStep ==
  ASSUME \A id \in DOMAIN candidates' : Waits(id)',
         \A i, j \in DOMAIN candidates' :
           candidates'[i].revision = candidates'[j].revision => i = j
  PROVE  Pending'
BY DEF Pending, Waits

LEMMA PendingNow ==
  ASSUME Pending
  PROVE  /\ \A id \in DOMAIN candidates : Waits(id)
         /\ \A i, j \in DOMAIN candidates : candidates[i].revision = candidates[j].revision => i = j
BY DEF Pending, Waits

\* Steps of presence, of the clock and of the host, and refusals: at most an
\* answer that names no revision is remembered, and a number may be used up.
LEMMA RefusalStep ==
  ASSUME IInv, UNCHANGED <<revisions, branches, proposals, candidates>>, now' \in Nat,
         \/ idempotency' = idempotency /\ sequence' = sequence
         \/ \E entry, answer : /\ Remembers(entry, answer) /\ answer.revision = None
                               /\ sequence' \in {sequence, sequence + 1}
  PROVE  IInv'
<1> USE DEF IInv
<1>1. sequence' \in {sequence, sequence + 1}
  OBVIOUS
<1>2. Kept
  BY DEF Kept, KeptBranch
<1>3. HistoryMoves
  BY <1>2 DEF HistoryMoves
<1>4. ReviewsGrow
  BY DEF ReviewsGrow, Known, ProposalType
<1>5. Known'
  <2>1. BranchType \subseteq BranchType' /\ ProposalType \subseteq ProposalType'
    BY <1>1, TypesGrow
  <2> QED BY <1>1, <2>1 DEF Known
<1>6. Pending'
  <2>1. \A id \in DOMAIN candidates : Waits(id)'
    BY <1>1, <1>3, PendingNow, WaitsOn DEF Waits
  <2> QED BY <2>1, PendingNow, PendingStep
<1>7. Admitted'
  BY DEF Admitted, IsReviewer
<1>8. Sources'
  BY <1>3, <1>4, SourcesStep
<1>9. AnswersNumbered'
  BY NumberedStep
<1>10. EffectsAnswered'
  BY <1>3, <1>4, AnsweredStep
<1>11. NothingLost'
  BY <1>3, NothingLostStep
<1>12. ReviewedPublication'
  <2>1. \A b \in DOMAIN branches : Published(b)'
    BY <1>3, <1>4, PublishedNow, PublishedStep
  <2> QED BY <2>1, PublicationStep
<1> QED BY <1>5, <1>6, <1>7, <1>8, <1>9, <1>10, <1>11, <1>12

\* What a submission that is recorded starts from.
Submits(actor, id, branch, base, candidate, key) ==
  /\ actor \in Actors /\ id \in Proposals \ DOMAIN proposals
  /\ branch \in DOMAIN branches /\ base \in DOMAIN revisions
  /\ candidate.branch = branch /\ candidate.parent = HeadOf(branch)
  /\ candidate.revision = sequence + 1
  /\ ProposalKey(actor, key) \notin DOMAIN idempotency
  /\ sequence' = sequence + 1 /\ now' = now

LEMMA NewProposalType ==
  ASSUME Known, NEW actor, NEW id, NEW branch, NEW base, NEW candidate, NEW key,
         Submits(actor, id, branch, base, candidate, key)
  PROVE  NewProposal(actor, branch, base, candidate)
           \in [author : Actors, base : DOMAIN revisions, branch : DOMAIN branches,
                candidate : {sequence + 1}, approvals : {{}}, comments : Nat, rebased : BOOLEAN,
                status : {"pending"}, expires : Nat]
<1>1. (IF branches[branch].policy.protected THEN now + ApprovalTtl ELSE None) \in Nat
  BY CollaborationAssumption DEF Known, None
<1>2. (base # candidate.parent) \in BOOLEAN
  OBVIOUS
<1> QED BY <1>1, <1>2 DEF Submits, NewProposal

\* A submission to a protected branch: the proposal and its candidate wait.
LEMMA SubmitWaits ==
  ASSUME IInv, NEW actor, NEW id, NEW branch, NEW base, NEW candidate, NEW key,
         Submits(actor, id, branch, base, candidate, key),
         proposals' = Put(proposals, id, NewProposal(actor, branch, base, candidate)),
         candidates' = Put(candidates, id, candidate),
         idempotency' = Put(idempotency, ProposalKey(actor, key),
                            [status |-> "reviewRequired", revision |-> candidate.revision]),
         UNCHANGED <<revisions, branches>>
  PROVE  IInv'
<1> USE DEF IInv
<1> DEFINE new == NewProposal(actor, branch, base, candidate)
           answer == [status |-> "reviewRequired", revision |-> candidate.revision]
<1> HIDE DEF new, answer
<1>1. new \in [author : Actors, base : DOMAIN revisions, branch : DOMAIN branches,
               candidate : {sequence + 1}, approvals : {{}}, comments : Nat, rebased : BOOLEAN,
               status : {"pending"}, expires : Nat]
  BY NewProposalType DEF new
<1>2. new.author = actor /\ new.branch = branch
  BY DEF new, NewProposal, Submits
<1>3. /\ id \notin DOMAIN proposals /\ sequence' = sequence + 1 /\ now' = now
      /\ candidate.branch = branch /\ candidate.revision = sequence + 1
      /\ candidate.parent = branches[branch].head /\ branch \in DOMAIN branches
      /\ actor \in Actors /\ id \in Proposals
  BY DEF Submits, HeadOf
<1>4. /\ DOMAIN proposals' = DOMAIN proposals \cup {id} /\ proposals'[id] = new
      /\ \A i \in DOMAIN proposals : proposals'[i] = proposals[i]
  BY <1>3 DEF Put, new
<1>5. /\ DOMAIN candidates' = DOMAIN candidates \cup {id} /\ candidates'[id] = candidate
      /\ \A i \in DOMAIN candidates : candidates'[i] = candidates[i] /\ i # id
  BY <1>3 DEF Put, Known
<1>6. Remembers(ProposalKey(actor, key), answer) /\ answer.revision = sequence + 1
  BY <1>3 DEF Remembers, answer, Submits
<1>7. Kept /\ HistoryMoves
  BY DEF HistoryMoves, Kept, KeptBranch
<1>8. ReviewsGrow
  BY <1>4 DEF ReviewsGrow, Known, ProposalType
<1>9. sequence \in Nat /\ DOMAIN revisions \subseteq 1..sequence
  BY DEF Known
<1>10. Known'
  <2>1. BranchType \subseteq BranchType' /\ ProposalType \subseteq ProposalType'
    BY <1>3, TypesGrow
  <2>2. new \in ProposalType'
    BY <1>1, <1>3, <1>9 DEF ProposalType
  <2>3. \A i \in DOMAIN proposals' : proposals'[i] \in ProposalType'
    BY <1>4, <2>1, <2>2 DEF Known
  <2>4. \A b \in DOMAIN branches' : branches'[b] \in BranchType'
    BY <2>1 DEF Known
  <2> QED BY <1>3, <1>4, <1>5, <2>3, <2>4 DEF Known
<1>11. Pending'
  <2>1. Waits(id)'
    <3>1. branches[branch].head \in DOMAIN revisions
      BY <1>3 DEF Known, BranchType
    <3>2. sequence + 1 \in (1..sequence') \ DOMAIN revisions
      BY <1>3, <1>9
    <3>3. new.status = "pending" /\ new.candidate = sequence + 1
      BY <1>1
    <3> QED BY <1>2, <1>3, <1>4, <1>5, <3>1, <3>2, <3>3 DEF Waits
  <2>2. \A i \in DOMAIN candidates : Waits(i)'
    BY <1>3, <1>4, <1>5, <1>7, PendingNow, WaitsOn DEF Waits, Known
  <2>3. \A i \in DOMAIN candidates : candidates[i].revision # sequence + 1
    BY <1>9 DEF Pending
  <2> QED BY <1>3, <1>5, <2>1, <2>2, <2>3, PendingNow, PendingStep
<1>12. Admitted'
  <2>1. new.approvals = {}
    BY <1>1
  <2> QED BY <1>4, <2>1 DEF Admitted, IsReviewer
<1>13. Sources'
  BY <1>7, <1>8, SourcesStep
<1>14. AnswersNumbered'
  BY <1>3, <1>6, NumberedStep
<1>15. EffectsAnswered'
  <2>1. \E entry \in DOMAIN idempotency' :
           /\ AnswersAfter(new.candidate) = {entry} /\ entry[1] = new.author /\ entry[2] = "propose"
    <3>1. new.candidate = sequence + 1
      BY <1>1
    <3>2. AnswersAfter(sequence + 1) = {ProposalKey(actor, key)} /\ ProposalKey(actor, key) \in DOMAIN idempotency'
      BY <1>6, FreshAnswer
    <3> QED BY <1>2, <3>1, <3>2 DEF ProposalKey
  <2> QED BY <1>4, <1>6, <1>7, <1>8, <2>1, AnsweredStep
<1>16. NothingLost'
  BY <1>7, NothingLostStep
<1>17. ReviewedPublication'
  <2>1. \A b \in DOMAIN branches : Published(b)'
    BY <1>7, <1>8, PublishedNow, PublishedStep
  <2> QED BY <2>1, PublicationStep
<1> QED BY <1>10, <1>11, <1>12, <1>13, <1>14, <1>15, <1>16, <1>17

\* A submission to an open branch is committed at once.
LEMMA SubmitCommits ==
  ASSUME IInv, NEW actor, NEW id, NEW branch, NEW base, NEW candidate, NEW key,
         Submits(actor, id, branch, base, candidate, key),
         ~branches[branch].policy.protected,
         proposals' = Put(proposals, id, [NewProposal(actor, branch, base, candidate)
                                            EXCEPT !.status = "committed"]),
         CommitHistory(candidate, id),
         idempotency' = Put(idempotency, ProposalKey(actor, key),
                            [status |-> "accepted", revision |-> candidate.revision]),
         UNCHANGED candidates
  PROVE  IInv'
<1> USE DEF IInv
<1> DEFINE new == [NewProposal(actor, branch, base, candidate) EXCEPT !.status = "committed"]
           answer == [status |-> "accepted", revision |-> candidate.revision]
           revision == Revision(candidate, {id}, None)
           r == sequence + 1
<1> HIDE DEF new, answer, revision
<1>1. new \in [author : Actors, base : DOMAIN revisions, branch : DOMAIN branches,
               candidate : {sequence + 1}, approvals : {{}}, comments : Nat, rebased : BOOLEAN,
               status : {"committed"}, expires : Nat]
  BY NewProposalType DEF new
<1>2. new.author = actor /\ new.branch = branch
  BY DEF new, NewProposal, Submits
<1>3. /\ id \notin DOMAIN proposals /\ sequence' = sequence + 1 /\ now' = now
      /\ candidate.branch = branch /\ candidate.revision = sequence + 1
      /\ candidate.parent = branches[branch].head /\ branch \in DOMAIN branches
      /\ actor \in Actors /\ id \in Proposals
  BY DEF Submits, HeadOf
<1>4. /\ DOMAIN proposals' = DOMAIN proposals \cup {id} /\ proposals'[id] = new
      /\ \A i \in DOMAIN proposals : proposals'[i] = proposals[i]
  BY <1>3 DEF Put, new
<1>5. sequence \in Nat /\ DOMAIN revisions \subseteq 1..sequence
  BY DEF Known
<1>6. Remembers(ProposalKey(actor, key), answer) /\ answer.revision = sequence + 1
  BY <1>3 DEF Remembers, answer, Submits
<1>7. /\ revision.branch = branch /\ revision.parent = branches[branch].head
      /\ revision.proposal = {id} /\ revision.compensates = None
  BY <1>3 DEF revision, Revision
<1>8. Committed(branch, r, revision)
  BY <1>3, <1>5, <1>7 DEF Committed, CommitHistory, revision, HeadOf, None
<1>9. /\ DOMAIN revisions' = DOMAIN revisions \cup {r}
      /\ revisions'[r] = revision
      /\ \A s \in DOMAIN revisions : revisions'[s] = revisions[s]
      /\ DOMAIN branches' = DOMAIN branches
      /\ branches'[branch] = [head |-> r, policy |-> branches[branch].policy,
                              published |-> branches[branch].published]
      /\ \A b \in DOMAIN branches \ {branch} : branches'[b] = branches[b]
  BY <1>8, CommittedFacts
<1>10. HistoryMoves
  BY <1>8 DEF HistoryMoves
<1>11. ReviewsGrow
  BY <1>4 DEF ReviewsGrow, Known, ProposalType
<1>12. branches[branch] \in BranchType
  BY <1>3 DEF Known
<1>13. Known'
  <2>1. BranchType \subseteq BranchType' /\ ProposalType \subseteq ProposalType'
    BY <1>3, <1>9, TypesGrow
  <2>2. new \in ProposalType'
    BY <1>1, <1>3, <1>5, <1>9 DEF ProposalType
  <2>3. \A i \in DOMAIN proposals' : proposals'[i] \in ProposalType'
    BY <1>4, <2>1, <2>2 DEF Known
  <2>4. branches'[branch] \in BranchType'
    BY <1>9, <1>12 DEF BranchType
  <2>5. \A b \in DOMAIN branches' : branches'[b] \in BranchType'
    BY <1>9, <2>1, <2>4 DEF Known
  <2>6. DOMAIN revisions' \subseteq 1..sequence'
    BY <1>3, <1>5, <1>9
  <2>7. branches[branch].head \in DOMAIN revisions
    BY <1>12 DEF BranchType
  <2>8. \A q \in DOMAIN revisions' :
          /\ revisions'[q].branch \in DOMAIN branches'
          /\ revisions'[q].parent \in {None} \cup DOMAIN revisions'
          /\ revisions'[q].proposal \subseteq DOMAIN proposals'
    BY <1>3, <1>4, <1>7, <1>9, <2>7 DEF Known
  <2> QED BY <1>3, <1>4, <1>9, <2>3, <2>5, <2>6, <2>8 DEF Known
<1>14. Pending'
  <2>1. \A i \in DOMAIN candidates : candidates[i].revision \notin DOMAIN revisions'
    BY <1>5, <1>9 DEF Pending
  <2>2. \A i \in DOMAIN candidates : Waits(i)'
    BY <1>3, <1>4, <1>10, <2>1, PendingNow, WaitsOn DEF Waits, Known
  <2> QED BY <2>2, PendingNow, PendingStep
<1>15. Admitted'
  <2>1. new.approvals = {}
    BY <1>1
  <2>2. \A i \in DOMAIN proposals : proposals[i].branch \in DOMAIN branches
    BY DEF Known, ProposalType
  <2>3. \A b \in DOMAIN branches : branches'[b].policy = branches[b].policy
    BY <1>9
  <2> QED BY <1>4, <2>1, <2>2, <2>3 DEF Admitted, IsReviewer
<1>16. Sources'
  <2>1. new.candidate = r
    BY <1>1
  <2>2. ~branches'[branch].policy.protected
    BY <1>9
  <2> QED BY <1>2, <1>4, <1>7, <1>9, <1>10, <1>11, <2>1, <2>2, SourcesStep
<1>17. AnswersNumbered'
  BY <1>3, <1>6, NumberedStep
<1>18. EffectsAnswered'
  <2>1. \E entry \in DOMAIN idempotency' :
           /\ AnswersAfter(new.candidate) = {entry} /\ entry[1] = new.author /\ entry[2] = "propose"
    <3>1. new.candidate = sequence + 1
      BY <1>1
    <3>2. AnswersAfter(sequence + 1) = {ProposalKey(actor, key)} /\ ProposalKey(actor, key) \in DOMAIN idempotency'
      BY <1>6, FreshAnswer
    <3> QED BY <1>2, <3>1, <3>2 DEF ProposalKey
  <2>2. \A i \in DOMAIN proposals' \ DOMAIN proposals : proposals'[i] = new
    BY <1>4
  <2>3. \A q \in DOMAIN revisions' \ DOMAIN revisions : revisions'[q].compensates = None
    BY <1>7, <1>9
  <2> QED BY <1>6, <1>10, <1>11, <2>1, <2>2, <2>3, AnsweredStep
<1>19. NothingLost'
  BY <1>10, NothingLostStep
<1>20. ReviewedPublication'
  <2>1. \A b \in DOMAIN branches : branches'[b].published = branches[b].published
    BY <1>9
  <2>2. \A b \in DOMAIN branches' : Published(b)'
    BY <1>9, <1>10, <1>11, <2>1, PublishedNow, PublishedStep
  <2> QED BY <2>2, PublicationStep
<1> QED BY <1>13, <1>14, <1>15, <1>16, <1>17, <1>18, <1>19, <1>20

-----------------------------------------------------------------------------
(* Approvals.                                                              *)

\* The proposal with one more approval.
ApprovedBy(actor, id) == [proposals[id] EXCEPT !.approvals = @ \cup {actor}]

Approves(actor, id) ==
  /\ actor \in Actors /\ id \in DOMAIN proposals
  /\ MayApprove(actor, proposals[id])

\* The proposal goes on waiting, or is found stale.
ApprovalWaits(actor, id) ==
  /\ Approves(actor, id)
  /\ \/ proposals' = Put(proposals, id, ApprovedBy(actor, id))
     \/ /\ id \in DOMAIN candidates
        /\ HeadOf(proposals[id].branch) # candidates[id].parent
        /\ proposals' = Put(proposals, id, [ApprovedBy(actor, id) EXCEPT !.status = "stale"])
  /\ UNCHANGED <<sequence, revisions, branches, candidates, idempotency, now>>

\* The last approval commits the candidate.
ApprovalCommits(actor, id) ==
  /\ Approves(actor, id)
  /\ id \in DOMAIN candidates
  /\ candidates[id].parent = HeadOf(proposals[id].branch)
  /\ HasRequiredApprovals(branches[proposals[id].branch].policy, ApprovedBy(actor, id).approvals)
  /\ proposals' = Put(proposals, id, [ApprovedBy(actor, id) EXCEPT !.status = "committed"])
  /\ candidates' = Drop(candidates, id)
  /\ CommitHistory(candidates[id], id)
  /\ UNCHANGED <<sequence, idempotency, now>>

LEMMA ApprovalCases ==
  ASSUME Known, NEW actor \in Actors, NEW id, NEW r, ApproveProposal(actor, id, r)
  PROVE  ApprovalWaits(actor, id) \/ ApprovalCommits(actor, id)
<1> DEFINE approved == ApprovedBy(actor, id)
<1>1. Approves(actor, id)
  BY DEF ApproveProposal, Approves
<1>2. UNCHANGED <<sequence, idempotency, now>>
  BY DEF ApproveProposal
<1>3. approved.branch = proposals[id].branch
  BY <1>1 DEF Approves, Known, ProposalType, ApprovedBy
<1>4. CASE ~HasRequiredApprovals(branches[approved.branch].policy, approved.approvals)
  BY <1>1, <1>2, <1>4 DEF ApproveProposal, ApprovalWaits, ApprovedBy
<1>5. CASE FinishApproved(id, approved, ApprovalEvents(actor, proposals[id]))
           /\ HasRequiredApprovals(branches[approved.branch].policy, approved.approvals)
  BY <1>1, <1>2, <1>3, <1>5 DEF FinishApproved, ApprovalWaits, ApprovalCommits
<1> QED BY <1>4, <1>5 DEF ApproveProposal, ApprovedBy

\* An approval changes the approvals and the status of one proposal.
LEMMA ApprovalFacts ==
  ASSUME Known, NEW actor, NEW id, Approves(actor, id), NEW status \in {"pending", "committed", "stale"},
         NEW new, new = [ApprovedBy(actor, id) EXCEPT !.status = status],
         proposals' = Put(proposals, id, new)
  PROVE  /\ DOMAIN proposals' = DOMAIN proposals
         /\ \A i \in DOMAIN proposals \ {id} : proposals'[i] = proposals[i]
         /\ proposals'[id] = new
         /\ new = [author |-> proposals[id].author, base |-> proposals[id].base,
                   branch |-> proposals[id].branch, candidate |-> proposals[id].candidate,
                   approvals |-> proposals[id].approvals \cup {actor},
                   comments |-> proposals[id].comments, rebased |-> proposals[id].rebased,
                   status |-> status, expires |-> proposals[id].expires]
         /\ new \in ProposalType
         /\ ReviewsGrow
<1>1. /\ DOMAIN proposals' = DOMAIN proposals /\ proposals'[id] = new
      /\ \A i \in DOMAIN proposals \ {id} : proposals'[i] = proposals[i]
  BY DEF Put, Approves
<1>2. proposals[id] \in ProposalType /\ actor \in Actors
  BY DEF Known, Approves
<1>3. new = [author |-> proposals[id].author, base |-> proposals[id].base,
             branch |-> proposals[id].branch, candidate |-> proposals[id].candidate,
             approvals |-> proposals[id].approvals \cup {actor},
             comments |-> proposals[id].comments, rebased |-> proposals[id].rebased,
             status |-> status, expires |-> proposals[id].expires]
  BY <1>2 DEF ApprovedBy, ProposalType
<1>4. new \in ProposalType
  <2>1. ApprovedBy(actor, id) \in ProposalType
    BY <1>2 DEF ApprovedBy, ProposalType
  <2> QED BY <2>1 DEF ProposalType
<1>5. ReviewsGrow
  <2>1. \A i \in DOMAIN proposals : proposals[i].approvals \in SUBSET Actors
    BY DEF Known, ProposalType
  <2>2. new.approvals = proposals[id].approvals \cup {actor}
    BY <1>3
  <2>3. new.author = proposals[id].author /\ new.branch = proposals[id].branch
        /\ new.candidate = proposals[id].candidate
    BY <1>3
  <2> QED BY ZenonT(60), <1>1, <1>2, <2>1, <2>2, <2>3 DEF ReviewsGrow
<1> QED BY <1>1, <1>3, <1>4, <1>5

\* The new approval is one the policy admits.
LEMMA AdmittedStep ==
  ASSUME Known, Admitted, NEW actor, NEW id, Approves(actor, id),
         DOMAIN proposals' = DOMAIN proposals,
         \A i \in DOMAIN proposals \ {id} : proposals'[i] = proposals[i],
         proposals'[id].author = proposals[id].author,
         proposals'[id].branch = proposals[id].branch,
         proposals'[id].approvals = proposals[id].approvals \cup {actor},
         \A b \in DOMAIN branches : branches'[b].policy = branches[b].policy
  PROVE  Admitted'
<1>1. \A i \in DOMAIN proposals : proposals[i].branch \in DOMAIN branches
  BY DEF Known, ProposalType
<1>2. \A i \in DOMAIN proposals' : branches'[proposals'[i].branch].policy = branches[proposals[i].branch].policy
  BY <1>1
<1>3. /\ IsReviewer(branches[proposals[id].branch].policy, actor)
      /\ branches[proposals[id].branch].policy.separateAuthorAndReviewer => proposals[id].author # actor
  BY DEF Approves, MayApprove
<1>4. ASSUME NEW i \in DOMAIN proposals, NEW a \in proposals'[i].approvals
      PROVE  /\ IsReviewer(branches[proposals[i].branch].policy, a)
             /\ branches[proposals[i].branch].policy.separateAuthorAndReviewer => proposals[i].author # a
  BY <1>3, <1>4 DEF Admitted
<1>5. \A i \in DOMAIN proposals : proposals'[i].author = proposals[i].author
  OBVIOUS
<1> QED BY <1>2, <1>4, <1>5 DEF Admitted, IsReviewer

LEMMA ApprovalWaitsStep ==
  ASSUME IInv, NEW actor, NEW id, ApprovalWaits(actor, id)
  PROVE  IInv'
<1> USE DEF IInv
<1>1. /\ UNCHANGED <<sequence, revisions, branches, candidates, idempotency, now>>
      /\ Approves(actor, id) /\ id \in DOMAIN proposals
  BY DEF ApprovalWaits, Approves
<1>2. Kept /\ HistoryMoves
  BY <1>1 DEF HistoryMoves, Kept, KeptBranch
<1>3. PICK status \in {"pending", "committed", "stale"} :
        /\ proposals' = Put(proposals, id, [ApprovedBy(actor, id) EXCEPT !.status = status])
        /\ \/ status = proposals[id].status
           \/ /\ id \in DOMAIN candidates /\ status = "stale"
              /\ HeadOf(proposals[id].branch) # candidates[id].parent
  <2>1. proposals[id] \in ProposalType
    BY <1>1 DEF Known
  <2>2. /\ proposals[id].status \in {"pending", "committed", "stale"}
        /\ ApprovedBy(actor, id) = [ApprovedBy(actor, id) EXCEPT !.status = proposals[id].status]
    BY <2>1 DEF ApprovedBy, ProposalType
  <2> QED BY <2>2 DEF ApprovalWaits
<1> DEFINE new == [ApprovedBy(actor, id) EXCEPT !.status = status]
<1> HIDE DEF new
<1>4. /\ DOMAIN proposals' = DOMAIN proposals
      /\ \A i \in DOMAIN proposals \ {id} : proposals'[i] = proposals[i]
      /\ proposals'[id] = new
      /\ new = [author |-> proposals[id].author, base |-> proposals[id].base,
                branch |-> proposals[id].branch, candidate |-> proposals[id].candidate,
                approvals |-> proposals[id].approvals \cup {actor},
                comments |-> proposals[id].comments, rebased |-> proposals[id].rebased,
                status |-> status, expires |-> proposals[id].expires]
      /\ new \in ProposalType
      /\ ReviewsGrow
  <2>1. proposals' = Put(proposals, id, new)
    BY <1>3 DEF new
  <2>2. new = [ApprovedBy(actor, id) EXCEPT !.status = status]
    BY DEF new
  <2> QED BY SMTT(40), <1>1, <2>1, <2>2, ApprovalFacts
<1>5. Known'
  <2>1. BranchType \subseteq BranchType' /\ ProposalType \subseteq ProposalType'
    BY <1>1, TypesGrow DEF Known
  <2> QED BY <1>1, <1>4, <2>1 DEF Known
<1>6. Pending'
  <2>1. ASSUME NEW i \in DOMAIN candidates
        PROVE  Waits(i)'
    <3>1. CASE i # id
      BY <1>1, <1>2, <1>4, <3>1, PendingNow, WaitsOn DEF Waits, Known
    <3>2. CASE i = id
      <4>1. Waits(id)
        BY <3>2, PendingNow
      <4>2. proposals'[id].status = status /\ proposals'[id].branch = proposals[id].branch
            /\ proposals'[id].candidate = proposals[id].candidate
        BY <1>4
      <4> QED BY <1>1, <1>3, <3>2, <4>1, <4>2 DEF Waits, HeadOf
    <3> QED BY <3>1, <3>2
  <2> QED BY <1>1, <2>1, PendingNow, PendingStep
<1>7. Admitted'
  <2>1. /\ proposals'[id].author = proposals[id].author
        /\ proposals'[id].branch = proposals[id].branch
        /\ proposals'[id].approvals = proposals[id].approvals \cup {actor}
    BY <1>4
  <2> QED BY <1>1, <1>4, <2>1, AdmittedStep
<1>8. Sources'
  BY <1>1, <1>2, <1>4, SourcesStep
<1>9. AnswersNumbered'
  BY <1>1, NumberedStep
<1>10. EffectsAnswered'
  BY <1>1, <1>2, <1>4, AnsweredStep
<1>11. NothingLost'
  BY <1>2, NothingLostStep
<1>12. ReviewedPublication'
  <2>1. \A b \in DOMAIN branches : Published(b)'
    BY <1>1, <1>2, <1>4, PublishedNow, PublishedStep
  <2> QED BY <1>1, <2>1, PublicationStep
<1> QED BY <1>5, <1>6, <1>7, <1>8, <1>9, <1>10, <1>11, <1>12

LEMMA ApprovalCommitsStep ==
  ASSUME IInv, NEW actor, NEW id, ApprovalCommits(actor, id)
  PROVE  IInv' /\ Committed(proposals[id].branch, proposals[id].candidate, Revision(candidates[id], {id}, None))
<1> USE DEF IInv
<1> DEFINE new == [ApprovedBy(actor, id) EXCEPT !.status = "committed"]
           branch == proposals[id].branch
           r == proposals[id].candidate
           revision == Revision(candidates[id], {id}, None)
<1> HIDE DEF new, branch, r, revision
<1>1. /\ UNCHANGED <<sequence, idempotency, now>>
      /\ Approves(actor, id) /\ id \in DOMAIN proposals /\ id \in DOMAIN candidates
  BY DEF ApprovalCommits, Approves
<1>2. /\ DOMAIN proposals' = DOMAIN proposals
      /\ \A i \in DOMAIN proposals \ {id} : proposals'[i] = proposals[i]
      /\ proposals'[id] = new
      /\ new = [author |-> proposals[id].author, base |-> proposals[id].base,
                branch |-> proposals[id].branch, candidate |-> proposals[id].candidate,
                approvals |-> proposals[id].approvals \cup {actor},
                comments |-> proposals[id].comments, rebased |-> proposals[id].rebased,
                status |-> "committed", expires |-> proposals[id].expires]
      /\ new \in ProposalType
      /\ ReviewsGrow
  <2>1. proposals' = Put(proposals, id, new)
    BY DEF ApprovalCommits, new
  <2> QED BY <1>1, <2>1, ApprovalFacts DEF new
<1>3. /\ DOMAIN candidates' = DOMAIN candidates \ {id}
      /\ \A i \in DOMAIN candidates' : candidates'[i] = candidates[i]
  BY DEF ApprovalCommits, Drop
<1>4. /\ branch \in DOMAIN branches /\ branches[branch] \in BranchType
      /\ r \in 1..sequence /\ r \notin DOMAIN revisions
      /\ sequence \in Nat /\ DOMAIN revisions \subseteq 1..sequence
      /\ candidates[id].branch = branch /\ candidates[id].revision = r
  BY <1>1 DEF Known, Pending, ProposalType, branch, r
<1>5. /\ revision.branch = branch /\ revision.parent = branches[branch].head
      /\ revision.proposal = {id} /\ revision.compensates = None
  BY <1>4 DEF ApprovalCommits, revision, Revision, HeadOf, branch
<1>6. Committed(branch, r, revision)
  <2>1. CommitHistory(candidates[id], id)
    BY DEF ApprovalCommits
  <2> QED BY <1>4, <1>5, <2>1 DEF Committed, CommitHistory, revision, HeadOf, None
<1>7. /\ DOMAIN revisions' = DOMAIN revisions \cup {r}
      /\ revisions'[r] = revision
      /\ \A s \in DOMAIN revisions : revisions'[s] = revisions[s]
      /\ DOMAIN branches' = DOMAIN branches
      /\ branches'[branch] = [head |-> r, policy |-> branches[branch].policy,
                              published |-> branches[branch].published]
      /\ \A b \in DOMAIN branches \ {branch} : branches'[b] = branches[b]
  BY <1>6, CommittedFacts
<1>8. HistoryMoves
  BY <1>6 DEF HistoryMoves
<1>9. \A b \in DOMAIN branches : branches'[b].policy = branches[b].policy
  BY <1>7
<1>10. Known'
  <2>1. BranchType \subseteq BranchType' /\ ProposalType \subseteq ProposalType'
    BY <1>1, <1>7, TypesGrow DEF Known
  <2>2. \A i \in DOMAIN proposals' : proposals'[i] \in ProposalType'
    BY <1>2, <2>1 DEF Known
  <2>3. branches'[branch] \in BranchType'
    BY <1>4, <1>7 DEF BranchType
  <2>4. \A b \in DOMAIN branches' : branches'[b] \in BranchType'
    BY <1>7, <2>1, <2>3 DEF Known
  <2>5. branches[branch].head \in DOMAIN revisions
    BY <1>4 DEF BranchType
  <2>6. \A q \in DOMAIN revisions' :
          /\ revisions'[q].branch \in DOMAIN branches'
          /\ revisions'[q].parent \in {None} \cup DOMAIN revisions'
          /\ revisions'[q].proposal \subseteq DOMAIN proposals'
    BY <1>1, <1>2, <1>4, <1>5, <1>7, <2>5 DEF Known
  <2> QED BY <1>1, <1>2, <1>3, <1>4, <1>7, <2>2, <2>4, <2>6 DEF Known
<1>11. Pending'
  <2>1. \A i \in DOMAIN candidates' : candidates[i].revision \notin DOMAIN revisions'
    BY <1>1, <1>3, <1>4, <1>7 DEF Pending
  <2>2. \A i \in DOMAIN candidates' : Waits(i)'
    BY <1>1, <1>2, <1>3, <1>8, <2>1, PendingNow, WaitsOn DEF Waits, Known
  <2> QED BY <1>3, <2>2, PendingNow, PendingStep
<1>12. Admitted'
  <2>1. /\ proposals'[id].author = proposals[id].author
        /\ proposals'[id].branch = proposals[id].branch
        /\ proposals'[id].approvals = proposals[id].approvals \cup {actor}
    BY <1>2
  <2> QED BY <1>1, <1>2, <1>9, <2>1, AdmittedStep
<1>13. Sources'
  <2>1. HasRequiredApprovals(branches[branch].policy, proposals[id].approvals \cup {actor})
    BY <1>1 DEF ApprovalCommits, ApprovedBy, branch, Known, ProposalType
  <2>2. /\ proposals'[id].branch = branch
        /\ proposals'[id].candidate = r
        /\ proposals'[id].approvals = proposals[id].approvals \cup {actor}
    BY <1>2 DEF branch, r
  <2>3. branches'[branch].policy = branches[branch].policy
    BY <1>4, <1>9
  <2>4. \A q \in DOMAIN revisions' \ DOMAIN revisions : \A i \in revisions'[q].proposal :
          /\ proposals'[i].branch = revisions'[q].branch
          /\ proposals'[i].candidate = q
          /\ branches'[revisions'[q].branch].policy.protected =>
               HasRequiredApprovals(branches'[revisions'[q].branch].policy, proposals'[i].approvals)
    <3> SUFFICES ASSUME NEW q \in DOMAIN revisions' \ DOMAIN revisions,
                        NEW i \in revisions'[q].proposal
                 PROVE  /\ proposals'[i].branch = revisions'[q].branch
                        /\ proposals'[i].candidate = q
                        /\ HasRequiredApprovals(branches'[revisions'[q].branch].policy, proposals'[i].approvals)
      OBVIOUS
    <3>1. q = r
      BY <1>7
    <3>2. i = id /\ revisions'[q].branch = branch
      BY <1>5, <1>7, <3>1
    <3>3. HasRequiredApprovals(branches'[branch].policy, proposals'[id].approvals)
      BY <2>1, <2>2, <2>3
    <3> QED BY <2>2, <3>1, <3>2, <3>3
  <2> QED BY <1>2, <1>8, <2>4, SourcesStep
<1>14. AnswersNumbered'
  BY <1>1, NumberedStep
<1>15. EffectsAnswered'
  <2>1. \A q \in DOMAIN revisions' \ DOMAIN revisions : revisions'[q].compensates = None
    BY <1>5, <1>7
  <2> QED BY <1>1, <1>2, <1>8, <2>1, AnsweredStep
<1>16. NothingLost'
  BY <1>8, NothingLostStep
<1>17. ReviewedPublication'
  <2>1. \A b \in DOMAIN branches : branches'[b].published = branches[b].published
    BY <1>7
  <2>2. \A b \in DOMAIN branches' : Published(b)'
    BY <1>2, <1>7, <1>8, <2>1, PublishedNow, PublishedStep
  <2> QED BY <2>2, PublicationStep
<1> QED BY <1>6, <1>10, <1>11, <1>12, <1>13, <1>14, <1>15, <1>16, <1>17 DEF branch, r, revision

-----------------------------------------------------------------------------
(* Comments, publications, undos and new branches.                         *)

LEMMA CommentStep ==
  ASSUME IInv, NEW actor, NEW id, CommentOnProposal(actor, id)
  PROVE  IInv'
<1> USE DEF IInv
<1>1. /\ UNCHANGED <<sequence, revisions, branches, candidates, idempotency, now>>
      /\ id \in DOMAIN proposals
  BY DEF CommentOnProposal, historyVars
<1>2. Kept /\ HistoryMoves
  BY <1>1 DEF HistoryMoves, Kept, KeptBranch
<1>3. /\ DOMAIN proposals' = DOMAIN proposals
      /\ \A i \in DOMAIN proposals \ {id} : proposals'[i] = proposals[i]
      /\ proposals'[id] = [proposals[id] EXCEPT !.comments = @ + 1]
  BY DEF CommentOnProposal
<1>4. /\ proposals'[id] \in ProposalType
      /\ proposals'[id].author = proposals[id].author
      /\ proposals'[id].branch = proposals[id].branch
      /\ proposals'[id].candidate = proposals[id].candidate
      /\ proposals'[id].approvals = proposals[id].approvals
      /\ proposals'[id].status = proposals[id].status
  <2>1. proposals[id] \in ProposalType
    BY <1>1 DEF Known
  <2> QED BY <1>3, <2>1 DEF ProposalType
<1>5. ReviewsGrow
  <2>1. \A i \in DOMAIN proposals : proposals[i].approvals \in SUBSET Actors
    BY DEF Known, ProposalType
  <2> QED BY <1>3, <1>4, <2>1 DEF ReviewsGrow
<1>6. Known'
  <2>1. BranchType \subseteq BranchType' /\ ProposalType \subseteq ProposalType'
    BY <1>1, TypesGrow DEF Known
  <2>2. \A i \in DOMAIN proposals' : proposals'[i] \in ProposalType'
    BY <1>3, <1>4, <2>1 DEF Known
  <2> QED BY <1>1, <1>3, <2>1, <2>2 DEF Known
<1>7. Pending'
  <2>1. \A i \in DOMAIN candidates : Waits(i)'
    BY ZenonT(60), <1>1, <1>2, <1>3, <1>4, PendingNow, WaitsOn DEF Waits, Known
  <2> QED BY <1>1, <2>1, PendingNow, PendingStep
<1>8. Admitted'
  <2>1. \A i \in DOMAIN proposals :
          /\ proposals'[i].author = proposals[i].author
          /\ proposals'[i].branch = proposals[i].branch
          /\ proposals'[i].approvals = proposals[i].approvals
    BY <1>3, <1>4
  <2> QED BY <1>1, <1>3, <2>1 DEF Admitted, IsReviewer
<1>9. Sources'
  BY <1>1, <1>2, <1>5, SourcesStep
<1>10. AnswersNumbered'
  BY <1>1, NumberedStep
<1>11. EffectsAnswered'
  BY <1>1, <1>2, <1>3, <1>5, AnsweredStep
<1>12. NothingLost'
  BY <1>2, NothingLostStep
<1>13. ReviewedPublication'
  <2>1. \A b \in DOMAIN branches : Published(b)'
    BY <1>1, <1>2, <1>5, PublishedNow, PublishedStep
  <2> QED BY <1>1, <2>1, PublicationStep
<1> QED BY <1>6, <1>7, <1>8, <1>9, <1>10, <1>11, <1>12, <1>13

\* A step that changes the branches only, without their heads and policies, or
\* adds one.
LEMMA BranchesStep ==
  ASSUME IInv, UNCHANGED <<sequence, revisions, proposals, candidates, idempotency, now>>, Kept,
         DOMAIN branches' \subseteq Branches,
         \A b \in DOMAIN branches' : branches'[b] \in BranchType,
         \A b \in DOMAIN branches' : \/ /\ b \in DOMAIN branches
                                        /\ branches'[b].published = branches[b].published
                                     \/ Published(b)'
  PROVE  IInv'
<1> USE DEF IInv
<1>1. HistoryMoves
  BY DEF HistoryMoves
<1>2. ReviewsGrow
  BY DEF ReviewsGrow, Known, ProposalType
<1>3. /\ DOMAIN branches \subseteq DOMAIN branches'
      /\ \A b \in DOMAIN branches : branches'[b].policy = branches[b].policy
  BY DEF Kept, KeptBranch
<1>4. Known'
  <2>1. BranchType \subseteq BranchType' /\ ProposalType \subseteq ProposalType'
    BY <1>3, TypesGrow DEF Known
  <2> QED BY <1>3, <2>1 DEF Known
<1>5. Pending'
  <2>1. \A i \in DOMAIN candidates : Waits(i)'
    BY <1>1, PendingNow, WaitsOn DEF Waits, Known
  <2> QED BY <2>1, PendingNow, PendingStep
<1>6. Admitted'
  BY <1>3 DEF Admitted, IsReviewer, Known, ProposalType
<1>7. Sources'
  BY <1>1, <1>2, SourcesStep
<1>8. AnswersNumbered'
  BY NumberedStep
<1>9. EffectsAnswered'
  BY <1>1, <1>2, AnsweredStep
<1>10. NothingLost'
  BY <1>1, NothingLostStep
<1>11. ReviewedPublication'
  <2>1. \A b \in DOMAIN branches' : Published(b)'
    BY <1>1, <1>2, PublishedNow, PublishedStep
  <2> QED BY <2>1, PublicationStep
<1> QED BY <1>4, <1>5, <1>6, <1>7, <1>8, <1>9, <1>10, <1>11

LEMMA PublishStep ==
  ASSUME IInv, NEW actor, NEW branch, NEW r, PublishRevision(actor, branch, r)
  PROVE  IInv' /\ Kept /\ DOMAIN branches' = DOMAIN branches
<1> USE DEF IInv
<1>1. /\ UNCHANGED <<sequence, revisions, proposals, candidates, idempotency, now>>
      /\ branch \in DOMAIN branches /\ MayPublish(branch, r)
      /\ branches' = [branches EXCEPT ![branch].published = r]
  BY DEF PublishRevision, reviewVars
<1>2. branches[branch] \in BranchType /\ branches[branch].head = r
  BY <1>1 DEF Known, MayPublish, HeadOf
<1>3. /\ DOMAIN branches' = DOMAIN branches
      /\ \A b \in DOMAIN branches \ {branch} : branches'[b] = branches[b]
      /\ branches'[branch] = [head |-> r, policy |-> branches[branch].policy, published |-> r]
  BY <1>1, <1>2 DEF BranchType
<1>4. Kept
  BY ZenonT(60), <1>1, <1>2, <1>3 DEF Kept, KeptBranch
<1>5. branches'[branch] \in BranchType
  BY <1>2, <1>3 DEF BranchType
<1>6. Published(branch)'
  <2>1. InHistory(r, branch)'
    BY <1>3 DEF InHistory, HeadOf
  <2>2. branches[branch].policy.protected =>
          \E id \in revisions[r].proposal :
            HasRequiredApprovals(branches[branch].policy, proposals[id].approvals)
    BY <1>1 DEF MayPublish
  <2> QED BY <1>1, <1>3, <2>1, <2>2 DEF Published, HasRequiredApprovals
<1>7. \A b \in DOMAIN branches' : branches'[b] \in BranchType
  BY <1>3, <1>5 DEF Known
<1> QED BY <1>1, <1>3, <1>4, <1>6, <1>7, BranchesStep DEF Known

LEMMA CreateBranchStep ==
  ASSUME IInv, NEW branch \in Branches, NEW r, NEW policy \in BranchPolicies,
         CreateBranch(branch, r, policy)
  PROVE  IInv' /\ Kept
<1> USE DEF IInv
<1>1. /\ UNCHANGED <<sequence, revisions, proposals, candidates, idempotency, now>>
      /\ branch \notin DOMAIN branches /\ r \in DOMAIN revisions
      /\ branches' = Put(branches, branch, [head |-> r, policy |-> policy, published |-> None])
  BY DEF CreateBranch, reviewVars
<1>2. /\ DOMAIN branches' = DOMAIN branches \cup {branch}
      /\ branches'[branch] = [head |-> r, policy |-> policy, published |-> None]
      /\ \A b \in DOMAIN branches : branches'[b] = branches[b]
  BY <1>1 DEF Put
<1>3. Kept
  BY <1>1, <1>2 DEF Kept, KeptBranch
<1>4. policy \in Policies
  BY CollaborationAssumption
<1>5. branches'[branch] \in BranchType
  BY <1>1, <1>2, <1>4 DEF BranchType
<1>6. Published(branch)'
  BY <1>2 DEF Published
<1>7. \A b \in DOMAIN branches' : branches'[b] \in BranchType
  BY <1>2, <1>5 DEF Known
<1> QED BY <1>1, <1>2, <1>3, <1>6, <1>7, BranchesStep DEF Known

LEMMA UndoStep ==
  ASSUME IInv, NEW actor, NEW branch, NEW target, NEW key, UndoRevision(actor, branch, target, key)
  PROVE  IInv' /\ Committed(branch, sequence + 1, Revision(Compensation(branch, target), {}, target))
<1> USE DEF IInv
<1> DEFINE r == sequence + 1
           revision == Revision(Compensation(branch, target), {}, target)
           answer == [status |-> "accepted", revision |-> r]
<1> HIDE DEF revision, answer
<1>1. /\ UNCHANGED <<proposals, candidates, now>>
      /\ sequence' = sequence + 1
      /\ branch \in DOMAIN branches /\ branches[branch].head = target
      /\ UndoKey(actor, key) \notin DOMAIN idempotency
      /\ revisions' = Put(revisions, r, revision)
      /\ branches' = [branches EXCEPT ![branch].head = r]
      /\ idempotency' = Put(idempotency, UndoKey(actor, key), answer)
  BY DEF UndoRevision, reviewVars, Record, revision, answer, Compensation, HeadOf
<1>2. sequence \in Nat /\ DOMAIN revisions \subseteq 1..sequence
  BY DEF Known
<1>3. branches[branch] \in BranchType /\ target \in DOMAIN revisions
  BY <1>1 DEF Known, BranchType
<1>4. /\ revision.branch = branch /\ revision.parent = target
      /\ revision.proposal = {} /\ revision.compensates = target
  BY DEF revision, Revision, Compensation
<1>5. Committed(branch, r, revision)
  BY <1>1, <1>2, <1>4 DEF Committed, HeadOf, None
<1>6. /\ DOMAIN revisions' = DOMAIN revisions \cup {r}
      /\ revisions'[r] = revision
      /\ \A s \in DOMAIN revisions : revisions'[s] = revisions[s]
      /\ DOMAIN branches' = DOMAIN branches
      /\ branches'[branch] = [head |-> r, policy |-> branches[branch].policy,
                              published |-> branches[branch].published]
      /\ \A b \in DOMAIN branches \ {branch} : branches'[b] = branches[b]
  BY <1>5, CommittedFacts
<1>7. HistoryMoves
  BY <1>5 DEF HistoryMoves
<1>8. ReviewsGrow
  BY <1>1 DEF ReviewsGrow, Known, ProposalType
<1>9. Remembers(UndoKey(actor, key), answer) /\ answer.revision = sequence + 1
  BY <1>1 DEF Remembers, answer
<1>10. Known'
  <2>1. BranchType \subseteq BranchType' /\ ProposalType \subseteq ProposalType'
    BY <1>1, <1>6, TypesGrow
  <2>2. branches'[branch] \in BranchType'
    BY <1>3, <1>6 DEF BranchType
  <2>3. \A b \in DOMAIN branches' : branches'[b] \in BranchType'
    BY <1>6, <2>1, <2>2 DEF Known
  <2>4. \A q \in DOMAIN revisions' :
          /\ revisions'[q].branch \in DOMAIN branches'
          /\ revisions'[q].parent \in {None} \cup DOMAIN revisions'
          /\ revisions'[q].proposal \subseteq DOMAIN proposals'
    BY <1>1, <1>3, <1>4, <1>6 DEF Known
  <2>5. DOMAIN revisions' \subseteq 1..sequence'
    BY <1>1, <1>2, <1>6
  <2> QED BY <1>1, <1>6, <2>1, <2>3, <2>4, <2>5 DEF Known
<1>11. Pending'
  <2>1. \A i \in DOMAIN candidates : candidates[i].revision \notin DOMAIN revisions'
    BY <1>2, <1>6 DEF Pending
  <2>2. \A i \in DOMAIN candidates : Waits(i)'
    BY <1>1, <1>7, <2>1, PendingNow, WaitsOn DEF Waits
  <2> QED BY <1>1, <2>2, PendingNow, PendingStep
<1>12. Admitted'
  <2>1. \A i \in DOMAIN proposals : proposals[i].branch \in DOMAIN branches
    BY DEF Known, ProposalType
  <2>2. \A b \in DOMAIN branches : branches'[b].policy = branches[b].policy
    BY <1>6
  <2> QED BY <1>1, <2>1, <2>2 DEF Admitted, IsReviewer
<1>13. Sources'
  BY <1>4, <1>6, <1>7, <1>8, SourcesStep
<1>14. AnswersNumbered'
  BY <1>1, <1>9, NumberedStep
<1>15. EffectsAnswered'
  <2>1. AnswersAfter(r) = {UndoKey(actor, key)} /\ UndoKey(actor, key) \in DOMAIN idempotency'
    BY <1>9, FreshAnswer
  <2>2. \A q \in DOMAIN revisions' \ DOMAIN revisions :
          \E entry \in DOMAIN idempotency' : AnswersAfter(q) = {entry} /\ entry[2] = "undo"
    BY <1>6, <2>1 DEF UndoKey
  <2> QED BY <1>1, <1>7, <1>8, <1>9, <2>2, AnsweredStep
<1>16. NothingLost'
  BY <1>7, NothingLostStep
<1>17. ReviewedPublication'
  <2>1. \A b \in DOMAIN branches : branches'[b].published = branches[b].published
    BY <1>6
  <2>2. \A b \in DOMAIN branches' : Published(b)'
    BY <1>6, <1>7, <1>8, <2>1, PublishedNow, PublishedStep
  <2> QED BY <2>2, PublicationStep
<1> QED BY <1>5, <1>10, <1>11, <1>12, <1>13, <1>14, <1>15, <1>16, <1>17 DEF revision

-----------------------------------------------------------------------------
(* A submission is refused, waits or is committed.                         *)

LEMMA SubmitCases ==
  ASSUME IInv, NEW actor \in Actors, NEW id \in Proposals, NEW branch, NEW base \in DOMAIN revisions,
         NEW patch, NEW key, SubmitProposal(actor, id, branch, base, patch, key)
  PROVE  /\ IInv'
         /\ DOMAIN branches' = DOMAIN branches
         /\ Kept \/ \E r, revision : Committed(branch, r, revision)
<1>1. /\ UNCHANGED <<presence, now, follower>>
      /\ branch \in DOMAIN branches /\ id \notin DOMAIN proposals
      /\ ProposalKey(actor, key) \notin DOMAIN idempotency
      /\ sequence' = sequence + 1
  BY DEF SubmitProposal
<1>2. CASE /\ Record(ProposalKey(actor, key), "invalid", None)
           /\ UNCHANGED <<revisions, branches, proposals, candidates, events, latest>>
  <2>1. Remembers(ProposalKey(actor, key), [status |-> "invalid", revision |-> None])
    BY <1>1, <1>2 DEF Remembers, Record
  <2>2. IInv'
    BY <1>1, <1>2, <2>1, RefusalStep DEF IInv, Known
  <2> QED BY <1>2, <2>2 DEF Kept, KeptBranch
<1>3. ASSUME NEW document, RecordProposal(actor, id, key, base, Candidate(branch, patch, document))
      PROVE  /\ IInv'
             /\ DOMAIN branches' = DOMAIN branches
             /\ Kept \/ \E r, revision : Committed(branch, r, revision)
  <2> DEFINE candidate == Candidate(branch, patch, document)
  <2>1. /\ candidate.branch = branch /\ candidate.parent = HeadOf(branch)
        /\ candidate.revision = sequence + 1
    BY DEF Candidate
  <2> HIDE DEF candidate
  <2>2. Submits(actor, id, branch, base, candidate, key)
    BY <1>1, <2>1 DEF Submits
  <2>3. RecordProposal(actor, id, key, base, candidate)
    BY <1>3 DEF candidate
  <2>4. CASE branches[branch].policy.protected
    <3>1. /\ proposals' = Put(proposals, id, NewProposal(actor, branch, base, candidate))
          /\ candidates' = Put(candidates, id, candidate)
          /\ idempotency' = Put(idempotency, ProposalKey(actor, key),
                                [status |-> "reviewRequired", revision |-> candidate.revision])
          /\ UNCHANGED <<revisions, branches>>
      BY <2>1, <2>3, <2>4 DEF RecordProposal, Record
    <3>2. IInv'
      BY <2>2, <3>1, SubmitWaits
    <3> QED BY <3>1, <3>2 DEF Kept, KeptBranch
  <2>5. CASE ~branches[branch].policy.protected
    <3>1. /\ proposals' = Put(proposals, id, [NewProposal(actor, branch, base, candidate)
                                                EXCEPT !.status = "committed"])
          /\ CommitHistory(candidate, id)
          /\ idempotency' = Put(idempotency, ProposalKey(actor, key),
                                [status |-> "accepted", revision |-> candidate.revision])
          /\ UNCHANGED candidates
      BY <2>1, <2>3, <2>5 DEF RecordProposal, Record
    <3>2. IInv'
      BY <2>2, <2>5, <3>1, SubmitCommits
    <3>3. Committed(branch, candidate.revision, Revision(candidate, {id}, None))
      BY <1>1, <2>1, <3>1 DEF Committed, CommitHistory, Revision, IInv, Known, None
    <3>4. DOMAIN branches' = DOMAIN branches
      BY <3>1 DEF CommitHistory
    <3> QED BY <3>2, <3>3, <3>4
  <2> QED BY <2>4, <2>5
<1> QED BY <1>2, <1>3 DEF SubmitProposal

-----------------------------------------------------------------------------
(* The invariant.                                                          *)

LEMMA InitIInv ==
  ASSUME Init
  PROVE  IInv
<1>1. PICK g \in Genesis :
        /\ revisions = [r \in {1} |->
             [branch |-> "main", parent |-> None, document |-> g.document,
              changedPaths |-> {RootPath}, proposal |-> {}, compensates |-> None]]
        /\ branches = [b \in {"main"} |-> [head |-> 1, policy |-> g.policy, published |-> None]]
  BY DEF Init
<1>2. /\ sequence = 1 /\ proposals = <<>> /\ candidates = <<>> /\ idempotency = <<>> /\ now = 0
  BY DEF Init
<1>3. DOMAIN proposals = {} /\ DOMAIN candidates = {} /\ DOMAIN idempotency = {}
  BY <1>2
<1>4. /\ DOMAIN revisions = {1} /\ DOMAIN branches = {"main"}
      /\ revisions[1].branch = "main" /\ revisions[1].parent = None
      /\ revisions[1].proposal = {} /\ revisions[1].compensates = None
      /\ branches["main"].head = 1 /\ branches["main"].published = None
  BY <1>1
<1>5. Known
  <2>1. g.policy \in Policies /\ "main" \in Branches
    BY CollaborationAssumption
  <2>2. branches["main"] \in BranchType
    BY <1>1, <2>1 DEF BranchType
  <2> QED BY <1>2, <1>3, <1>4, <2>1, <2>2 DEF Known
<1>6. Pending /\ Admitted /\ AnswersNumbered
  BY <1>3 DEF Pending, Admitted, AnswersNumbered
<1>7. Sources /\ EffectsAnswered
  BY <1>3, <1>4 DEF Sources, EffectsAnswered
<1>8. NothingLost /\ ReviewedPublication
  BY <1>4 DEF NothingLost, ReviewedPublication, InHistory, HeadOf
<1> QED BY <1>5, <1>6, <1>7, <1>8 DEF IInv

\* What a step does to the branches and revisions.
HistoryStep ==
  \/ Kept /\ DOMAIN branches' = DOMAIN branches
  \/ Kept /\ \E branch \in Branches, r \in DOMAIN revisions, policy \in BranchPolicies :
               CreateBranch(branch, r, policy)
  \/ \E branch, r, revision : Committed(branch, r, revision)

LEMMA NextIInv ==
  ASSUME IInv, [Next]_vars
  PROVE  IInv' /\ HistoryStep
<1>1. ASSUME NEW actor \in Actors, NEW id \in Proposals, NEW branch \in Branches,
             NEW base \in DOMAIN revisions, NEW patch \in Patches, NEW key \in Keys,
             SubmitProposal(actor, id, branch, base, patch, key)
      PROVE  IInv' /\ HistoryStep
  BY <1>1, SubmitCases DEF HistoryStep
<1>2. ASSUME NEW actor \in Actors, NEW branch \in Branches, NEW key \in Keys,
             RefuseProposal(actor, branch, key)
      PROVE  IInv' /\ HistoryStep
  <2>1. UNCHANGED <<sequence, revisions, branches, proposals, candidates, now>>
    BY <1>2 DEF RefuseProposal, historyVars, reviewVars
  <2>2. \E entry, answer : Remembers(entry, answer) /\ answer.revision = None
    BY <1>2 DEF RefuseProposal, Record, Remembers
  <2>3. IInv'
    BY <2>1, <2>2, RefusalStep DEF IInv, Known
  <2> QED BY <2>1, <2>3 DEF HistoryStep, Kept, KeptBranch
<1>3. ASSUME NEW actor \in Actors, NEW id \in Proposals, NEW r \in 1..MaxRevision,
             ApproveProposal(actor, id, r)
      PROVE  IInv' /\ HistoryStep
  <2>1. CASE ApprovalWaits(actor, id)
    <3>1. IInv'
      BY <2>1, ApprovalWaitsStep
    <3> QED BY <2>1, <3>1 DEF ApprovalWaits, HistoryStep, Kept, KeptBranch
  <2>2. CASE ApprovalCommits(actor, id)
    BY <2>2, ApprovalCommitsStep DEF HistoryStep
  <2> QED BY <1>3, <2>1, <2>2, ApprovalCases DEF IInv
<1>4. ASSUME NEW actor \in Actors, NEW id \in Proposals, CommentOnProposal(actor, id)
      PROVE  IInv' /\ HistoryStep
  <2>1. IInv'
    BY <1>4, CommentStep
  <2> QED BY <1>4, <2>1 DEF CommentOnProposal, historyVars, HistoryStep, Kept, KeptBranch
<1>5. ASSUME NEW actor \in Actors, NEW branch \in Branches, NEW r \in DOMAIN revisions,
             PublishRevision(actor, branch, r)
      PROVE  IInv' /\ HistoryStep
  BY <1>5, PublishStep DEF HistoryStep
<1>6. ASSUME NEW actor \in Actors, NEW branch \in Branches, NEW r \in DOMAIN revisions,
             NEW key \in Keys, UndoRevision(actor, branch, r, key)
      PROVE  IInv' /\ HistoryStep
  BY <1>6, UndoStep DEF HistoryStep
<1>7. ASSUME NEW actor \in Actors, NEW branch \in Branches, NEW key \in Keys,
             RefuseUndo(actor, branch, key)
      PROVE  IInv' /\ HistoryStep
  <2>1. UNCHANGED <<sequence, revisions, branches, proposals, candidates, now>>
    BY <1>7 DEF RefuseUndo, historyVars, reviewVars
  <2>2. \E entry, answer : Remembers(entry, answer) /\ answer.revision = None
    BY <1>7 DEF RefuseUndo, Record, Remembers
  <2>3. IInv'
    BY <2>1, <2>2, RefusalStep DEF IInv, Known
  <2> QED BY <2>1, <2>3 DEF HistoryStep, Kept, KeptBranch
<1>8. ASSUME NEW branch \in Branches, NEW r \in DOMAIN revisions, NEW policy \in BranchPolicies,
             CreateBranch(branch, r, policy)
      PROVE  IInv' /\ HistoryStep
  BY <1>8, CreateBranchStep DEF HistoryStep
<1>9. ASSUME \/ \E actor \in Actors, branch \in Branches : UpdatePresence(actor, branch)
             \/ Tick \/ ResumeEvents \/ ReadBranches \/ UNCHANGED vars
      PROVE  IInv' /\ HistoryStep
  <2>1. /\ UNCHANGED <<sequence, revisions, branches, proposals, candidates, idempotency>>
        /\ now' \in {now, now + 1}
    BY <1>9 DEF UpdatePresence, Tick, ResumeEvents, ReadBranches, vars, historyVars, reviewVars
  <2>2. now' \in Nat
    BY <2>1 DEF IInv, Known
  <2>3. IInv'
    BY <2>1, <2>2, RefusalStep
  <2> QED BY <2>1, <2>3 DEF HistoryStep, Kept, KeptBranch
<1> QED BY <1>1, <1>2, <1>3, <1>4, <1>5, <1>6, <1>7, <1>8, <1>9 DEF Next

LEMMA Invariance == Spec => []IInv
<1>1. IInv /\ [Next]_vars => IInv'
  BY NextIInv
<1> QED BY InitIInv, <1>1, PTL DEF Spec

-----------------------------------------------------------------------------
(* The results.                                                            *)

(* Nothing committed is lost: every revision stays in the history of the   *)
(* head of its branch, whatever submissions, late approvals and undos of   *)
(* several actors do (recordProposal, finishApprovedProposal, undoRevision).*)
THEOREM CommitsKept == Spec => []NothingLost
<1>1. IInv => NothingLost
  BY DEF IInv
<1> QED BY <1>1, Invariance, PTL

(* A proposal that reached a protected branch had enough approvals of      *)
(* distinct reviewers the branch admits, none of them its author where     *)
(* duties are separated (approveProposal, hasRequiredApprovals).           *)
THEOREM ProtectedHistoryReviewed == Spec => []ReviewedHistory
<1>1. IInv => ReviewedHistory
  <2> SUFFICES ASSUME IInv, NEW r \in DOMAIN revisions, NEW id \in revisions[r].proposal,
                      branches[revisions[r].branch].policy.protected
               PROVE  Reviewed(id, branches[revisions[r].branch].policy)
    BY DEF ReviewedHistory
  <2> DEFINE policy == branches[revisions[r].branch].policy
             reviewers == {a \in proposals[id].approvals :
                             /\ IsReviewer(policy, a)
                             /\ policy.separateAuthorAndReviewer => a # proposals[id].author}
  <2>1. /\ proposals[id].branch = revisions[r].branch
        /\ HasRequiredApprovals(policy, proposals[id].approvals)
    BY DEF IInv, Sources
  <2>2. id \in DOMAIN proposals
    BY DEF IInv, Known
  <2>3. reviewers = proposals[id].approvals
    BY <2>1, <2>2 DEF IInv, Admitted
  <2> QED BY <2>1, <2>3 DEF Reviewed
<1> QED BY <1>1, Invariance, PTL

(* A protected branch publishes a revision of its history that a proposal  *)
(* with the required approvals produced, and goes on doing so              *)
(* (revisionMayPublish).                                                   *)
THEOREM PublicationsReviewed == Spec => []ReviewedPublication
<1>1. IInv => ReviewedPublication
  BY DEF IInv
<1> QED BY <1>1, Invariance, PTL

(* Each proposal and each compensation is the answer of exactly one key,   *)
(* so repeating a request never adds another one (recordIdempotency).      *)
THEOREM EffectsOnce == Spec => []EffectsAnswered
<1>1. IInv => EffectsAnswered
  BY DEF IInv
<1> QED BY <1>1, Invariance, PTL

\* A closed proposal stays closed, and a late approval is refused.
LEMMA LateApproval ==
  ASSUME IInv, [Next]_vars, NEW id \in DOMAIN proposals
  PROVE  /\ (proposals'[id].approvals # proposals[id].approvals /\ proposals[id].expires # None) =>
              now < proposals[id].expires
         /\ proposals[id].status # "pending" => proposals'[id].status = proposals[id].status
<1> USE DEF IInv
<1> DEFINE Closed == /\ proposals'[id].approvals = proposals[id].approvals
                     /\ proposals'[id].status = proposals[id].status
<1>1. ASSUME NEW actor \in Actors, NEW i \in Proposals, NEW r \in 1..MaxRevision,
             ApproveProposal(actor, i, r)
      PROVE  /\ (proposals'[id].approvals # proposals[id].approvals /\ proposals[id].expires # None) =>
                  now < proposals[id].expires
             /\ proposals[id].status # "pending" => proposals'[id].status = proposals[id].status
  <2>1. proposals[id] \in ProposalType
    BY DEF Known
  <2>2. CASE i # id
    <3>1. ApprovalWaits(actor, i) \/ ApprovalCommits(actor, i)
      BY <1>1, ApprovalCases
    <3>2. \E new : proposals' = Put(proposals, i, new)
      BY <3>1 DEF ApprovalWaits, ApprovalCommits
    <3> QED BY <2>2, <3>2 DEF Put
  <2>3. CASE i = id
    <3>1. proposals[id].expires # None => now < proposals[id].expires
      BY <1>1, <2>3 DEF ApproveProposal, MayApprove
    <3>2. CASE ApprovalWaits(actor, id)
      <4>1. \/ proposals'[id].status = proposals[id].status
            \/ id \in DOMAIN candidates /\ proposals'[id].status = "stale"
        <5>1. \/ proposals'[id] = ApprovedBy(actor, id)
              \/ /\ id \in DOMAIN candidates
                 /\ proposals'[id] = [ApprovedBy(actor, id) EXCEPT !.status = "stale"]
          BY <3>2 DEF ApprovalWaits, Put
        <5>2. /\ ApprovedBy(actor, id).status = proposals[id].status
              /\ [ApprovedBy(actor, id) EXCEPT !.status = "stale"].status = "stale"
          BY <2>1 DEF ApprovedBy, ProposalType
        <5> QED BY <5>1, <5>2
      <4>2. id \in DOMAIN candidates /\ proposals[id].status # "pending" => proposals[id].status = "stale"
        BY <2>1 DEF Pending, ProposalType
      <4> QED BY <3>1, <4>1, <4>2
    <3>3. CASE ApprovalCommits(actor, id)
      <4>1. id \in DOMAIN candidates /\ candidates[id].parent = HeadOf(proposals[id].branch)
        BY <3>3 DEF ApprovalCommits
      <4>2. proposals[id].status = "pending"
        BY <2>1, <4>1 DEF Pending, ProposalType
      <4> QED BY <3>1, <4>2
    <3> QED BY <1>1, <2>3, <3>2, <3>3, ApprovalCases
  <2> QED BY <2>2, <2>3
<1>2. ASSUME NEW actor \in Actors, NEW i \in Proposals, CommentOnProposal(actor, i)
      PROVE  Closed
  <2>1. proposals[id] \in ProposalType
    BY DEF Known
  <2>2. \/ proposals'[id] = proposals[id]
        \/ proposals'[id] = [proposals[id] EXCEPT !.comments = @ + 1]
    BY <1>2 DEF CommentOnProposal
  <2> QED BY <2>1, <2>2 DEF ProposalType
<1>3. ASSUME NEW actor \in Actors, NEW i \in Proposals, NEW branch \in Branches,
             NEW base \in DOMAIN revisions, NEW patch \in Patches, NEW key \in Keys,
             SubmitProposal(actor, i, branch, base, patch, key)
      PROVE  Closed
  <2>1. proposals'[id] = proposals[id]
    <3>1. i # id
      BY <1>3 DEF SubmitProposal
    <3>2. proposals' = proposals \/ \E new : proposals' = Put(proposals, i, new)
      BY <1>3 DEF SubmitProposal, RecordProposal
    <3> QED BY <3>1, <3>2 DEF Put
  <2> QED BY <2>1
<1>4. CASE \/ \E actor \in Actors, branch \in Branches, key \in Keys :
                RefuseProposal(actor, branch, key) \/ RefuseUndo(actor, branch, key)
           \/ \E actor \in Actors, branch \in Branches, r \in DOMAIN revisions :
                PublishRevision(actor, branch, r)
           \/ \E actor \in Actors, branch \in Branches, r \in DOMAIN revisions, key \in Keys :
                UndoRevision(actor, branch, r, key)
           \/ \E actor \in Actors, branch \in Branches : UpdatePresence(actor, branch)
           \/ \E branch \in Branches, r \in DOMAIN revisions, policy \in BranchPolicies :
                CreateBranch(branch, r, policy)
           \/ Tick \/ ResumeEvents \/ ReadBranches \/ UNCHANGED vars
  <2>1. proposals' = proposals
    BY ZenonT(60), <1>4 DEF RefuseProposal, RefuseUndo, PublishRevision, UndoRevision, UpdatePresence,
                CreateBranch, Tick, ResumeEvents, ReadBranches, vars, reviewVars
  <2> QED BY <2>1
<1> QED BY <1>1, <1>2, <1>3, <1>4 DEF Next

(* An approval never reaches a proposal whose time is over, and a proposal *)
(* that is stale or committed stays so, although approvalDiagnostic does   *)
(* not look at the status.                                                 *)
THEOREM ClosedProposalsStayClosed == Spec => LateApprovalRefused
<1>1. IInv /\ [Next]_vars =>
        [\A id \in DOMAIN proposals :
           LET old == proposals[id]
               new == proposals'[id]
           IN /\ (new.approvals # old.approvals /\ old.expires # None) => now < old.expires
              /\ old.status # "pending" => new.status = old.status]_vars
  BY LateApproval
<1> QED BY <1>1, Invariance, PTL DEF Spec, LateApprovalRefused

-----------------------------------------------------------------------------
(* The refinement.                                                         *)

LEMMA HistoryInit == Init => History!Init
BY DEF Init, History!Init

LEMMA HistoryNext ==
  ASSUME IInv, [Next]_vars
  PROVE  [History!Next]_(History!vars)
<1> DEFINE head == [b \in DOMAIN branches |-> branches[b].head]
           parent == [r \in DOMAIN revisions |-> revisions[r].parent]
<1>1. CASE Kept /\ DOMAIN branches' = DOMAIN branches
  BY <1>1 DEF Kept, KeptBranch, History!vars
<1>2. CASE Kept /\ \E branch \in Branches, r \in DOMAIN revisions, policy \in BranchPolicies :
                     CreateBranch(branch, r, policy)
  <2>1. PICK branch \in Branches, r \in DOMAIN revisions, policy \in BranchPolicies :
          CreateBranch(branch, r, policy)
    BY <1>2
  <2>2. /\ revisions' = revisions /\ branch \notin DOMAIN branches
        /\ branches' = Put(branches, branch, [head |-> r, policy |-> policy, published |-> None])
    BY <2>1 DEF CreateBranch
  <2>3. head' = [b \in DOMAIN head \cup {branch} |-> IF b = branch THEN r ELSE head[b]]
    BY <2>2 DEF Put
  <2>4. History!Open(branch, r)
    BY <2>2, <2>3 DEF History!Open
  <2> QED BY <2>4 DEF History!Next
<1>3. ASSUME NEW branch, NEW r, NEW revision, Committed(branch, r, revision)
      PROVE  History!Next
  <2>1. /\ DOMAIN revisions' = DOMAIN revisions \cup {r}
        /\ revisions'[r] = revision
        /\ \A q \in DOMAIN revisions : revisions'[q] = revisions[q]
        /\ DOMAIN branches' = DOMAIN branches
        /\ branches'[branch] = [head |-> r, policy |-> branches[branch].policy,
                                published |-> branches[branch].published]
        /\ \A b \in DOMAIN branches \ {branch} : branches'[b] = branches[b]
    BY <1>3, CommittedFacts DEF IInv
  <2>2. /\ branch \in DOMAIN branches /\ r \in Nat /\ r \notin DOMAIN revisions
        /\ revision.parent = branches[branch].head
    BY <1>3 DEF Committed, HeadOf
  <2>3. parent' = [s \in DOMAIN parent \cup {r} |-> IF s = r THEN head[branch] ELSE parent[s]]
    BY <2>1, <2>2
  <2>4. head' = [head EXCEPT ![branch] = r]
    <3>1. \A b \in DOMAIN branches : branches'[b].head = IF b = branch THEN r ELSE branches[b].head
      BY <2>1
    <3> QED BY <2>1, <3>1
  <2>5. History!Commit(branch, r)
    BY <2>2, <2>3, <2>4 DEF History!Commit
  <2>6. branch \in DOMAIN head /\ r \in (DOMAIN parent') \ DOMAIN parent
    BY <2>1, <2>2
  <2> QED BY <2>5, <2>6 DEF History!Next
<1> QED BY <1>1, <1>2, <1>3, NextIInv DEF HistoryStep

(* The service implements the promise of its history: a branch only moves  *)
(* to a new revision made on top of its head, and revisions are never      *)
(* changed, removed or used twice.                                         *)
THEOREM RefinesBranchHistory == Spec => HistorySpec
<1>1. IInv /\ [Next]_vars => [History!Next]_(History!vars)
  BY HistoryNext
<1> QED BY HistoryInit, <1>1, Invariance, PTL DEF Spec, HistorySpec, History!Spec

-----------------------------------------------------------------------------
(* The log and its follower.  In every log the last event about a branch   *)
(* names its head, and the last publication its published revision; what   *)
(* a follower without a gap has not been told of a branch is among the     *)
(* events after its cursor.                                                *)

OtherTypes == {"proposalCreated", "approvalRecorded", "commentAdded", "presenceChanged"}
HeadTypes == {"revisionPublished", "revisionCommitted"}
PublicationTypes == {"revisionPublished"}
EventRecord == [type : HeadTypes \cup OtherTypes, branch : Branches, revision : Nat]
About(event, b, types) == event.branch = b /\ event.type \in types

\* The last event of a type about a branch names the value.
Named(log, b, types, value) ==
  \A i \in 1..Len(log) :
    About(log[i], b, types) /\ (\A j \in 1..Len(log) : j > i => ~About(log[j], b, types)) =>
      log[i].revision = value
\* Every event of a type about a branch is among the first n.
Within(log, b, types, n) == \A i \in 1..Len(log) : About(log[i], b, types) => i <= n

Missed == latest - Len(events)

LogTyped ==
  /\ latest \in Nat /\ events \in Seq(EventRecord)
  /\ Len(events) <= latest /\ Len(events) <= EventCapacity
  /\ \A i \in 1..Len(events) : events[i].branch \in DOMAIN branches
  /\ follower.cursor \in 0..latest
  /\ \A b \in DOMAIN follower.view :
       follower.view[b] = [head |-> follower.view[b].head, published |-> follower.view[b].published]

LogNames ==
  \A b \in DOMAIN branches :
    /\ Named(events, b, HeadTypes, branches[b].head)
    /\ Named(events, b, PublicationTypes, branches[b].published)

\* What the follower knows of a branch, if its unread events say nothing of it.
KnownHead(view, b) == b \in DOMAIN view => view[b].head = branches[b].head
KnownPublished(view, b) == branches[b].published = IF b \in DOMAIN view THEN view[b].published ELSE None

Follows ==
  (~follower.reading /\ Missed <= follower.cursor) =>
    /\ DOMAIN follower.view \subseteq DOMAIN branches
    /\ \A b \in DOMAIN branches :
         /\ Within(events, b, HeadTypes, follower.cursor - Missed) => KnownHead(follower.view, b)
         /\ Within(events, b, PublicationTypes, follower.cursor - Missed) =>
              KnownPublished(follower.view, b)

LogInv == LogTyped /\ LogNames /\ Follows

(* A nonempty set of positions of a sequence has a last one.               *)
LEMMA LastPosition ==
  ASSUME NEW n \in Nat, NEW S \in SUBSET (1..n), S # {}
  PROVE  Max(S) \in S /\ \A m \in S : m <= Max(S)
<1> DEFINE T == {n - m : m \in S}
           R == OpToRel(<, Nat)
<1>1. R = {ss \in Nat \X Nat : ss[1] < ss[2]}
  BY DEF OpToRel
<1>2. IsWellFoundedOn(R, Nat)
  BY NatLessThanWellFounded
<1>3. T \in SUBSET Nat /\ T # {}
  <2>1. \A m \in S : n - m \in Nat
    OBVIOUS
  <2>2. PICK m : m \in S
    OBVIOUS
  <2> QED BY <2>1, <2>2
<1> HIDE DEF R
<1>4. \E x \in T : \A y \in T : ~(<<y, x>> \in R)
  <2> HIDE DEF T
  <2> QED BY <1>2, <1>3, WFMin
<1>5. PICK x \in T : \A y \in T : ~(<<y, x>> \in R)
  BY <1>4
<1>6. \A y \in T : ~(y < x)
  BY <1>1, <1>3, <1>5
<1>7. PICK m \in S : x = n - m
  BY <1>5
<1>8. \A k \in S : m >= k
  BY <1>6, <1>7
<1>9. Max(S) = CHOOSE k \in S : \A y \in S : k >= y
  BY DEF Max
<1>10. Max(S) \in S /\ \A y \in S : Max(S) >= y
  BY <1>8, <1>9, Zenon
<1> QED BY <1>10

\* The log after a step: d of the oldest events are gone.
Appended(emitted, d) ==
  /\ emitted \in Seq(EventRecord) /\ d \in Nat
  /\ latest' = latest + Len(emitted)
  /\ events' \in Seq(EventRecord)
  /\ Len(events') = Len(events) + Len(emitted) - d
  /\ Len(events') <= EventCapacity
  /\ \A i \in 1..Len(events') :
       /\ i + d <= Len(events) => events'[i] = events[i + d]
       /\ i + d > Len(events) => events'[i] = emitted[(i + d) - Len(events)]
  /\ emitted # <<>> => Len(events') >= 1

LEMMA AppendFacts ==
  ASSUME LogTyped, NEW emitted \in Seq(EventRecord), Emit(emitted)
  PROVE  \E d : Appended(emitted, d)
<1> DEFINE all == events \o emitted
<1>1. /\ all \in Seq(EventRecord) /\ Len(all) = Len(events) + Len(emitted)
      /\ \A i \in 1..Len(all) : all[i] = IF i <= Len(events) THEN events[i] ELSE emitted[i - Len(events)]
  BY DEF LogTyped
<1>2. EventCapacity \in Nat \ {0}
  BY CollaborationAssumption
<1>3. latest' = latest + Len(emitted) /\ events' = Retained(all)
  BY DEF Emit
<1>4. Len(events) \in Nat /\ Len(emitted) \in Nat
  BY DEF LogTyped
<1>5. emitted # <<>> => Len(emitted) >= 1
  OBVIOUS
<1>8. \A m \in 1..Len(all) : /\ m <= Len(events) => all[m] = events[m]
                             /\ m > Len(events) => all[m] = emitted[m - Len(events)]
  BY <1>1, <1>4
<1> HIDE DEF all
<1>6. CASE Len(all) <= EventCapacity
  <2>1. events' = all
    BY <1>3, <1>6 DEF Retained
  <2>2. /\ events' \in Seq(EventRecord) /\ Len(events') = Len(events) + Len(emitted) - 0
        /\ Len(events') <= EventCapacity /\ (emitted # <<>> => Len(events') >= 1)
    BY <1>1, <1>4, <1>5, <1>6, <2>1
  <2>3. \A i \in 1..Len(events') :
          /\ i + 0 <= Len(events) => events'[i] = events[i + 0]
          /\ i + 0 > Len(events) => events'[i] = emitted[(i + 0) - Len(events)]
    <3> SUFFICES ASSUME NEW i \in 1..Len(all)
                 PROVE  /\ i + 0 <= Len(events) => all[i] = events[i + 0]
                        /\ i + 0 > Len(events) => all[i] = emitted[(i + 0) - Len(events)]
      BY <2>1
    <3>1. i + 0 = i
      BY <1>1, <1>4
    <3> QED BY <1>8, <3>1
  <2>4. Appended(emitted, 0)
    BY <1>3, <2>2, <2>3 DEF Appended
  <2> QED BY <2>4
<1>7. CASE ~(Len(all) <= EventCapacity)
  <2> DEFINE d == Len(all) - EventCapacity
  <2>1. events' = SubSeq(all, d + 1, Len(all))
    BY <1>3, <1>7 DEF Retained
  <2>2. d \in Nat /\ d < Len(all)
    BY <1>1, <1>2, <1>4, <1>7
  <2>3. /\ events' \in Seq(EventRecord) /\ Len(events') = Len(all) - d
        /\ \A i \in 1..Len(events') : events'[i] = all[i + d]
    <3> HIDE DEF d
    <3>1. d + 1 \in 1..Len(all) /\ Len(all) \in 1..Len(all) /\ Len(all) - (d + 1) + 1 = Len(all) - d
      BY <1>1, <1>4, <2>2
    <3>2. events' \in Seq(EventRecord)
      BY <1>1, <2>1, <3>1
    <3>3. Len(events') = Len(all) - d
      BY <1>1, <1>4, <2>1, <2>2, <3>1
    <3>4. \A i \in 1..(Len(all) - d) : events'[i] = all[i + d]
      BY <1>1, <1>4, <2>1, <2>2, <3>1
    <3> QED BY <3>2, <3>3, <3>4
  <2>4. Len(events') = EventCapacity
    BY <1>1, <1>2, <1>4, <2>3
  <2>5. \A i \in 1..Len(events') :
          /\ i + d <= Len(events) => events'[i] = events[i + d]
          /\ i + d > Len(events) => events'[i] = emitted[(i + d) - Len(events)]
    <3> HIDE DEF d
    <3> SUFFICES ASSUME NEW i \in 1..Len(events')
                 PROVE  /\ i + d <= Len(events) => events'[i] = events[i + d]
                        /\ i + d > Len(events) => events'[i] = emitted[(i + d) - Len(events)]
      OBVIOUS
    <3>1. i + d \in 1..Len(all)
      BY <1>1, <1>4, <2>2, <2>3
    <3>2. events'[i] = all[i + d]
      BY <2>3
    <3>3. i + d <= Len(events) => all[i + d] = events[i + d]
      BY <1>8, <3>1, Zenon
    <3>4. i + d > Len(events) => all[i + d] = emitted[(i + d) - Len(events)]
      <4>1. PICK m \in 1..Len(all) : m = i + d
        BY <3>1
      <4>2. m > Len(events) => all[m] = emitted[m - Len(events)]
        BY <1>8
      <4> QED BY <4>1, <4>2, Zenon
    <3> QED BY <3>2, <3>3, <3>4
  <2>6. Appended(emitted, d)
    <3> HIDE DEF d
    <3> QED BY <1>1, <1>2, <1>3, <1>4, <2>2, <2>3, <2>4, <2>5 DEF Appended
  <2> QED BY <2>6
<1> QED BY <1>6, <1>7

\* A step that leaves the log alone appends nothing.
LEMMA NothingAppended ==
  ASSUME LogTyped, UNCHANGED logVars
  PROVE  Appended(<<>>, 0)
BY DEF LogTyped, logVars, Appended

LEMMA AppendedFacts ==
  ASSUME LogTyped, NEW emitted, NEW d, Appended(emitted, d)
  PROVE  /\ d \in Nat /\ Len(events) \in Nat /\ Len(emitted) \in Nat /\ Len(events') \in Nat
         /\ Len(events') = Len(events) + Len(emitted) - d
         /\ \A k \in 1..Len(events') : k + d <= Len(events) => events'[k] = events[k + d]
         /\ \A k \in 1..Len(events') : k + d > Len(events) => events'[k] = emitted[(k + d) - Len(events)]
         /\ emitted # <<>> => Len(events') >= 1 /\ Len(emitted) \in Nat \ {0}
<1>1. d \in Nat /\ emitted \in Seq(EventRecord) /\ events' \in Seq(EventRecord)
  BY DEF Appended
<1>2. events \in Seq(EventRecord)
  BY DEF LogTyped
<1>3. Len(events) \in Nat /\ Len(emitted) \in Nat /\ Len(events') \in Nat
  BY <1>1, <1>2
<1>4. emitted # <<>> => Len(emitted) # 0
  BY <1>1
<1> QED BY <1>1, <1>3, <1>4 DEF Appended

\* What is not told of again stays named.
LEMMA NamedOn ==
  ASSUME LogTyped, NEW emitted, NEW d, Appended(emitted, d), NEW b, NEW types, NEW value,
         \A k \in 1..Len(emitted) : ~About(emitted[k], b, types),
         Named(events, b, types, value)
  PROVE  Named(events', b, types, value)
<1> SUFFICES ASSUME NEW i \in 1..Len(events'), About(events'[i], b, types),
                    \A j \in 1..Len(events') : j > i => ~About(events'[j], b, types)
             PROVE  events'[i].revision = value
  BY DEF Named
<1>1. /\ d \in Nat /\ Len(events) \in Nat /\ Len(emitted) \in Nat /\ Len(events') \in Nat
      /\ Len(events') = Len(events) + Len(emitted) - d
      /\ \A k \in 1..Len(events') : k + d <= Len(events) => events'[k] = events[k + d]
      /\ \A k \in 1..Len(events') : k + d > Len(events) => events'[k] = emitted[(k + d) - Len(events)]
      /\ emitted # <<>> => Len(events') >= 1 /\ Len(emitted) \in Nat \ {0}
  BY AppendedFacts
<1>2. i + d <= Len(events)
  <2> SUFFICES ASSUME i + d > Len(events) PROVE FALSE
    BY <1>1
  <2>1. (i + d) - Len(events) \in 1..Len(emitted)
    BY <1>1
  <2> QED BY <1>1, <2>1
<1>3. events'[i] = events[i + d] /\ i + d \in 1..Len(events)
  BY <1>1, <1>2
<1>4. ASSUME NEW j \in 1..Len(events), j > i + d
      PROVE  ~About(events[j], b, types)
  <2>1. CASE j - d \in 1..Len(events')
    <3>1. (j - d) + d = j /\ j - d > i /\ j <= Len(events)
      BY <1>1, <1>4
    <3>2. events'[j - d] = events[j]
      BY <1>1, <2>1, <3>1
    <3> QED BY <2>1, <3>1, <3>2
  <2>2. j - d \in 1..Len(events')
    BY <1>1, <1>4
  <2> QED BY <2>1, <2>2
<1> QED BY <1>3, <1>4 DEF Named

\* The last event of those appended is the last of the log.
LEMMA NamedAnew ==
  ASSUME LogTyped, NEW emitted, NEW d, Appended(emitted, d), NEW b, NEW types, emitted # <<>>,
         About(emitted[Len(emitted)], b, types)
  PROVE  /\ Named(events', b, types, emitted[Len(emitted)].revision)
         /\ \A n \in Int : n < Len(events') => ~Within(events', b, types, n)
<1>1. /\ d \in Nat /\ Len(events) \in Nat /\ Len(emitted) \in Nat /\ Len(events') \in Nat
      /\ Len(events') = Len(events) + Len(emitted) - d
      /\ \A k \in 1..Len(events') : k + d <= Len(events) => events'[k] = events[k + d]
      /\ \A k \in 1..Len(events') : k + d > Len(events) => events'[k] = emitted[(k + d) - Len(events)]
      /\ emitted # <<>> => Len(events') >= 1 /\ Len(emitted) \in Nat \ {0}
  BY AppendedFacts
<1>2. /\ Len(events') \in 1..Len(events') /\ Len(events') + d > Len(events)
      /\ (Len(events') + d) - Len(events) = Len(emitted)
  BY <1>1
<1>3. events'[Len(events')] = emitted[Len(emitted)]
  BY <1>1, <1>2
<1>4. \A i \in 1..Len(events') : i = Len(events') \/ Len(events') > i
  <2>1. Len(events') \in Nat
    BY <1>1
  <2> QED BY <2>1
<1>5. Named(events', b, types, emitted[Len(emitted)].revision)
  BY <1>2, <1>3, <1>4 DEF Named
<1>6. \A n \in Int : n < Len(events') => ~Within(events', b, types, n)
  BY <1>1, <1>2, <1>3 DEF Within
<1> QED BY <1>5, <1>6

\* What is within the first n of the new log was within the first n + d.
LEMMA WithinBefore ==
  ASSUME LogTyped, NEW emitted, NEW d, Appended(emitted, d), NEW b, NEW types, NEW n \in Nat,
         Within(events', b, types, n)
  PROVE  Within(events, b, types, n + d)
<1>1. /\ d \in Nat /\ Len(events) \in Nat /\ Len(emitted) \in Nat /\ Len(events') \in Nat
      /\ Len(events') = Len(events) + Len(emitted) - d
      /\ \A k \in 1..Len(events') : k + d <= Len(events) => events'[k] = events[k + d]
      /\ \A k \in 1..Len(events') : k + d > Len(events) => events'[k] = emitted[(k + d) - Len(events)]
      /\ emitted # <<>> => Len(events') >= 1 /\ Len(emitted) \in Nat \ {0}
  BY AppendedFacts
<1> SUFFICES ASSUME NEW i \in 1..Len(events), About(events[i], b, types), i > d
             PROVE  i <= n + d
  BY <1>1 DEF Within
<1>2. i - d \in 1..Len(events') /\ (i - d) + d = i
  BY <1>1
<1>3. events'[i - d] = events[i]
  BY <1>1, <1>2
<1>4. i - d <= n
  BY <1>2, <1>3 DEF Within
<1> QED BY <1>1, <1>4

\* What a step keeps that tells the follower nothing new: the heads and the
\* publications of the branches, a new branch being unpublished.
KeptTold ==
  /\ follower' = follower
  /\ DOMAIN branches \subseteq DOMAIN branches'
  /\ \A b \in DOMAIN branches :
       branches'[b].head = branches[b].head /\ branches'[b].published = branches[b].published
  /\ \A b \in DOMAIN branches' \ DOMAIN branches : branches'[b].published = None

LEMMA TypedStep ==
  ASSUME LogTyped, NEW emitted, NEW d, Appended(emitted, d), follower' = follower,
         DOMAIN branches \subseteq DOMAIN branches',
         \A k \in 1..Len(emitted) : emitted[k].branch \in DOMAIN branches
  PROVE  LogTyped' /\ Missed' = Missed + d
<1>1. /\ d \in Nat /\ Len(events) \in Nat /\ Len(emitted) \in Nat /\ Len(events) <= latest
      /\ latest \in Nat /\ latest' = latest + Len(emitted)
      /\ Len(events') = Len(events) + Len(emitted) - d
      /\ events' \in Seq(EventRecord) /\ Len(events') <= EventCapacity
      /\ \A k \in 1..Len(events') : k + d <= Len(events) => events'[k] = events[k + d]
      /\ \A k \in 1..Len(events') : k + d > Len(events) => events'[k] = emitted[(k + d) - Len(events)]
  BY DEF Appended, LogTyped
<1>2. Len(events') <= latest' /\ latest' \in Nat /\ latest <= latest'
  BY <1>1
<1>3. Missed' = Missed + d
  BY <1>1 DEF Missed
<1>4. ASSUME NEW i \in 1..Len(events')
      PROVE  events'[i].branch \in DOMAIN branches'
  <2>1. CASE i + d <= Len(events)
    <3>1. i + d \in 1..Len(events)
      BY <1>1, <2>1
    <3>2. events'[i] = events[i + d]
      BY <1>1, <2>1
    <3> QED BY <3>1, <3>2 DEF LogTyped
  <2>2. CASE i + d > Len(events)
    <3>1. (i + d) - Len(events) \in 1..Len(emitted)
      BY <1>1, <2>2
    <3>2. events'[i] = emitted[(i + d) - Len(events)]
      BY <1>1, <2>2
    <3> QED BY <3>1, <3>2
  <2> QED BY <1>1, <2>1, <2>2
<1>5. follower.cursor \in 0..latest'
  BY <1>1, <1>2 DEF LogTyped
<1>6. \A b \in DOMAIN follower'.view :
        follower'.view[b] = [head |-> follower'.view[b].head, published |-> follower'.view[b].published]
  BY DEF LogTyped
<1>7. LogTyped'
  BY <1>1, <1>2, <1>4, <1>5, <1>6 DEF LogTyped
<1> QED BY <1>3, <1>7

\* The branches at or behind the cursor stay there when the cursor does not move.
LEMMA FollowsBefore ==
  ASSUME LogTyped, NEW d \in Nat, Missed' = Missed + d, follower' = follower,
         Missed' <= follower'.cursor
  PROVE  /\ Missed <= follower.cursor
         /\ follower'.cursor - Missed' \in Nat
         /\ (follower'.cursor - Missed') + d = follower.cursor - Missed
<1>1. Missed \in Nat /\ follower.cursor \in Nat
  BY DEF LogTyped, Missed
<1> HIDE DEF Missed
<1> QED BY <1>1

\* A step that tells nothing new.
LEMMA QuietStep ==
  ASSUME LogInv, NEW emitted, NEW d, Appended(emitted, d), KeptTold,
         \A k \in 1..Len(emitted) : emitted[k].branch \in DOMAIN branches /\ emitted[k].type \notin HeadTypes
  PROVE  LogInv'
<1>1. LogTyped' /\ Missed' = Missed + d
  BY TypedStep DEF LogInv, KeptTold
<1>2. d \in Nat /\ LogTyped
  BY DEF Appended, LogInv
<1>3. \A b : \A k \in 1..Len(emitted) :
        ~About(emitted[k], b, HeadTypes) /\ ~About(emitted[k], b, PublicationTypes)
  BY DEF About, HeadTypes, PublicationTypes
<1>4. LogNames'
  <2> SUFFICES ASSUME NEW b \in DOMAIN branches'
               PROVE  /\ Named(events', b, HeadTypes, branches'[b].head)
                      /\ Named(events', b, PublicationTypes, branches'[b].published)
    BY DEF LogNames, Named
  <2>1. CASE b \in DOMAIN branches
    <3>1. /\ Named(events, b, HeadTypes, branches[b].head)
          /\ Named(events, b, PublicationTypes, branches[b].published)
      BY <2>1 DEF LogInv, LogNames
    <3>2. /\ Named(events', b, HeadTypes, branches[b].head)
          /\ Named(events', b, PublicationTypes, branches[b].published)
      BY <1>2, <1>3, <3>1, NamedOn
    <3> QED BY <2>1, <3>2 DEF KeptTold
  <2>2. CASE b \notin DOMAIN branches
    <3>1. \A types, value : Named(events, b, types, value)
      BY <1>2, <2>2 DEF Named, About, LogTyped
    <3> QED BY <1>2, <1>3, <3>1, NamedOn
  <2> QED BY <2>1, <2>2
<1>5. Follows'
  <2> SUFFICES ASSUME ~follower'.reading, Missed' <= follower'.cursor
               PROVE  /\ DOMAIN follower'.view \subseteq DOMAIN branches'
                      /\ \A b \in DOMAIN branches' :
                           /\ Within(events', b, HeadTypes, follower'.cursor - Missed') =>
                                KnownHead(follower.view, b)'
                           /\ Within(events', b, PublicationTypes, follower'.cursor - Missed') =>
                                KnownPublished(follower.view, b)'
    BY DEF Follows, Within
  <2>1. /\ Missed <= follower.cursor
        /\ follower'.cursor - Missed' \in Nat
        /\ (follower'.cursor - Missed') + d = follower.cursor - Missed
    BY <1>1, <1>2, FollowsBefore DEF KeptTold
  <2>2. /\ DOMAIN follower.view \subseteq DOMAIN branches
        /\ \A b \in DOMAIN branches :
             /\ Within(events, b, HeadTypes, follower.cursor - Missed) => KnownHead(follower.view, b)
             /\ Within(events, b, PublicationTypes, follower.cursor - Missed) =>
                  KnownPublished(follower.view, b)
    BY <2>1 DEF LogInv, Follows, KeptTold
  <2>3. \A b, types : Within(events', b, types, follower'.cursor - Missed') =>
                        Within(events, b, types, follower.cursor - Missed)
    <3> DEFINE n == follower'.cursor - Missed'
    <3>1. \A m \in Nat : \A b, types : Within(events', b, types, m) => Within(events, b, types, m + d)
      BY <1>2, WithinBefore
    <3> QED BY <2>1, <3>1
  <2>4. ASSUME NEW b \in DOMAIN branches
        PROVE  /\ KnownHead(follower.view, b) => KnownHead(follower.view, b)'
               /\ KnownPublished(follower.view, b) => KnownPublished(follower.view, b)'
    BY DEF KnownHead, KnownPublished, KeptTold
  <2>5. ASSUME NEW b \in DOMAIN branches' \ DOMAIN branches
        PROVE  KnownHead(follower.view, b)' /\ KnownPublished(follower.view, b)'
    BY <2>2 DEF KnownHead, KnownPublished, KeptTold
  <2> QED BY <2>2, <2>3, <2>4, <2>5 DEF KeptTold
<1> QED BY <1>1, <1>4, <1>5 DEF LogInv

\* A step whose last event tells the new head r of a branch, and nothing else
\* of what a follower keeps.
Tells(b, type, r) ==
  /\ b \in DOMAIN branches /\ type \in HeadTypes
  /\ follower' = follower
  /\ DOMAIN branches' = DOMAIN branches
  /\ \A c \in DOMAIN branches \ {b} :
       branches'[c].head = branches[c].head /\ branches'[c].published = branches[c].published
  /\ branches'[b].head = r
  /\ branches'[b].published = IF type = "revisionPublished" THEN r ELSE branches[b].published

LEMMA TellingStep ==
  ASSUME LogInv, NEW emitted, NEW d, Appended(emitted, d), emitted # <<>>,
         NEW b, NEW type, NEW r, Tells(b, type, r),
         emitted[Len(emitted)] = Event(type, b, r),
         \A k \in 1..Len(emitted) : emitted[k].branch \in DOMAIN branches,
         \A k \in 1..Len(emitted) : k # Len(emitted) => emitted[k].type \notin HeadTypes
  PROVE  LogInv'
<1>1. LogTyped' /\ Missed' = Missed + d
  BY TypedStep DEF LogInv, Tells
<1>2. d \in Nat /\ LogTyped
  BY DEF Appended, LogInv
<1>3. emitted[Len(emitted)].type = type /\ emitted[Len(emitted)].branch = b
      /\ emitted[Len(emitted)].revision = r
  BY DEF Event
\* Who is not told of the head, or of a publication.
<1>4. \A c : c # b => \A k \in 1..Len(emitted) :
        ~About(emitted[k], c, HeadTypes) /\ ~About(emitted[k], c, PublicationTypes)
  BY <1>3 DEF About, HeadTypes, PublicationTypes
<1>5. type # "revisionPublished" =>
        \A c : \A k \in 1..Len(emitted) : ~About(emitted[k], c, PublicationTypes)
  BY <1>3 DEF About, HeadTypes, PublicationTypes
<1>6. About(emitted[Len(emitted)], b, HeadTypes)
  BY <1>3 DEF About, Tells
<1>7. type = "revisionPublished" => About(emitted[Len(emitted)], b, PublicationTypes)
  BY <1>3 DEF About, PublicationTypes
<1>8. \A types : About(emitted[Len(emitted)], b, types) =>
        /\ Named(events', b, types, r)
        /\ \A n \in Int : n < Len(events') => ~Within(events', b, types, n)
  BY <1>2, <1>3, NamedAnew
<1>9. \A c \in DOMAIN branches :
        /\ Named(events, c, HeadTypes, branches[c].head)
        /\ Named(events, c, PublicationTypes, branches[c].published)
  BY DEF LogInv, LogNames
<1>10. \A c, types, value :
         Named(events, c, types, value) /\ (\A k \in 1..Len(emitted) : ~About(emitted[k], c, types)) =>
           Named(events', c, types, value)
  BY <1>2, NamedOn
<1>11. LogNames'
  <2> SUFFICES ASSUME NEW c \in DOMAIN branches
               PROVE  /\ Named(events', c, HeadTypes, branches'[c].head)
                      /\ Named(events', c, PublicationTypes, branches'[c].published)
    BY DEF LogNames, Named, Tells
  <2>1. CASE c # b
    BY <1>4, <1>9, <1>10, <2>1 DEF Tells
  <2>2. CASE c = b
    <3>1. Named(events', b, HeadTypes, r)
      BY <1>6, <1>8
    <3>2. CASE type = "revisionPublished"
      BY <1>7, <1>8, <2>2, <3>1, <3>2 DEF Tells
    <3>3. CASE type # "revisionPublished"
      <4>1. Named(events', b, PublicationTypes, branches[b].published)
        BY <1>5, <1>9, <1>10, <2>2, <3>3
      <4> QED BY <2>2, <3>1, <3>3, <4>1 DEF Tells
    <3> QED BY <3>2, <3>3
  <2> QED BY <2>1, <2>2
<1>12. Follows'
  <2> SUFFICES ASSUME ~follower'.reading, Missed' <= follower'.cursor
               PROVE  /\ DOMAIN follower'.view \subseteq DOMAIN branches'
                      /\ \A c \in DOMAIN branches' :
                           /\ Within(events', c, HeadTypes, follower'.cursor - Missed') =>
                                KnownHead(follower.view, c)'
                           /\ Within(events', c, PublicationTypes, follower'.cursor - Missed') =>
                                KnownPublished(follower.view, c)'
    BY DEF Follows, Within
  <2>1. /\ Missed <= follower.cursor
        /\ follower'.cursor - Missed' \in Nat
        /\ (follower'.cursor - Missed') + d = follower.cursor - Missed
    BY <1>1, <1>2, FollowsBefore DEF Tells
  <2>2. /\ DOMAIN follower.view \subseteq DOMAIN branches
        /\ \A c \in DOMAIN branches :
             /\ Within(events, c, HeadTypes, follower.cursor - Missed) => KnownHead(follower.view, c)
             /\ Within(events, c, PublicationTypes, follower.cursor - Missed) =>
                  KnownPublished(follower.view, c)
    BY <2>1 DEF LogInv, Follows, Tells
  <2>3. \A c, types : Within(events', c, types, follower'.cursor - Missed') =>
                        Within(events, c, types, follower.cursor - Missed)
    <3>1. \A m \in Nat : \A c, types : Within(events', c, types, m) => Within(events, c, types, m + d)
      BY <1>2, WithinBefore
    <3> QED BY <2>1, <3>1
  <2>4. ASSUME NEW c \in DOMAIN branches, c # b
        PROVE  /\ KnownHead(follower.view, c) => KnownHead(follower.view, c)'
               /\ KnownPublished(follower.view, c) => KnownPublished(follower.view, c)'
    BY <2>4 DEF KnownHead, KnownPublished, Tells
  <2>5. follower'.cursor - Missed' < Len(events')
    <3>1. latest' = latest + Len(emitted) /\ Len(emitted) \in Nat /\ Len(emitted) >= 1
      BY DEF Appended
    <3>2. follower'.cursor <= latest /\ latest \in Nat /\ follower'.cursor \in Nat
      BY DEF LogInv, LogTyped, Tells
    <3>3. Missed' = latest' - Len(events') /\ Len(events') \in Nat
      BY <1>1 DEF Missed, LogTyped
    <3> QED BY <3>1, <3>2, <3>3
  <2>6. ~Within(events', b, HeadTypes, follower'.cursor - Missed')
    BY <1>6, <1>8, <2>1, <2>5
  <2>7. CASE type = "revisionPublished"
    <3>1. ~Within(events', b, PublicationTypes, follower'.cursor - Missed')
      BY <1>7, <1>8, <2>1, <2>5, <2>7
    <3> QED BY <2>2, <2>3, <2>4, <2>6, <3>1 DEF Tells
  <2>8. CASE type # "revisionPublished"
    <3>1. KnownPublished(follower.view, b) => KnownPublished(follower.view, b)'
      BY <2>8 DEF KnownPublished, Tells
    <3> QED BY <2>2, <2>3, <2>4, <2>6, <3>1 DEF Tells
  <2> QED BY <2>7, <2>8
<1> QED BY <1>1, <1>11, <1>12 DEF LogInv

\* What a follower without a gap is given: the events after its cursor.
LEMMA MessageFacts ==
  ASSUME LogTyped, Missed <= follower.cursor
  PROVE  LET messages == EventsAfter(follower.cursor)
             n == follower.cursor - Missed
         IN /\ n \in Nat /\ messages \in Seq(EventRecord) /\ Len(messages) = Len(events) - n
            /\ \A i \in 1..Len(messages) : i + n \in 1..Len(events) /\ messages[i] = events[i + n]
            /\ \A j \in 1..Len(events) : j > n => j - n \in 1..Len(messages) /\ messages[j - n] = events[j]
<1> DEFINE messages == EventsAfter(follower.cursor)
           n == follower.cursor - Missed
<1>1. /\ Missed \in Nat /\ follower.cursor \in Nat /\ Len(events) \in Nat /\ events \in Seq(EventRecord)
      /\ Missed = latest - Len(events) /\ latest \in Nat /\ follower.cursor <= latest
  BY DEF LogTyped, Missed
<1>2. n \in Nat /\ n <= Len(events)
  BY <1>1
<1>3. messages = SubSeq(events, n + 1, Len(events))
  <2>1. ~(follower.cursor < Missed)
    BY <1>1
  <2> QED BY <2>1 DEF EventsAfter, Missed
<1> HIDE DEF n, messages
<1>4. messages \in Seq(EventRecord)
  BY <1>1, <1>2, <1>3
<1>5. Len(messages) = Len(events) - n
  BY <1>1, <1>2, <1>3
<1>6. \A i \in 1..(Len(events) - n) : messages[i] = events[i + n]
  BY <1>1, <1>2, <1>3
<1>7. ASSUME NEW i \in 1..Len(messages)
      PROVE  i + n \in 1..Len(events) /\ messages[i] = events[i + n]
  BY <1>1, <1>2, <1>5, <1>6
<1>8. ASSUME NEW j \in 1..Len(events), j > n
      PROVE  j - n \in 1..Len(messages) /\ messages[j - n] = events[j]
  <2>1. j - n \in 1..Len(messages) /\ (j - n) + n = j
    BY <1>1, <1>2, <1>5, <1>8
  <2> QED BY <1>7, <2>1
<1>9. /\ n \in Nat /\ messages \in Seq(EventRecord) /\ Len(messages) = Len(events) - n
      /\ \A i \in 1..Len(messages) : i + n \in 1..Len(events) /\ messages[i] = events[i + n]
      /\ \A j \in 1..Len(events) : j > n => j - n \in 1..Len(messages) /\ messages[j - n] = events[j]
  BY <1>2, <1>4, <1>5, <1>7, <1>8
<1> QED BY <1>9 DEF n, messages

\* The positions of the messages of a type about a branch.
Positions(messages, b, types) == {i \in 1..Len(messages) : About(messages[i], b, types)}

LEMMA PositionFacts ==
  ASSUME NEW messages \in Seq(EventRecord), NEW b
  PROVE  /\ Moves(b, messages) = Positions(messages, b, HeadTypes)
         /\ Publications(b, messages) = Positions(messages, b, PublicationTypes)
<1>1. DOMAIN messages = 1..Len(messages)
  OBVIOUS
<1>2. \A i \in DOMAIN messages :
        /\ i \in Publications(b, messages) <=> About(messages[i], b, PublicationTypes)
        /\ i \in Moves(b, messages) <=> About(messages[i], b, HeadTypes)
  BY DEF Publications, Moves, About, HeadTypes, PublicationTypes
<1>3. Publications(b, messages) \subseteq DOMAIN messages /\ Moves(b, messages) \subseteq DOMAIN messages
  BY DEF Publications, Moves
<1> QED BY <1>1, <1>2, <1>3 DEF Positions

\* What the messages tell of a branch is what the log names; without one, the
\* events about it were read before.
LEMMA ToldFacts ==
  ASSUME LogTyped, Missed <= follower.cursor, NEW b, NEW types, NEW value,
         Named(events, b, types, value)
  PROVE  LET messages == EventsAfter(follower.cursor)
         IN /\ Positions(messages, b, types) # {} => Told(messages, Positions(messages, b, types)) = value
            /\ Positions(messages, b, types) = {} => Within(events, b, types, follower.cursor - Missed)
<1> DEFINE messages == EventsAfter(follower.cursor)
           n == follower.cursor - Missed
           S == Positions(messages, b, types)
<1>1. /\ n \in Nat /\ messages \in Seq(EventRecord) /\ Len(messages) = Len(events) - n
      /\ \A i \in 1..Len(messages) : i + n \in 1..Len(events) /\ messages[i] = events[i + n]
      /\ \A j \in 1..Len(events) : j > n => j - n \in 1..Len(messages) /\ messages[j - n] = events[j]
  BY MessageFacts
<1>2. Len(events) \in Nat
  BY DEF LogTyped
<1> HIDE DEF messages, n
<1>3. ASSUME S # {}
      PROVE  messages[Max(S)].revision = value
  <2>1. S \in SUBSET (1..Len(messages)) /\ Len(messages) \in Nat
    BY <1>1 DEF Positions
  <2> DEFINE m == Max(S)
  <2>2. m \in S /\ \A i \in S : i <= m
    <3> HIDE DEF S
    <3> QED BY <1>3, <2>1, LastPosition
  <2> HIDE DEF m
  <2>3. m \in 1..Len(messages) /\ About(messages[m], b, types)
    BY <2>2 DEF Positions
  <2>4. m + n \in 1..Len(events) /\ messages[m] = events[m + n]
    BY <1>1, <2>3
  <2>5. ASSUME NEW j \in 1..Len(events), j > m + n, About(events[j], b, types)
        PROVE  FALSE
    <3>1. j > n /\ j - n > m
      BY <1>1, <1>2, <2>3, <2>5
    <3>2. j - n \in 1..Len(messages) /\ messages[j - n] = events[j]
      BY <1>1, <3>1
    <3>3. j - n \in S
      BY <2>5, <3>2 DEF Positions
    <3>4. j - n <= m
      BY <2>2, <3>3
    <3> QED BY <1>1, <2>3, <3>1, <3>4
  <2>6. About(events[m + n], b, types)
    BY <2>3, <2>4
  <2>7. events[m + n].revision = value
    BY <2>4, <2>5, <2>6 DEF Named
  <2> QED BY <2>4, <2>7 DEF m
<1>4. ASSUME S = {}
      PROVE  Within(events, b, types, n)
  <2> SUFFICES ASSUME NEW i \in 1..Len(events), About(events[i], b, types), ~(i <= n)
               PROVE  FALSE
    BY DEF Within
  <2>1. i > n
    BY <1>1, <1>2
  <2>2. i - n \in 1..Len(messages) /\ messages[i - n] = events[i]
    BY <1>1, <2>1
  <2>3. i - n \in S
    BY <2>2 DEF Positions
  <2> QED BY <1>4, <2>3
<1> QED BY <1>3, <1>4 DEF messages, n, Told

\* A poll without a gap brings the view up to date.
LEMMA FollowStep ==
  ASSUME LogInv, Missed <= follower.cursor, ~follower.reading,
         UNCHANGED <<branches, events, latest>>, DOMAIN branches \subseteq Branches,
         follower' = [cursor |-> latest, reading |-> FALSE,
                      view |-> Follow(follower.view, EventsAfter(follower.cursor))]
  PROVE  LogInv'
<1> DEFINE messages == EventsAfter(follower.cursor)
           view == follower.view
           Heads(b) == Positions(messages, b, HeadTypes)
           Shown(b) == Positions(messages, b, PublicationTypes)
<1>1. LogTyped
  BY DEF LogInv
<1>2. messages \in Seq(EventRecord)
  BY <1>1, MessageFacts
<1>3. follower' = [cursor |-> latest, reading |-> FALSE, view |-> Follow(view, messages)]
  OBVIOUS
<1>4. \A b : Moves(b, messages) = Heads(b) /\ Publications(b, messages) = Shown(b)
  BY <1>2, PositionFacts
<1> HIDE DEF messages
<1>5. Follow(view, messages) =
        [b \in DOMAIN view \cup {c \in Branches : Heads(c) # {}} |->
           [head |-> IF Heads(b) # {} THEN Told(messages, Heads(b)) ELSE view[b].head,
            published |-> IF Shown(b) # {} THEN Told(messages, Shown(b))
                          ELSE IF b \in DOMAIN view THEN view[b].published ELSE None]]
  <2> HIDE DEF Heads, Shown, view
  <2> QED BY <1>4 DEF Follow
<1> DEFINE next == Follow(view, messages)
<1>6. /\ DOMAIN view \subseteq DOMAIN branches
      /\ \A b \in DOMAIN branches :
           /\ Within(events, b, HeadTypes, follower.cursor - Missed) => KnownHead(view, b)
           /\ Within(events, b, PublicationTypes, follower.cursor - Missed) => KnownPublished(view, b)
  BY DEF LogInv, Follows
<1>7. \A b \in DOMAIN branches :
        /\ Heads(b) # {} => Told(messages, Heads(b)) = branches[b].head
        /\ Heads(b) = {} => KnownHead(view, b)
        /\ Shown(b) # {} => Told(messages, Shown(b)) = branches[b].published
        /\ Shown(b) = {} => KnownPublished(view, b)
  <2> TAKE b \in DOMAIN branches
  <2>1. /\ Named(events, b, HeadTypes, branches[b].head)
        /\ Named(events, b, PublicationTypes, branches[b].published)
    BY DEF LogInv, LogNames
  <2>2. /\ Heads(b) # {} => Told(messages, Heads(b)) = branches[b].head
        /\ Heads(b) = {} => Within(events, b, HeadTypes, follower.cursor - Missed)
    BY <1>1, <2>1, ToldFacts DEF messages
  <2>3. /\ Shown(b) # {} => Told(messages, Shown(b)) = branches[b].published
        /\ Shown(b) = {} => Within(events, b, PublicationTypes, follower.cursor - Missed)
    BY <1>1, <2>1, ToldFacts DEF messages
  <2> QED BY <1>6, <2>2, <2>3
<1>8. \A b : Shown(b) # {} => Heads(b) # {}
  BY DEF Positions, About, HeadTypes, PublicationTypes
<1>9. \A b \in Branches : Heads(b) # {} => b \in DOMAIN branches
  <2> SUFFICES ASSUME NEW b \in Branches, NEW i \in Heads(b)
               PROVE  b \in DOMAIN branches
    OBVIOUS
  <2>1. i \in 1..Len(messages) /\ messages[i].branch = b
    BY DEF Positions, About
  <2>2. \A k \in 1..Len(messages) : \E j \in 1..Len(events) : messages[k] = events[j]
    BY <1>1, MessageFacts DEF messages
  <2> QED BY <1>1, <2>1, <2>2 DEF LogTyped
<1> HIDE DEF Heads, Shown
<1>10. DOMAIN next \subseteq DOMAIN branches
  BY <1>5, <1>6, <1>9
<1>11. ASSUME NEW b \in DOMAIN branches
       PROVE  /\ b \in DOMAIN next => next[b].head = branches[b].head
              /\ branches[b].published = IF b \in DOMAIN next THEN next[b].published ELSE None
  <2>1. b \in DOMAIN next => next[b].head = branches[b].head
    <3> SUFFICES ASSUME b \in DOMAIN next PROVE next[b].head = branches[b].head
      OBVIOUS
    <3>1. next[b].head = IF Heads(b) # {} THEN Told(messages, Heads(b)) ELSE view[b].head
      BY <1>5
    <3>2. Heads(b) = {} => b \in DOMAIN view
      BY <1>5
    <3> QED BY <1>7, <3>1, <3>2 DEF KnownHead
  <2>2. b \in DOMAIN next => next[b].published = branches[b].published
    <3> SUFFICES ASSUME b \in DOMAIN next PROVE next[b].published = branches[b].published
      OBVIOUS
    <3>1. next[b].published = IF Shown(b) # {} THEN Told(messages, Shown(b))
                              ELSE IF b \in DOMAIN view THEN view[b].published ELSE None
      BY <1>5
    <3> QED BY <1>7, <3>1 DEF KnownPublished
  <2>3. b \notin DOMAIN next => branches[b].published = None
    <3> SUFFICES ASSUME b \notin DOMAIN next PROVE branches[b].published = None
      OBVIOUS
    <3>1. b \notin DOMAIN view /\ Heads(b) = {}
      BY <1>5
    <3> QED BY <1>7, <1>8, <3>1 DEF KnownPublished
  <2> QED BY <2>1, <2>2, <2>3
<1>12. \A b \in DOMAIN next : next[b] = [head |-> next[b].head, published |-> next[b].published]
  BY <1>5
<1> HIDE DEF next
<1>13. follower'.cursor = latest /\ follower'.view = next
  BY <1>3 DEF next
<1>14. LogTyped'
  <2>1. latest \in Nat /\ follower'.cursor \in 0..latest
    BY <1>1, <1>13 DEF LogTyped
  <2> QED BY <1>1, <1>12, <1>13, <2>1 DEF LogTyped
<1>15. LogNames'
  BY DEF LogInv, LogNames, Named
<1>16. Follows'
  BY <1>10, <1>11, <1>13 DEF Follows, KnownHead, KnownPublished
<1> QED BY <1>14, <1>15, <1>16 DEF LogInv

\* A poll with a gap leaves the view behind, and reading makes up for it.
LEMMA GapStep ==
  ASSUME LogInv, UNCHANGED <<branches, events, latest>>,
         follower' = [cursor |-> latest, reading |-> TRUE, view |-> follower.view]
  PROVE  LogInv'
<1>1. follower'.cursor = latest /\ follower'.reading /\ follower'.view = follower.view
  OBVIOUS
<1>2. latest \in Nat /\ follower'.cursor \in 0..latest
  BY <1>1 DEF LogInv, LogTyped
<1>3. LogTyped'
  BY <1>1, <1>2 DEF LogInv, LogTyped
<1>4. LogNames'
  BY DEF LogInv, LogNames, Named
<1>5. Follows'
  BY <1>1 DEF Follows
<1> QED BY <1>3, <1>4, <1>5 DEF LogInv

LEMMA ReadStep ==
  ASSUME LogInv, UNCHANGED <<branches, events, latest>>,
         follower' = [cursor |-> follower.cursor, reading |-> FALSE, view |-> BranchView]
  PROVE  LogInv'
<1>1. follower'.cursor = follower.cursor /\ follower'.view = BranchView
  OBVIOUS
<1>2. /\ DOMAIN BranchView = DOMAIN branches
      /\ \A b \in DOMAIN branches :
           /\ BranchView[b] = [head |-> branches[b].head, published |-> branches[b].published]
           /\ BranchView[b].head = branches[b].head /\ BranchView[b].published = branches[b].published
  BY DEF BranchView
<1>3. LogTyped'
  BY <1>1, <1>2 DEF LogInv, LogTyped
<1>4. LogNames'
  BY DEF LogInv, LogNames, Named
<1>5. Follows'
  BY <1>1, <1>2 DEF Follows, KnownHead, KnownPublished
<1> QED BY <1>3, <1>4, <1>5 DEF LogInv

\* The steps that emit, by what they emit.
LEMMA PairAppended ==
  ASSUME NEW x, NEW y
  PROVE  Append(<<x>>, y) = <<x, y>>
<1> DEFINE s == Append(<<x>>, y)
           t == <<x, y>>
<1>1. s \in Seq({x, y}) /\ t \in Seq({x, y})
  OBVIOUS
<1>2. Len(s) = 2 /\ Len(t) = 2 /\ s[1] = x /\ s[2] = y /\ t[1] = x /\ t[2] = y
  OBVIOUS
<1> HIDE DEF s, t
<1>3. \A i \in 1..Len(s) : s[i] = t[i]
  BY <1>2
<1>4. s = t
  BY <1>1, <1>2, <1>3, SeqEqual
<1> QED BY <1>4 DEF s, t

LEMMA TypesApart == HeadTypes \cap OtherTypes = {}
BY DEF HeadTypes, OtherTypes

LEMMA EventType ==
  ASSUME NEW type \in HeadTypes \cup OtherTypes, NEW b \in Branches, NEW r \in Nat
  PROVE  /\ Event(type, b, r) \in EventRecord
         /\ Event(type, b, r).type = type /\ Event(type, b, r).branch = b
BY DEF Event, EventRecord

\* One event that tells nothing new, or none.
LEMMA QuietEmit ==
  ASSUME LogInv, KeptTold, DOMAIN branches \subseteq Branches, NEW b \in DOMAIN branches,
         NEW type \in OtherTypes, NEW r \in Nat,
         \/ UNCHANGED logVars \/ Emit(<<>>) \/ Emit(<<Event(type, b, r)>>)
  PROVE  LogInv'
<1> DEFINE event == Event(type, b, r)
<1>1. LogTyped
  BY DEF LogInv
<1>2. event \in EventRecord /\ event.type = type /\ event.branch = b
  BY EventType
<1>6. event.type \notin HeadTypes
  BY <1>2, TypesApart
<1> HIDE DEF event
<1>3. CASE Emit(<<event>>)
  <2>1. <<event>> \in Seq(EventRecord)
    BY <1>2
  <2>2. PICK d : Appended(<<event>>, d)
    BY <1>1, <1>3, <2>1, AppendFacts
  <2> QED BY <1>2, <1>6, <2>2, QuietStep
<1>4. CASE Emit(<<>>)
  <2>1. <<>> \in Seq(EventRecord)
    OBVIOUS
  <2>2. PICK d : Appended(<<>>, d)
    BY <1>1, <1>4, <2>1, AppendFacts
  <2> QED BY <2>2, QuietStep
<1>5. CASE UNCHANGED logVars
  <2>1. Appended(<<>>, 0)
    BY <1>1, <1>5, NothingAppended
  <2> QED BY <2>1, QuietStep
<1> QED BY <1>3, <1>4, <1>5 DEF event

\* An event that tells a new head, after none or one that tells nothing new.
LEMMA TellingEmit ==
  ASSUME LogInv, DOMAIN branches \subseteq Branches, NEW b, NEW type \in HeadTypes, NEW r \in Nat,
         Tells(b, type, r), NEW other \in OtherTypes, NEW q \in Nat,
         NEW before, before = <<>> \/ before = <<Event(other, b, q)>>,
         Emit(Append(before, Event(type, b, r)))
  PROVE  LogInv'
<1> DEFINE event == Event(type, b, r)
           emitted == Append(before, event)
<1>1. LogTyped /\ b \in Branches /\ b \in DOMAIN branches
  BY DEF LogInv, Tells
<1>2. event \in EventRecord /\ event.branch = b
  BY <1>1, EventType
<1>3. /\ Event(other, b, q) \in EventRecord /\ Event(other, b, q).branch = b
      /\ Event(other, b, q).type = other /\ other \notin HeadTypes
  BY <1>1, EventType, TypesApart
<1>4. /\ before \in Seq(EventRecord) /\ Len(before) \in Nat
      /\ \A k \in 1..Len(before) :
           before[k].branch \in DOMAIN branches /\ before[k].type \notin HeadTypes
  <2>1. CASE before = <<>>
    BY <2>1
  <2> DEFINE e == Event(other, b, q)
  <2>2. CASE before = <<e>>
    <3> HIDE DEF e
    <3>1. e \in EventRecord /\ e.branch \in DOMAIN branches /\ e.type \notin HeadTypes
      BY <1>1, <1>3 DEF e
    <3> QED BY <2>2, <3>1
  <2> QED BY <2>1, <2>2
<1>5. event = Event(type, b, r)
  OBVIOUS
<1> HIDE DEF event
<1>6. /\ emitted \in Seq(EventRecord) /\ Len(emitted) = Len(before) + 1 /\ emitted[Len(emitted)] = event
      /\ \A k \in 1..Len(before) : emitted[k] = before[k]
  BY <1>2, <1>4
<1>7. Emit(emitted)
  BY <1>5
<1> HIDE DEF emitted
<1>8. PICK d : Appended(emitted, d)
  BY <1>1, <1>6, <1>7, AppendFacts
<1>9. emitted # <<>>
  BY <1>4, <1>6
<1>10. \A k \in 1..Len(emitted) : k = Len(emitted) \/ k \in 1..Len(before)
  BY <1>4, <1>6
<1>11. /\ emitted[Len(emitted)] = Event(type, b, r)
       /\ \A k \in 1..Len(emitted) : emitted[k].branch \in DOMAIN branches
       /\ \A k \in 1..Len(emitted) : k # Len(emitted) => emitted[k].type \notin HeadTypes
  BY <1>1, <1>2, <1>4, <1>5, <1>6, <1>10
<1> QED BY <1>8, <1>9, <1>11, TellingStep

\* The head of a branch moves, or its published revision.
LEMMA BranchMoves ==
  ASSUME Known, NEW b \in DOMAIN branches, NEW r, follower' = follower
  PROVE  /\ branches' = [branches EXCEPT ![b].head = r] => Tells(b, "revisionCommitted", r)
         /\ branches' = [branches EXCEPT ![b].published = r] /\ HeadOf(b) = r =>
              Tells(b, "revisionPublished", r)
<1>1. branches[b] \in BranchType
  BY DEF Known
<1>2. ASSUME branches' = [branches EXCEPT ![b].head = r]
      PROVE  Tells(b, "revisionCommitted", r)
  <2>1. /\ DOMAIN branches' = DOMAIN branches /\ branches'[b] = [branches[b] EXCEPT !.head = r]
        /\ \A c \in DOMAIN branches \ {b} : branches'[c] = branches[c]
    BY <1>2
  <2>2. branches'[b].head = r /\ branches'[b].published = branches[b].published
    BY <1>1, <2>1 DEF BranchType
  <2> QED BY <2>1, <2>2 DEF Tells, HeadTypes
<1>3. ASSUME branches' = [branches EXCEPT ![b].published = r], HeadOf(b) = r
      PROVE  Tells(b, "revisionPublished", r)
  <2>1. /\ DOMAIN branches' = DOMAIN branches /\ branches'[b] = [branches[b] EXCEPT !.published = r]
        /\ \A c \in DOMAIN branches \ {b} : branches'[c] = branches[c]
    BY <1>3
  <2>2. branches'[b].published = r /\ branches'[b].head = branches[b].head
    BY <1>1, <2>1 DEF BranchType
  <2> QED BY <1>3, <2>1, <2>2 DEF Tells, HeadTypes, HeadOf
<1> QED BY <1>2, <1>3

LEMMA LogInit ==
  ASSUME Init
  PROVE  LogInv
<1>1. PICK g \in Genesis :
        branches = [b \in {"main"} |-> [head |-> 1, policy |-> g.policy, published |-> None]]
  BY DEF Init
<1>2. /\ events = <<>> /\ latest = 0
      /\ follower = [cursor |-> 0, reading |-> FALSE,
                     view |-> [b \in {"main"} |-> [head |-> 1, published |-> None]]]
  BY DEF Init
<1>3. EventCapacity \in Nat
  BY CollaborationAssumption
<1>4. Len(events) = 0 /\ events \in Seq(EventRecord)
  BY <1>2
<1>5. /\ follower.cursor = 0
      /\ follower.view = [b \in {"main"} |-> [head |-> 1, published |-> None]]
  BY <1>2
<1>6. LogTyped
  BY <1>2, <1>3, <1>4, <1>5 DEF LogTyped
<1>7. LogNames
  BY <1>4 DEF LogNames, Named
<1>8. Follows
  BY <1>1, <1>5 DEF Follows, KnownHead, KnownPublished
<1> QED BY <1>6, <1>7, <1>8 DEF LogInv

LEMMA SubmitLog ==
  ASSUME IInv, LogInv, NEW actor, NEW id, NEW branch, NEW base, NEW patch, NEW key,
         SubmitProposal(actor, id, branch, base, patch, key)
  PROVE  LogInv'
<1>1. branch \in DOMAIN branches /\ follower' = follower
  BY DEF SubmitProposal
<1>2. Known /\ DOMAIN branches \subseteq Branches /\ sequence + 1 \in Nat
  BY DEF IInv, Known
<1>3. "proposalCreated" \in OtherTypes /\ "revisionCommitted" \in HeadTypes
  BY DEF HeadTypes, OtherTypes
<1>4. CASE UNCHANGED <<revisions, branches, proposals, candidates, events, latest>>
  <2>1. KeptTold /\ UNCHANGED logVars
    BY <1>1, <1>4 DEF KeptTold, logVars
  <2> QED BY <1>1, <1>2, <1>3, <2>1, QuietEmit
<1>5. ASSUME NEW document, RecordProposal(actor, id, key, base, Candidate(branch, patch, document))
      PROVE  LogInv'
  <2> DEFINE candidate == Candidate(branch, patch, document)
  <2>1. candidate.branch = branch /\ candidate.revision = sequence + 1
    BY DEF Candidate
  <2> HIDE DEF candidate
  <2>2. RecordProposal(actor, id, key, base, candidate)
    BY <1>5 DEF candidate
  <2>3. CASE branches[branch].policy.protected
    <3>1. Emit(<<Event("proposalCreated", branch, sequence + 1)>>) /\ branches' = branches
      BY <2>1, <2>2, <2>3 DEF RecordProposal
    <3>2. KeptTold
      BY <1>1, <3>1 DEF KeptTold
    <3> QED BY <1>1, <1>2, <1>3, <3>1, <3>2, QuietEmit
  <2>4. CASE ~branches[branch].policy.protected
    <3>1. /\ Emit(Append(<<Event("proposalCreated", branch, sequence + 1)>>,
                         Event("revisionCommitted", branch, sequence + 1)))
          /\ branches' = [branches EXCEPT ![branch].head = sequence + 1]
      BY <2>1, <2>2, <2>4, PairAppended DEF RecordProposal, CommitHistory
    <3>2. Tells(branch, "revisionCommitted", sequence + 1)
      BY <1>1, <1>2, <3>1, BranchMoves
    <3> QED BY <1>2, <1>3, <3>1, <3>2, TellingEmit
  <2> QED BY <2>3, <2>4
<1> QED BY <1>4, <1>5 DEF SubmitProposal

LEMMA ApproveLog ==
  ASSUME IInv, LogInv, NEW actor \in Actors, NEW id, NEW r, ApproveProposal(actor, id, r)
  PROVE  LogInv'
<1> DEFINE approved == ApprovedBy(actor, id)
           recorded == ApprovalEvents(actor, proposals[id])
           branch == proposals[id].branch
           candidate == proposals[id].candidate
<1>1. /\ id \in DOMAIN proposals /\ follower' = follower
      /\ Known /\ Pending /\ DOMAIN branches \subseteq Branches
  BY DEF ApproveProposal, IInv, Known
<1>2. proposals[id] \in ProposalType
  BY <1>1 DEF Known
<1>3. branch \in DOMAIN branches /\ candidate \in Nat
  BY <1>1, <1>2 DEF ProposalType, Known
<1>4. approved.branch = branch /\ approved.candidate = candidate
  BY <1>2 DEF ApprovedBy, ProposalType
<1>5. recorded = <<>> \/ recorded = <<Event("approvalRecorded", branch, candidate)>>
  BY DEF ApprovalEvents
<1>6. "approvalRecorded" \in OtherTypes /\ "revisionCommitted" \in HeadTypes
  BY DEF HeadTypes, OtherTypes
<1>7. \/ Emit(recorded) /\ UNCHANGED branches
      \/ /\ id \in DOMAIN candidates
         /\ CommitHistory(candidates[id], id)
         /\ Emit(Append(recorded, Event("revisionCommitted", approved.branch, approved.candidate)))
  <2> HIDE DEF recorded
  <2>1. \/ FinishApproved(id, approved, recorded)
        \/ Emit(recorded) /\ UNCHANGED branches
    BY DEF ApproveProposal, ApprovedBy, recorded
  <2> HIDE DEF approved
  <2> QED BY <2>1 DEF FinishApproved
<1>8. CASE Emit(recorded) /\ UNCHANGED branches
  <2>1. KeptTold
    BY <1>1, <1>8 DEF KeptTold
  <2>2. Emit(<<>>) \/ Emit(<<Event("approvalRecorded", branch, candidate)>>)
    BY <1>5, <1>8
  <2> QED BY <1>1, <1>3, <1>6, <2>1, <2>2, QuietEmit
<1>9. CASE /\ id \in DOMAIN candidates
           /\ CommitHistory(candidates[id], id)
           /\ Emit(Append(recorded, Event("revisionCommitted", approved.branch, approved.candidate)))
  <2>1. candidates[id].branch = branch /\ candidates[id].revision = candidate
    BY <1>1, <1>9 DEF Pending
  <2>2. branches' = [branches EXCEPT ![branch].head = candidate]
    BY <1>9, <2>1 DEF CommitHistory
  <2>3. Tells(branch, "revisionCommitted", candidate)
    BY <1>1, <1>3, <2>2, BranchMoves
  <2>4. Emit(Append(recorded, Event("revisionCommitted", branch, candidate)))
    BY <1>4, <1>9
  <2> HIDE DEF branch, candidate, recorded
  <2> QED BY <1>1, <1>3, <1>5, <1>6, <2>3, <2>4, TellingEmit
<1> QED BY <1>7, <1>8, <1>9

LEMMA LogStep ==
  ASSUME IInv, LogInv, [Next]_vars
  PROVE  LogInv'
<1>1. Known /\ DOMAIN branches \subseteq Branches
  BY DEF IInv, Known
<1>2. /\ "commentAdded" \in OtherTypes /\ "presenceChanged" \in OtherTypes
      /\ "revisionCommitted" \in HeadTypes /\ "revisionPublished" \in HeadTypes /\ None \in Nat
  BY DEF HeadTypes, OtherTypes, None
<1>3. ASSUME NEW actor \in Actors, NEW id \in Proposals, CommentOnProposal(actor, id)
      PROVE  LogInv'
  <2>1. /\ id \in DOMAIN proposals /\ UNCHANGED <<branches, follower>>
        /\ Emit(<<Event("commentAdded", proposals[id].branch, None)>>)
    BY <1>3 DEF CommentOnProposal, historyVars
  <2>2. KeptTold
    BY <2>1 DEF KeptTold
  <2>3. proposals[id].branch \in DOMAIN branches
    BY <1>1, <2>1 DEF Known, ProposalType
  <2> QED BY <1>1, <1>2, <2>1, <2>2, <2>3, QuietEmit
<1>4. ASSUME NEW actor \in Actors, NEW branch \in Branches, NEW r \in DOMAIN revisions,
             PublishRevision(actor, branch, r)
      PROVE  LogInv'
  <2>1. /\ branch \in DOMAIN branches /\ HeadOf(branch) = r /\ follower' = follower
        /\ branches' = [branches EXCEPT ![branch].published = r]
        /\ Emit(Append(<<>>, Event("revisionPublished", branch, r)))
    BY <1>4 DEF PublishRevision, MayPublish
  <2>2. r \in Nat
    BY <1>1 DEF Known
  <2>3. Tells(branch, "revisionPublished", r)
    BY <1>1, <2>1, BranchMoves
  <2> QED BY <1>1, <1>2, <2>1, <2>2, <2>3, TellingEmit
<1>5. ASSUME NEW actor \in Actors, NEW branch \in Branches, NEW r \in DOMAIN revisions,
             NEW key \in Keys, UndoRevision(actor, branch, r, key)
      PROVE  LogInv'
  <2>1. /\ branch \in DOMAIN branches /\ follower' = follower
        /\ branches' = [branches EXCEPT ![branch].head = Compensation(branch, r).revision]
        /\ Emit(Append(<<>>, Event("revisionCommitted", branch, Compensation(branch, r).revision)))
    BY <1>5 DEF UndoRevision
  <2>2. Compensation(branch, r).revision = sequence + 1 /\ sequence + 1 \in Nat
    BY <1>1 DEF Compensation, Known
  <2>3. Tells(branch, "revisionCommitted", sequence + 1)
    BY <1>1, <2>1, <2>2, BranchMoves
  <2> QED BY <1>1, <1>2, <2>1, <2>2, <2>3, TellingEmit
<1>6. ASSUME NEW actor \in Actors, NEW branch \in Branches, UpdatePresence(actor, branch)
      PROVE  LogInv'
  <2>1. /\ branch \in DOMAIN branches /\ UNCHANGED <<branches, follower>>
        /\ Emit(<<Event("presenceChanged", branch, None)>>)
    BY <1>6 DEF UpdatePresence, historyVars
  <2>2. KeptTold
    BY <2>1 DEF KeptTold
  <2> QED BY <1>1, <1>2, <2>1, <2>2, QuietEmit
<1>7. ASSUME NEW branch \in Branches, NEW r \in DOMAIN revisions, NEW policy \in BranchPolicies,
             CreateBranch(branch, r, policy)
      PROVE  LogInv'
  <2>1. /\ branch \notin DOMAIN branches /\ UNCHANGED <<logVars, follower>>
        /\ branches' = Put(branches, branch, [head |-> r, policy |-> policy, published |-> None])
    BY <1>7 DEF CreateBranch
  <2>2. KeptTold
    BY <2>1 DEF KeptTold, Put
  <2>3. LogTyped /\ Appended(<<>>, 0)
    BY <2>1, NothingAppended DEF LogInv
  <2> QED BY <2>2, <2>3, QuietStep
<1>8. CASE \/ \E actor \in Actors, branch \in Branches, key \in Keys :
                RefuseProposal(actor, branch, key) \/ RefuseUndo(actor, branch, key)
           \/ Tick \/ UNCHANGED vars
  <2>1. UNCHANGED <<branches, events, latest, follower>>
    BY <1>8 DEF RefuseProposal, RefuseUndo, Tick, vars, historyVars, logVars
  <2>2. KeptTold
    BY <2>1 DEF KeptTold
  <2>3. LogTyped /\ Appended(<<>>, 0)
    BY <2>1, NothingAppended DEF LogInv, logVars
  <2> QED BY <2>2, <2>3, QuietStep
<1>9. CASE ResumeEvents
  <2>1. UNCHANGED <<branches, events, latest>> /\ ~follower.reading
    BY <1>9 DEF ResumeEvents, historyVars, logVars
  <2>2. CASE Gap(follower.cursor)
    <3>1. follower' = [cursor |-> latest, reading |-> TRUE, view |-> follower.view]
      BY <1>9, <2>2 DEF ResumeEvents
    <3> QED BY <2>1, <3>1, GapStep
  <2>3. CASE ~Gap(follower.cursor)
    <3>0. Gap(follower.cursor) = FALSE
      BY <2>3 DEF Gap
    <3>1. follower' = [cursor |-> latest, reading |-> FALSE,
                       view |-> Follow(follower.view, EventsAfter(follower.cursor))]
      BY <1>9, <3>0 DEF ResumeEvents
    <3>2. Missed <= follower.cursor
      <4>1. follower.cursor \in Nat /\ latest - Len(events) \in Int
        BY DEF LogInv, LogTyped
      <4> QED BY <2>3, <4>1 DEF Gap, OldestAvailable, Missed
    <3> QED BY <1>1, <2>1, <3>1, <3>2, FollowStep
  <2> QED BY <2>2, <2>3
<1>10. CASE ReadBranches
  <2>1. /\ UNCHANGED <<branches, events, latest>>
        /\ follower' = [cursor |-> follower.cursor, reading |-> FALSE, view |-> BranchView]
    BY <1>10 DEF ReadBranches, historyVars, logVars
  <2> QED BY <2>1, ReadStep
<1> QED BY <1>3, <1>4, <1>5, <1>6, <1>7, <1>8, <1>9, <1>10, SubmitLog, ApproveLog DEF Next

(* A host that has read the log to its end sees every branch it knows as   *)
(* it is, whatever part of the log was dropped in between and whichever    *)
(* changes came while it read the branches after a gap (resume).           *)
THEOREM FollowersAgree == Spec => []FollowerAgrees
<1>1. LogInv => FollowerAgrees
  <2> SUFFICES ASSUME LogInv, ~follower.reading, follower.cursor = latest,
                      NEW b \in DOMAIN follower.view
               PROVE  follower.view[b] = [head |-> branches[b].head, published |-> branches[b].published]
    BY DEF FollowerAgrees
  <2>1. /\ Missed <= follower.cursor /\ follower.cursor - Missed = Len(events)
        /\ \A i \in 1..Len(events) : i <= follower.cursor - Missed
    <3>1. latest \in Nat /\ Len(events) \in Nat /\ Len(events) <= latest
      BY DEF LogInv, LogTyped
    <3> QED BY <3>1 DEF Missed
  <2>2. \A c, types : Within(events, c, types, follower.cursor - Missed)
    BY <2>1 DEF Within
  <2>3. b \in DOMAIN branches /\ KnownHead(follower.view, b) /\ KnownPublished(follower.view, b)
    BY <2>1, <2>2 DEF LogInv, Follows
  <2> QED BY <2>3 DEF KnownHead, KnownPublished, LogInv, LogTyped
<1>2. Spec => []LogInv
  <2>1. IInv /\ LogInv /\ [Next]_vars => LogInv'
    BY LogStep
  <2> QED BY LogInit, <2>1, Invariance, PTL DEF Spec
<1> QED BY <1>1, <1>2, PTL

-----------------------------------------------------------------------------
(* Sets of natural numbers have a least element.                           *)
LEMMA LeastNumber ==
  ASSUME NEW S \in SUBSET Nat, S # {}
  PROVE  \E n \in S : \A m \in S : n <= m
<1> DEFINE R == OpToRel(<, Nat)
<1>1. R = {ss \in Nat \X Nat : ss[1] < ss[2]}
  BY DEF OpToRel
<1>2. IsWellFoundedOn(R, Nat)
  BY NatLessThanWellFounded
<1> HIDE DEF R
<1>3. \E x \in S : \A y \in S : ~(<<y, x>> \in R)
  BY <1>2, WFMin
<1>4. \A x, y \in Nat : y < x => <<y, x>> \in R
  BY <1>1
<1>5. PICK n \in S : \A y \in S : ~(<<y, n>> \in R)
  BY <1>3
<1>6. \A m \in S : ~(m < n)
  BY <1>4, <1>5
<1> QED
  BY <1>6

(***************************************************************************)
(* Documents.  A patch makes documents of documents, and one that changes  *)
(* the length of the array has the array among its footprints.             *)
(***************************************************************************)

\* A title and an array, of anything.
Shaped(d) ==
  /\ d = [title |-> d.title, items |-> d.items]
  /\ \E T : d.items \in Seq(T)

\* An insertion makes a sequence longer by one.
LEMMA Inserted ==
  ASSUME NEW T, NEW s \in Seq(T), NEW v, NEW i \in 1..Len(s) + 1
  PROVE  /\ InsertAt(s, i, v) \in Seq(T \cup {v})
         /\ Len(InsertAt(s, i, v)) = Len(s) + 1
<1> DEFINE U == T \cup {v}
           before == SubSeq(s, 1, i - 1)
           after == SubSeq(s, i, Len(s))
<1>1. s \in Seq(U) /\ <<v>> \in Seq(U) /\ Len(<<v>>) = 1
  OBVIOUS
<1>2. before \in Seq(U) /\ Len(before) = i - 1
  BY <1>1
<1>3. after \in Seq(U) /\ Len(after) = Len(s) - i + 1
  BY <1>1
<1> HIDE DEF before, after
<1>4. (before \o <<v>>) \o after \in Seq(U) /\ Len((before \o <<v>>) \o after) = Len(s) + 1
  BY <1>1, <1>2, <1>3
<1>5. InsertAt(s, i, v) = (before \o <<v>>) \o after
  BY DEF InsertAt, before, after
<1> QED BY <1>4, <1>5

\* A removal makes it shorter by one.
LEMMA Removed ==
  ASSUME NEW T, NEW s \in Seq(T), NEW i \in 1..Len(s)
  PROVE  /\ RemoveAt(s, i) \in Seq(T)
         /\ Len(RemoveAt(s, i)) = Len(s) - 1
<1> DEFINE before == SubSeq(s, 1, i - 1)
           after == SubSeq(s, i + 1, Len(s))
<1>1. before \in Seq(T) /\ Len(before) = i - 1
  OBVIOUS
<1>2. after \in Seq(T) /\ Len(after) = Len(s) - i
  OBVIOUS
<1> HIDE DEF before, after
<1>3. before \o after \in Seq(T) /\ Len(before \o after) = Len(s) - 1
  BY <1>1, <1>2
<1>4. RemoveAt(s, i) = before \o after
  BY DEF RemoveAt, before, after
<1> QED BY <1>3, <1>4

\* What the three kinds of changes make of a document.
LEMMA InsertedItem ==
  ASSUME NEW d, Shaped(d), NEW path, NEW v, NEW e \in InsertItem(d, path, v)
  PROVE  /\ Shaped(e) /\ Len(e.items) = Len(d.items) + 1
         /\ Len(d.items) <= MaxItems =>
              \E token \in IndexTokens \cup {"-"} : path = ItemPath(token)
<1>1. PICK T : d.items \in Seq(T)
  BY DEF Shaped
<1>2. PICK i \in 1..Len(d.items) + 1 :
        /\ e = [d EXCEPT !.items = InsertAt(d.items, i, v)]
        /\ path = ItemPath(ToString(i - 1)) \/ path = ItemPath("-")
  BY DEF InsertItem, InsertIndex
<1>3. e = [title |-> d.title, items |-> InsertAt(d.items, i, v)]
  BY <1>2 DEF Shaped
<1>4. /\ InsertAt(d.items, i, v) \in Seq(T \cup {v})
      /\ Len(InsertAt(d.items, i, v)) = Len(d.items) + 1
  BY <1>1, Inserted
<1>5. Shaped(e) /\ Len(e.items) = Len(d.items) + 1
  BY <1>3, <1>4 DEF Shaped
<1>6. ASSUME Len(d.items) <= MaxItems
      PROVE  \E token \in IndexTokens \cup {"-"} : path = ItemPath(token)
  <2>1. i - 1 \in 0..MaxItems
    BY <1>1, <1>6, DocumentsAssumption
  <2>2. ToString(i - 1) \in IndexTokens
    BY <2>1 DEF IndexTokens
  <2> QED BY <1>2, <2>2
<1> QED BY <1>5, <1>6

\* Likewise for a removal, which names an element.
LEMMA RemovedItem ==
  ASSUME NEW d, Shaped(d), NEW path, NEW e \in RemoveItem(d, path)
  PROVE  /\ Shaped(e) /\ Len(e.items) = Len(d.items) - 1
         /\ Len(d.items) <= MaxItems =>
              \E token \in IndexTokens \cup {"-"} : path = ItemPath(token)
<1>1. PICK T : d.items \in Seq(T)
  BY DEF Shaped
<1>2. PICK i \in DOMAIN d.items :
        e = [d EXCEPT !.items = RemoveAt(d.items, i)] /\ path = ItemPath(ToString(i - 1))
  BY DEF RemoveItem, ItemIndex
<1>3. e = [title |-> d.title, items |-> RemoveAt(d.items, i)]
  BY <1>2 DEF Shaped
<1>4. RemoveAt(d.items, i) \in Seq(T) /\ Len(RemoveAt(d.items, i)) = Len(d.items) - 1
  BY <1>1, Removed
<1>5. Shaped(e) /\ Len(e.items) = Len(d.items) - 1
  BY <1>3, <1>4 DEF Shaped
<1>6. ASSUME Len(d.items) <= MaxItems
      PROVE  \E token \in IndexTokens \cup {"-"} : path = ItemPath(token)
  <2>1. i - 1 \in 0..MaxItems
    BY <1>1, <1>6, DocumentsAssumption
  <2>2. ToString(i - 1) \in IndexTokens
    BY <2>1 DEF IndexTokens
  <2> QED BY <1>2, <2>2
<1> QED BY <1>5, <1>6

\* A replacement keeps the length.
LEMMA ReplacedValue ==
  ASSUME NEW d, Shaped(d), NEW path, NEW v, NEW e \in ReplaceValue(d, path, v)
  PROVE  Shaped(e) /\ Len(e.items) = Len(d.items)
<1>1. PICK T : d.items \in Seq(T)
  BY DEF Shaped
<1>2. CASE path = TitlePath
  <2>1. e = [title |-> v, items |-> d.items]
    BY <1>2 DEF ReplaceValue, Shaped
  <2> QED BY <1>1, <2>1 DEF Shaped
<1>3. CASE path # TitlePath
  <2>1. PICK i \in DOMAIN d.items : e = [d EXCEPT !.items[i] = v]
    BY <1>3 DEF ReplaceValue, ItemIndex
  <2>2. e = [title |-> d.title, items |-> [d.items EXCEPT ![i] = v]]
    BY <2>1 DEF Shaped
  <2>3. d.items \in Seq(T \cup {v})
    BY <1>1
  <2>4. [d.items EXCEPT ![i] = v] \in Seq(T \cup {v}) /\ Len([d.items EXCEPT ![i] = v]) = Len(d.items)
    BY <2>3
  <2> QED BY <2>2, <2>4 DEF Shaped
<1> QED BY <1>2, <1>3

\* An operation that inserts an element or removes one guards the array.
LEMMA ArrayFootprint ==
  ASSUME NEW o, IsStructural(o), NEW token \in IndexTokens \cup {"-"}, ItemPath(token) \in OperationPaths(o)
  PROVE  ItemsPath \in ConflictFootprints(o)
<1> DEFINE path == ItemPath(token)
<1>1. Last(path) = token
  BY DEF Last, ItemPath
<1>2. Front(path) = ItemsPath
  <2>1. Len(path) = 2 /\ path \in Seq({"items", token})
    BY DEF ItemPath
  <2>2. Front(path) = [i \in 1..1 |-> path[i]]
    BY <2>1 DEF Front
  <2>3. path[1] = "items"
    BY DEF ItemPath
  <2> HIDE DEF path
  <2>4. Front(path) = <<"items">>
    BY <2>2, <2>3
  <2> QED BY <2>4 DEF ItemsPath
<1> HIDE DEF path
<1>3. ItemsPath \in ArrayParent(path)
  BY <1>1, <1>2 DEF ArrayParent
<1> QED BY <1>3 DEF ConflictFootprints, path

\* One operation: the length of the array changes only if it is a footprint.
LEMMA OperationFacts ==
  ASSUME NEW d, Shaped(d), NEW o, o.op \in OperationTypes, NEW e \in ApplyOperation(d, o)
  PROVE  /\ Shaped(e)
         /\ (Len(d.items) <= MaxItems /\ ItemsPath \notin ConflictFootprints(o)) =>
              Len(e.items) = Len(d.items)
<1>1. CASE o.op = "replace"
  BY <1>1, ReplacedValue DEF ApplyOperation
<1>2. CASE o.op = "remove"
  <2>1. e \in RemoveItem(d, o.path) /\ IsStructural(o) /\ o.path \in OperationPaths(o)
    BY <1>2 DEF ApplyOperation, IsStructural, OperationPaths
  <2> QED BY <2>1, RemovedItem, ArrayFootprint
<1>3. CASE o.op = "add"
  <2>1. e \in InsertItem(d, o.path, o.value) /\ IsStructural(o) /\ o.path \in OperationPaths(o)
    BY <1>3 DEF ApplyOperation, IsStructural, OperationPaths
  <2> QED BY <2>1, InsertedItem, ArrayFootprint
<1>4. CASE o.op = "copy"
  <2>1. PICK v : e \in InsertItem(d, o.path, v)
    BY <1>4 DEF ApplyOperation
  <2>2. IsStructural(o) /\ o.path \in OperationPaths(o)
    BY <1>4 DEF IsStructural, OperationPaths
  <2> QED BY <2>1, <2>2, InsertedItem, ArrayFootprint
<1>5. CASE o.op = "move"
  <2>1. PICK rest \in RemoveItem(d, o.from) : \E v : e \in InsertItem(rest, o.path, v)
    BY <1>5 DEF ApplyOperation
  <2>2. PICK v : e \in InsertItem(rest, o.path, v)
    BY <2>1
  <2>3. Shaped(rest) /\ Len(rest.items) = Len(d.items) - 1
    BY RemovedItem
  <2>4. Shaped(e) /\ Len(e.items) = Len(rest.items) + 1
    BY <2>2, <2>3, InsertedItem
  <2>5. Len(d.items) \in Nat
    BY DEF Shaped
  <2> QED BY <2>3, <2>4, <2>5
<1>6. CASE o.op = "test"
  BY <1>6 DEF ApplyOperation
<1> QED BY <1>1, <1>2, <1>3, <1>4, <1>5, <1>6 DEF OperationTypes

-----------------------------------------------------------------------------
(* The fold over the operations of a patch (applyOperations), a function   *)
(* of the positions done, which exists by induction on their number.       *)

\* Induction over the natural numbers, for a set.
LEMMA NumbersInduction ==
  ASSUME NEW S, 0 \in S, \A n \in Nat : n \in S => n + 1 \in S
  PROVE  Nat \subseteq S
<1> SUFFICES ASSUME Nat \ S # {} PROVE FALSE
  OBVIOUS
<1>1. PICK n \in Nat \ S : \A m \in Nat \ S : n <= m
  BY LeastNumber
<1>2. n # 0 /\ n - 1 \in Nat /\ n - 1 \in S
  BY <1>1
<1> QED BY <1>1, <1>2

AfterOperation(made, o) == UNION {ApplyOperation(d, o) : d \in made}

PatchFold(f, start, patch, n) ==
  f = [done \in SUBSET (1..n) |->
         IF done = {} THEN start
         ELSE AfterOperation(f[done \ {Max(done)}], patch[Max(done)])]

\* The library's fold over a sequence is this function of the positions.
LEMMA ApplyIsFold ==
  ASSUME NEW d, NEW patch, NEW n, DOMAIN patch = 1..n
  PROVE  ApplyOperations(d, patch) = (CHOOSE f : PatchFold(f, {d}, patch, n))[1..n]
BY DEF ApplyOperations, FoldLeft, MapThenFoldSet, PatchFold, AfterOperation

\* The fold takes the largest position last.
LEMMA LastPositionDone ==
  ASSUME NEW n \in Nat, NEW done \in SUBSET (1..n+1), n + 1 \in done
  PROVE  Max(done) = n + 1 /\ done \ {n + 1} \in SUBSET (1..n)
<1>1. \A y \in done : n + 1 >= y
  OBVIOUS
<1>2. \A x \in done : (\A y \in done : x >= y) => x = n + 1
  OBVIOUS
<1>3. Max(done) \in done /\ \A y \in done : Max(done) >= y
  <2>1. Max(done) = CHOOSE x \in done : \A y \in done : x >= y
    BY Zenon DEF Max
  <2> QED BY <1>1, <2>1, Zenon
<1>4. Max(done) = n + 1
  BY <1>2, <1>3, Zenon
<1>5. \A x \in done \ {n + 1} : x \in 1..n
  OBVIOUS
<1> QED BY <1>4, <1>5

\* One operation more.
LEMMA PatchFoldGrows ==
  ASSUME NEW n \in Nat, NEW start, NEW patch, NEW f, PatchFold(f, start, patch, n)
  PROVE  \E h : PatchFold(h, start, patch, n + 1)
<1> DEFINE h == [done \in SUBSET (1..n+1) |->
                   IF n + 1 \in done THEN AfterOperation(f[done \ {n + 1}], patch[n + 1]) ELSE f[done]]
<1>1. \A done \in SUBSET (1..n+1) :
        h[done] = IF done = {} THEN start ELSE AfterOperation(h[done \ {Max(done)}], patch[Max(done)])
  <2> TAKE done \in SUBSET (1..n+1)
  <2>1. CASE n + 1 \in done
    <3>1. Max(done) = n + 1 /\ done \ {n + 1} \in SUBSET (1..n)
      BY <2>1, LastPositionDone
    <3>2. h[done \ {n + 1}] = f[done \ {n + 1}]
      BY <3>1
    <3>3. h[done] = AfterOperation(f[done \ {n + 1}], patch[n + 1])
      BY <2>1
    <3> QED BY <2>1, <3>1, <3>2, <3>3
  <2>2. CASE n + 1 \notin done
    <3>1. done \in SUBSET (1..n) /\ h[done] = f[done]
      BY <2>2
    <3>2. f[done] = IF done = {} THEN start ELSE AfterOperation(f[done \ {Max(done)}], patch[Max(done)])
      BY <3>1 DEF PatchFold
    <3>3. done \ {Max(done)} \in SUBSET (1..n+1) /\ n + 1 \notin done \ {Max(done)}
      BY <2>2
    <3>4. h[done \ {Max(done)}] = f[done \ {Max(done)}]
      BY <3>3
    <3> QED BY <3>1, <3>2, <3>4
  <2> QED BY <2>1, <2>2
<1>2. h = [done \in SUBSET (1..n+1) |-> h[done]]
  OBVIOUS
<1> HIDE DEF h
<1>3. PatchFold(h, start, patch, n + 1)
  BY <1>1, <1>2 DEF PatchFold
<1> QED BY <1>3

\* There is such a function for any number of operations.
LEMMA PatchFoldExists ==
  ASSUME NEW start, NEW patch
  PROVE  \A n \in Nat : \E f : PatchFold(f, start, patch, n)
<1> DEFINE S == {n \in Nat : \E f : PatchFold(f, start, patch, n)}
<1>1. 0 \in S
  <2> DEFINE f == [done \in SUBSET (1..0) |-> start]
  <2>1. \A done \in SUBSET (1..0) : done = {}
    OBVIOUS
  <2>2. PatchFold(f, start, patch, 0)
    BY <2>1 DEF PatchFold
  <2> QED BY <2>2
<1>2. \A n \in Nat : n \in S => n + 1 \in S
  BY PatchFoldGrows
<1> HIDE DEF S
<1>3. Nat \subseteq S
  BY <1>1, <1>2, NumbersInduction
<1> QED BY <1>3 DEF S

\* A path is a footprint of a patch.
Guards(patch, path) == \E o \in Range(patch) : path \in ConflictFootprints(o)

\* What a patch makes of a document: a document, with an array of the same
\* length unless the array is a footprint.
LEMMA PatchFacts ==
  ASSUME NEW d, Shaped(d), NEW patch \in Patches, NEW e \in ApplyOperations(d, patch)
  PROVE  /\ Shaped(e)
         /\ (Len(d.items) <= MaxItems /\ ~Guards(patch, ItemsPath)) => Len(e.items) = Len(d.items)
<1> DEFINE f == CHOOSE f : PatchFold(f, {d}, patch, Len(patch))
           quiet == Len(d.items) <= MaxItems /\ ~Guards(patch, ItemsPath)
           S == {n \in Nat : n <= Len(patch) =>
                   \A x \in f[1..n] : Shaped(x) /\ (quiet => Len(x.items) = Len(d.items))}
<1>1. /\ DOMAIN patch = 1..Len(patch) /\ Len(patch) \in Nat
      /\ \A i \in 1..Len(patch) : patch[i] \in Range(patch) /\ patch[i].op \in OperationTypes
  <2>1. patch \in Seq(Range(patch)) /\ \A o \in Range(patch) : o.op \in OperationTypes
    BY CollaborationAssumption
  <2> QED BY <2>1
<1>2. e \in f[1..Len(patch)]
  BY <1>1, ApplyIsFold
<1>3. PatchFold(f, {d}, patch, Len(patch))
  <2>1. \E h : PatchFold(h, {d}, patch, Len(patch))
    BY <1>1, PatchFoldExists
  <2> QED BY <2>1
<1> HIDE DEF f
<1>4. f[1..0] = {d}
  <2>1. 1..0 = {} /\ {} \in SUBSET (1..Len(patch))
    OBVIOUS
  <2> QED BY <1>3, <2>1 DEF PatchFold
<1>5. ASSUME NEW n \in Nat, n + 1 <= Len(patch)
      PROVE  f[1..n+1] = AfterOperation(f[1..n], patch[n + 1])
  <2>1. 1..n+1 \in SUBSET (1..Len(patch)) /\ n + 1 \in 1..n+1 /\ 1..n+1 # {}
    <3>1. \A i \in 1..n+1 : i \in 1..Len(patch)
      BY <1>1, <1>5
    <3>2. n + 1 \in 1..n+1
      OBVIOUS
    <3> QED BY <3>1, <3>2
  <2>2. Max(1..n+1) = n + 1
    BY LastPositionDone
  <2>3. (1..n+1) \ {n + 1} = 1..n
    OBVIOUS
  <2>4. f[1..n+1] = AfterOperation(f[(1..n+1) \ {Max(1..n+1)}], patch[Max(1..n+1)])
    BY <1>3, <2>1 DEF PatchFold
  <2> QED BY <2>2, <2>3, <2>4
<1>6. 0 \in S
  BY <1>4
<1>7. ASSUME NEW n \in Nat, n \in S PROVE n + 1 \in S
  <2> SUFFICES ASSUME n + 1 <= Len(patch), NEW x \in f[1..n+1]
               PROVE  Shaped(x) /\ (quiet => Len(x.items) = Len(d.items))
    OBVIOUS
  <2>1. PICK y \in f[1..n] : x \in ApplyOperation(y, patch[n + 1])
    BY <1>5 DEF AfterOperation
  <2>2. Shaped(y) /\ (quiet => Len(y.items) = Len(d.items))
    BY <1>1, <1>7
  <2>3. patch[n + 1] \in Range(patch) /\ patch[n + 1].op \in OperationTypes
    BY <1>1
  <2>4. /\ Shaped(x)
        /\ (Len(y.items) <= MaxItems /\ ItemsPath \notin ConflictFootprints(patch[n + 1])) =>
              Len(x.items) = Len(y.items)
    BY <2>1, <2>2, <2>3, OperationFacts
  <2> QED BY <2>2, <2>3, <2>4 DEF Guards
<1> HIDE DEF S
<1>8. Nat \subseteq S
  BY <1>6, <1>7, NumbersInduction
<1>9. Len(patch) \in S
  BY <1>1, <1>8
<1> QED BY <1>1, <1>2, <1>9 DEF S

-----------------------------------------------------------------------------
(* The ancestors of a revision: what every set holds that holds it and is  *)
(* closed under parents.                                                   *)

Proper(d) == Shaped(d) /\ Len(d.items) <= MaxItems

\* A revision is newer than its parent, which only the first one lacks, and its
\* document is one.
Tree ==
  \A r \in DOMAIN revisions :
    /\ revisions[r].parent < r /\ (revisions[r].parent = None => r = 1)
    /\ Proper(revisions[r].document)

Above(r) ==
  {s \in DOMAIN revisions :
     \A S \in SUBSET DOMAIN revisions : r \in S /\ ClosedUnderParent(S) => s \in S}

\* The walk along parents is a recursive function.
IsWalk(f) ==
  f = [s \in DOMAIN revisions |->
         {s} \cup (IF revisions[s].parent = None THEN {} ELSE f[revisions[s].parent])]

\* Ancestry unfolds to the chosen walk.
LEMMA AncestryIsWalk ==
  ASSUME NEW r
  PROVE  Ancestry(r) = (CHOOSE f : IsWalk(f))[r]
BY DEF Ancestry, IsWalk

\* What is above a revision: itself and what is above its parent.
LEMMA AboveFacts ==
  ASSUME Known, Tree, NEW r \in DOMAIN revisions
  PROVE  /\ r \in Above(r)
         /\ \A s \in Above(r) : s \in DOMAIN revisions /\ s <= r
         /\ ClosedUnderParent(Above(r))
         /\ Above(r) = {r} \cup (IF revisions[r].parent = None THEN {} ELSE Above(revisions[r].parent))
<1>1. r \in Above(r)
  BY DEF Above
<1>2. ClosedUnderParent(Above(r))
  <2> SUFFICES ASSUME NEW s \in Above(r), revisions[s].parent # None
               PROVE  revisions[s].parent \in Above(r)
    BY DEF ClosedUnderParent
  <2>1. s \in DOMAIN revisions /\ revisions[s].parent \in DOMAIN revisions
    BY DEF Above, Known
  <2> QED BY <2>1 DEF Above, ClosedUnderParent
<1>3. \A s \in Above(r) : s \in DOMAIN revisions /\ s <= r
  <2> DEFINE S == {s \in DOMAIN revisions : s <= r}
  <2>1. ClosedUnderParent(S)
    <3> SUFFICES ASSUME NEW s \in S, revisions[s].parent # None
                 PROVE  revisions[s].parent \in S
      BY DEF ClosedUnderParent
    <3>1. revisions[s].parent \in DOMAIN revisions /\ revisions[s].parent < s
      BY DEF Known, Tree
    <3>2. \A q \in DOMAIN revisions : q \in Nat
      BY DEF Known
    <3> QED BY <3>1, <3>2
  <2>2. r <= r
    BY DEF Known
  <2> HIDE DEF S
  <2>3. S \in SUBSET DOMAIN revisions /\ r \in S
    BY <2>2 DEF S
  <2>4. \A s \in Above(r) : s \in S
    BY <2>1, <2>3 DEF Above
  <2> QED BY <2>4 DEF S
<1>4. CASE revisions[r].parent = None
  <2>1. ClosedUnderParent({r})
    BY <1>4 DEF ClosedUnderParent
  <2>2. Above(r) \subseteq {r}
    BY <2>1 DEF Above
  <2> QED BY <1>1, <1>2, <1>3, <1>4, <2>2
<1>5. CASE revisions[r].parent # None
  <2> DEFINE p == revisions[r].parent
             S == {r} \cup Above(p)
  <2>1. p \in DOMAIN revisions
    BY <1>5 DEF Known
  <2>2. Above(p) \subseteq Above(r)
    <3> SUFFICES ASSUME NEW s \in Above(p), NEW R \in SUBSET DOMAIN revisions, r \in R, ClosedUnderParent(R)
                 PROVE  s \in R
      BY DEF Above
    <3>1. p \in R
      BY <1>5 DEF ClosedUnderParent
    <3> QED BY <3>1 DEF Above
  <2>3. p \in Above(p)
    BY <2>1 DEF Above
  <2>4. ClosedUnderParent(S)
    <3> SUFFICES ASSUME NEW s \in S, revisions[s].parent # None
                 PROVE  revisions[s].parent \in S
      BY DEF ClosedUnderParent
    <3>1. CASE s = r
      BY <2>3, <3>1
    <3>2. CASE s \in Above(p)
      <4>1. s \in DOMAIN revisions /\ revisions[s].parent \in DOMAIN revisions
        BY <3>2 DEF Above, Known
      <4>2. revisions[s].parent \in Above(p)
        BY <3>2, <4>1 DEF Above, ClosedUnderParent
      <4> QED BY <4>2
    <3> QED BY <3>1, <3>2
  <2>5. S \in SUBSET DOMAIN revisions /\ r \in S
    BY DEF Above
  <2> HIDE DEF S
  <2>6. Above(r) \subseteq S
    BY <2>4, <2>5 DEF Above
  <2> QED BY <1>1, <1>2, <1>3, <1>5, <2>2, <2>6 DEF S
<1> QED BY <1>4, <1>5

\* The first revision is above every other.
LEMMA FirstAbove ==
  ASSUME Known, Tree, NEW r \in DOMAIN revisions
  PROVE  1 \in Above(r)
<1> DEFINE Wrong == {s \in DOMAIN revisions : 1 \notin Above(s)}
<1> SUFFICES ASSUME Wrong # {} PROVE FALSE
  OBVIOUS
<1>1. Wrong \in SUBSET Nat
  BY DEF Known
<1>2. PICK s \in Wrong : \A q \in Wrong : s <= q
  BY <1>1, LeastNumber
<1> DEFINE p == revisions[s].parent
<1>3. Above(s) = {s} \cup (IF p = None THEN {} ELSE Above(p)) /\ s \in Above(s)
  BY <1>2, AboveFacts
<1>4. p # None
  BY <1>2, <1>3 DEF Tree
<1>5. p \in DOMAIN revisions /\ p < s /\ p \in Nat /\ s \in Nat
  BY <1>1, <1>2, <1>4 DEF Known, Tree
<1>6. p \in Wrong => s <= p
  BY <1>2
<1>7. p \notin Wrong
  <2> HIDE DEF p
  <2> QED BY <1>5, <1>6
<1> QED BY <1>2, <1>3, <1>4, <1>5, <1>7

TreeAncestry == \A r \in DOMAIN revisions : Ancestry(r) = Above(r)

\* The walk is unique, by induction on the numbers of the revisions.
LEMMA AncestryIsAbove == Known /\ Tree => TreeAncestry
<1> SUFFICES ASSUME Known, Tree PROVE TreeAncestry
  OBVIOUS
<1> DEFINE above == [s \in DOMAIN revisions |-> Above(s)]
           walk == CHOOSE f : IsWalk(f)
<1>1. IsWalk(above)
  <2>1. ASSUME NEW s \in DOMAIN revisions
        PROVE  Above(s) = {s} \cup (IF revisions[s].parent = None THEN {} ELSE above[revisions[s].parent])
    <3>1. revisions[s].parent # None => revisions[s].parent \in DOMAIN revisions
      BY DEF Known
    <3>2. Above(s) = {s} \cup (IF revisions[s].parent = None THEN {} ELSE Above(revisions[s].parent))
      BY AboveFacts
    <3> QED BY <3>1, <3>2
  <2> QED BY <2>1 DEF IsWalk
<1> HIDE DEF above
<1>2. IsWalk(walk)
  BY <1>1
<1> HIDE DEF walk
<1>3. /\ \A s \in DOMAIN revisions :
           walk[s] = {s} \cup (IF revisions[s].parent = None THEN {} ELSE walk[revisions[s].parent])
  BY <1>2 DEF IsWalk
<1> DEFINE Wrong == {s \in DOMAIN revisions : walk[s] # Above(s)}
<1>4. Wrong = {}
  <2> SUFFICES ASSUME Wrong # {} PROVE FALSE
    OBVIOUS
  <2>1. DOMAIN revisions \subseteq Nat
    BY DEF Known
  <2>2. PICK s \in Wrong : \A q \in Wrong : s <= q
    BY <2>1, LeastNumber
  <2>3. revisions[s].parent # None =>
          revisions[s].parent \in DOMAIN revisions /\ revisions[s].parent < s
    BY DEF Known, Tree
  <2>4. revisions[s].parent # None => walk[revisions[s].parent] = Above(revisions[s].parent)
    BY <2>1, <2>2, <2>3
  <2>5. Above(s) = {s} \cup (IF revisions[s].parent = None THEN {} ELSE Above(revisions[s].parent))
    BY AboveFacts
  <2> QED BY <1>3, <2>4, <2>5
<1>5. \A r \in DOMAIN revisions : Ancestry(r) = walk[r]
  BY AncestryIsWalk DEF walk
<1> QED BY <1>4, <1>5 DEF TreeAncestry

\* The same after a step.
LEMMA AncestryIsAboveNext == Known' /\ Tree' => TreeAncestry'
BY AncestryIsAbove, PTL

\* The ancestors of a revision that exists stay what they are.
LEMMA AboveStays ==
  ASSUME Known, DOMAIN revisions \subseteq DOMAIN revisions',
         \A s \in DOMAIN revisions : revisions'[s] = revisions[s], NEW r \in DOMAIN revisions
  PROVE  Above(r)' = Above(r)
<1>1. ASSUME NEW s \in Above(r) PROVE s \in Above(r)'
  <2>1. s \in DOMAIN revisions'
    BY DEF Above
  <2> SUFFICES ASSUME NEW S \in SUBSET DOMAIN revisions', r \in S,
                      \A q \in S : revisions'[q].parent # None => revisions'[q].parent \in S
               PROVE  s \in S
    BY <2>1 DEF Above, ClosedUnderParent
  <2> DEFINE R == S \cap DOMAIN revisions
  <2>2. ClosedUnderParent(R)
    <3> SUFFICES ASSUME NEW q \in R, revisions[q].parent # None PROVE revisions[q].parent \in R
      BY DEF ClosedUnderParent
    <3>1. revisions'[q] = revisions[q] /\ revisions[q].parent \in DOMAIN revisions
      BY DEF Known
    <3> QED BY <3>1
  <2> HIDE DEF R
  <2>3. R \in SUBSET DOMAIN revisions /\ r \in R
    BY DEF R
  <2>4. s \in R
    BY <2>2, <2>3 DEF Above
  <2> QED BY <2>4 DEF R
<1>2. ASSUME NEW s \in Above(r)' PROVE s \in Above(r)
  <2>1. \A S \in SUBSET DOMAIN revisions : r \in S /\ ClosedUnderParent(S) => s \in S
    <3> TAKE S \in SUBSET DOMAIN revisions
    <3> HAVE r \in S /\ ClosedUnderParent(S)
    <3>1. S \in SUBSET DOMAIN revisions' 
      OBVIOUS
    <3>2. \A q \in S : revisions'[q].parent # None => revisions'[q].parent \in S
      BY DEF ClosedUnderParent
    <3> QED BY <3>1, <3>2 DEF Above, ClosedUnderParent
  <2>2. ClosedUnderParent(DOMAIN revisions)
    BY DEF ClosedUnderParent, Known
  <2>3. s \in DOMAIN revisions
    BY <2>1, <2>2
  <2> QED BY <2>1, <2>3 DEF Above
<1> QED BY <1>1, <1>2

-----------------------------------------------------------------------------
(* What a proposal is moved over.                                          *)

\* A document has a value only at its own paths.
LEMMA NoOtherPath ==
  ASSUME NEW d, Proper(d), NEW path, path \notin DocumentPaths
  PROVE  ValueAt(d, path) = {}
<1>1. PICK T : d.items \in Seq(T)
  BY DEF Proper, Shaped
<1>2. ASSUME NEW j \in DOMAIN d.items PROVE path # ItemPath(ToString(j - 1))
  <2>1. j - 1 \in 0..MaxItems
    BY <1>1, DocumentsAssumption DEF Proper
  <2>2. ToString(j - 1) \in IndexTokens
    BY <2>1 DEF IndexTokens
  <2> QED BY <2>2 DEF DocumentPaths
<1>3. path # TitlePath /\ path # ItemsPath
  BY DEF DocumentPaths
<1> QED BY <1>2, <1>3 DEF ValueAt

\* What no revision between a base and a head changes is the same in both.
LEMMA Unchanged ==
  ASSUME Known, Tree, NEW head \in DOMAIN revisions, NEW base \in Ancestry(head), NEW path,
         \A r \in Intervening(head, base) : path \notin Changes(r)
  PROVE  ValueAt(revisions[base].document, path) = ValueAt(revisions[head].document, path)
<1> DEFINE Seen(r) == ValueAt(revisions[r].document, path)
           Wrong == {r \in Above(head) : base \in Above(r) /\ Seen(r) # Seen(base)}
<1>1. \A r \in DOMAIN revisions : Ancestry(r) = Above(r)
  BY AncestryIsAbove DEF TreeAncestry
<1>2. DOMAIN revisions \subseteq Nat
  BY DEF Known
<1>3. base \in Above(head) /\ base \in DOMAIN revisions
  BY <1>1, AboveFacts
<1>4. \A r \in DOMAIN revisions :
        /\ r \in Above(r)
        /\ \A s \in Above(r) : s \in DOMAIN revisions /\ s <= r
        /\ ClosedUnderParent(Above(r))
        /\ Above(r) = {r} \cup (IF revisions[r].parent = None THEN {} ELSE Above(revisions[r].parent))
  BY AboveFacts
<1> HIDE DEF Seen
<1>5. Wrong = {}
  <2> SUFFICES ASSUME Wrong # {} PROVE FALSE
    OBVIOUS
  <2>1. Wrong \in SUBSET Nat
    BY <1>2, <1>4
  <2>2. PICK r \in Wrong : \A q \in Wrong : r <= q
    BY <2>1, LeastNumber
  <2>3. r \in DOMAIN revisions /\ r \in Above(head) /\ base \in Above(r) /\ Seen(r) # Seen(base) /\ r # base
    BY <1>4, <2>2
  <2> DEFINE p == revisions[r].parent
  <2>4. p # None /\ base \in Above(p)
    BY <1>4, <2>3
  <2>5. p \in DOMAIN revisions /\ p < r
    BY <2>3, <2>4 DEF Known, Tree
  <2>6. p \in Above(head)
    BY <1>4, <2>3, <2>4 DEF ClosedUnderParent
  <2>7. Seen(p) = Seen(base)
    <3>1. p \in Wrong => r <= p
      BY <2>2
    <3>2. p \in Nat /\ r \in Nat
      BY <1>2, <2>3, <2>5
    <3> HIDE DEF p
    <3>3. p \notin Wrong
      BY <2>5, <3>1, <3>2
    <3> QED BY <2>4, <2>6, <3>3
  <2>8. r \in Intervening(head, base)
    <3>1. base <= r /\ (r \in Above(base) => r <= base)
      BY <1>3, <1>4, <2>3
    <3>2. r \notin Above(base)
      BY <1>2, <1>3, <2>3, <3>1
    <3> QED BY <1>1, <1>3, <2>3, <3>2 DEF Intervening
  <2>9. path \notin Changes(r)
    BY <2>8
  <2>10. CASE path \in DocumentPaths
    BY <2>3, <2>7, <2>9, <2>10 DEF Changes, Seen
  <2>11. CASE path \notin DocumentPaths
    <3>1. Proper(revisions[r].document) /\ Proper(revisions[base].document)
      BY <1>3, <2>3 DEF Tree
    <3> QED BY <2>3, <2>11, <3>1, NoOtherPath DEF Seen
  <2> QED BY <2>10, <2>11
<1>6. head \in Above(head)
  BY <1>4
<1> QED BY <1>3, <1>5, <1>6 DEF Seen

\* A proposal on this base that becomes this candidate or revision is safe.
Safe(base, applied) ==
  (\A r \in Intervening(applied.parent, base) : Accounted(r)) =>
    /\ \A path \in applied.changedPaths :
         ValueAt(revisions[base].document, path) = ValueAt(revisions[applied.parent].document, path)
    /\ Len(applied.document.items) # Len(revisions[applied.parent].document.items) =>
         revisions[base].document.items = revisions[applied.parent].document.items

\* A submission that meets no conflict is safe, and makes a document.
LEMMA SubmissionSafe ==
  ASSUME Known, Tree, NEW branch \in DOMAIN branches, NEW base \in DOMAIN revisions, NEW patch \in Patches,
         IsAncestor(base, HeadOf(branch)), SubmitConflicts(branch, base, patch) = {},
         NEW document \in ApplyCollaborationPatch(revisions[HeadOf(branch)].document, patch)
  PROVE  Proper(document) /\ Safe(base, Candidate(branch, patch, document))
<1> DEFINE head == HeadOf(branch)
<1>1. head \in DOMAIN revisions
  BY DEF Known, BranchType, HeadOf
<1> HIDE DEF head
<1>2. Proper(revisions[head].document)
  BY <1>1 DEF Tree
<1>3. document \in ApplyOperations(revisions[head].document, patch) /\ Len(document.items) <= MaxItems
  BY DEF ApplyCollaborationPatch, IsValid, head
<1>4. /\ Shaped(document)
      /\ ~Guards(patch, ItemsPath) => Len(document.items) = Len(revisions[head].document.items)
  BY <1>2, <1>3, PatchFacts DEF Proper
<1>5. ASSUME \A r \in Intervening(head, base) : Accounted(r), NEW path, Guards(patch, path)
      PROVE  ValueAt(revisions[base].document, path) = ValueAt(revisions[head].document, path)
  <2>1. ASSUME NEW r \in Intervening(head, base), path \in Changes(r) PROVE FALSE
    <3>1. PICK declared \in revisions[r].changedPaths : PointersOverlap(path, declared)
      BY <1>5, <2>1 DEF Accounted
    <3> DEFINE changed == UNION {revisions[q].changedPaths : q \in Intervening(head, base)}
               footprints == UNION {ConflictFootprints(o) : o \in Range(patch)}
    <3>2. declared \in changed /\ path \in footprints
      BY <1>5 DEF Guards
    <3> HIDE DEF changed, footprints
    <3>3. CollaborationConflicts(patch, changed) = {}
      BY DEF SubmitConflicts, changed, head
    <3>4. <<path, declared>> \in CollaborationConflicts(patch, changed)
      BY <3>1, <3>2 DEF CollaborationConflicts, footprints
    <3> QED BY <3>3, <3>4
  <2>2. base \in Ancestry(head)
    BY DEF IsAncestor, head
  <2> QED BY <1>1, <2>1, <2>2, Unchanged
<1>6. ASSUME NEW path \in ChangedPaths(patch) PROVE Guards(patch, path)
  BY DEF ChangedPaths, Guards, ConflictFootprints
<1>7. \A d : ValueAt(d, ItemsPath) = {d.items}
  <2>1. ItemsPath # TitlePath
    BY DEF ItemsPath, TitlePath
  <2> QED BY <2>1 DEF ValueAt
<1>8. /\ Candidate(branch, patch, document).parent = head
      /\ Candidate(branch, patch, document).document = document
      /\ Candidate(branch, patch, document).changedPaths = ChangedPaths(patch)
  BY DEF Candidate, head
<1>9. ASSUME \A r \in Intervening(head, base) : Accounted(r), Guards(patch, ItemsPath)
      PROVE  revisions[base].document.items = revisions[head].document.items
  <2>1. ValueAt(revisions[base].document, ItemsPath) = ValueAt(revisions[head].document, ItemsPath)
    BY <1>5, <1>9
  <2> QED BY <1>7, <2>1
<1> QED BY <1>3, <1>4, <1>5, <1>6, <1>8, <1>9 DEF Safe, Proper

-----------------------------------------------------------------------------
(* The invariant: documents are documents, what was recorded of a proposal *)
(* stays, and was safe.                                                    *)

Placed ==
  /\ \A id \in DOMAIN candidates :
       candidates[id].parent < candidates[id].revision /\ Proper(candidates[id].document)
  /\ \A id \in DOMAIN proposals \ DOMAIN candidates :
       proposals[id].candidate \in DOMAIN revisions /\ revisions[proposals[id].candidate].parent # None

AllSafe == \A id \in DOMAIN proposals : Safe(proposals[id].base, Applied(id))

RebaseInv == Tree /\ Placed /\ AllSafe

\* RebaseSafe, proposal by proposal.
LEMMA AllSafeIsRebaseSafe == AllSafe => RebaseSafe
BY DEF AllSafe, Safe, RebaseSafe, SawWhatItWrites, Restructures, SawTheArray

\* What a proposal has recorded names revisions that exist.
LEMMA AppliedPlace ==
  ASSUME Known, Pending, Placed, NEW id \in DOMAIN proposals
  PROVE  proposals[id].base \in DOMAIN revisions /\ Applied(id).parent \in DOMAIN revisions
<1>1. proposals[id].base \in DOMAIN revisions
  BY DEF Known, ProposalType
<1>2. CASE id \in DOMAIN candidates
  BY <1>1, <1>2 DEF Pending, Applied
<1>3. CASE id \notin DOMAIN candidates
  BY <1>1, <1>3 DEF Placed, Known, Applied
<1> QED BY <1>2, <1>3

\* What was safe stays so, whatever is committed.
LEMMA SafeStays ==
  ASSUME Known, Tree, Known', Tree', HistoryMoves,
         NEW base \in DOMAIN revisions, NEW applied, applied.parent \in DOMAIN revisions,
         Safe(base, applied)
  PROVE  Safe(base, applied)'
<1> DEFINE parent == applied.parent
<1>1. /\ DOMAIN revisions \subseteq DOMAIN revisions'
      /\ \A r \in DOMAIN revisions : revisions'[r] = revisions[r]
  BY MovesFacts
<1>2. \A r \in DOMAIN revisions : Ancestry(r) = Above(r)
  BY AncestryIsAbove DEF TreeAncestry
<1>3. \A r \in DOMAIN revisions' : Ancestry(r)' = Above(r)'
  BY AncestryIsAboveNext DEF TreeAncestry
<1>4. \A r \in DOMAIN revisions : Ancestry(r)' = Ancestry(r)
  BY <1>1, <1>2, <1>3, AboveStays
<1>5. Intervening(parent, base)' = Intervening(parent, base)
  BY <1>4 DEF Intervening
<1>6. ASSUME NEW r \in Intervening(parent, base)
      PROVE  Accounted(r)' <=> Accounted(r)
  <2>1. r \in DOMAIN revisions /\ r \in Above(parent) /\ r \notin Above(base)
    BY <1>2, AboveFacts DEF Intervening
  <2>2. revisions[r].parent # None /\ revisions[r].parent \in DOMAIN revisions
    BY <2>1, FirstAbove DEF Known, Tree
  <2>3. revisions'[r] = revisions[r] /\ revisions'[revisions[r].parent] = revisions[revisions[r].parent]
    BY <1>1, <2>1, <2>2
  <2>4. Changes(r)' = Changes(r)
    BY <2>3 DEF Changes, ValueAt
  <2> QED BY <2>3, <2>4 DEF Accounted
<1>7. /\ revisions'[base] = revisions[base]
      /\ revisions'[parent] = revisions[parent]
  BY <1>1
<1>8. (\A r \in Intervening(parent, base)' : Accounted(r)')
        => \A r \in Intervening(parent, base) : Accounted(r)
  BY <1>5, <1>6
<1>9. /\ \A path : ValueAt(revisions'[base].document, path) = ValueAt(revisions[base].document, path)
      /\ \A path : ValueAt(revisions'[parent].document, path) = ValueAt(revisions[parent].document, path)
  BY <1>7
<1> QED BY <1>7, <1>8, <1>9 DEF Safe, ValueAt

\* What counts of a candidate and of the revision it becomes.
Same(a, b) == a.parent = b.parent /\ a.changedPaths = b.changedPaths /\ a.document = b.document

\* A proposal that was recorded keeps its base and what it writes.
Records ==
  \A id \in DOMAIN proposals :
    /\ id \in DOMAIN proposals'
    /\ proposals'[id].base = proposals[id].base
    /\ Same(Applied(id), Applied(id)')

\* Recorded proposals stay safe, so only new ones are to be shown safe.
LEMMA AllSafeStep ==
  ASSUME IInv, RebaseInv, IInv', Tree', HistoryMoves, Records,
         \A id \in DOMAIN proposals' \ DOMAIN proposals : Safe(proposals[id].base, Applied(id))'
  PROVE  AllSafe'
<1> SUFFICES ASSUME NEW id \in DOMAIN proposals
             PROVE  Safe(proposals[id].base, Applied(id))'
  BY DEF AllSafe
<1>1. proposals[id].base \in DOMAIN revisions /\ Applied(id).parent \in DOMAIN revisions
  BY AppliedPlace DEF IInv, RebaseInv
<1>2. PICK base, a, b : base = proposals[id].base /\ a = Applied(id) /\ b = Applied(id)'
  OBVIOUS
<1>3. Safe(base, a)
  BY <1>2 DEF RebaseInv, AllSafe
<1>4. Safe(base, a)'
  BY <1>1, <1>2, <1>3, SafeStays DEF IInv, RebaseInv
<1>5. Same(a, b)
  BY <1>2 DEF Records
<1>6. Safe(base, b)'
  BY <1>4, <1>5 DEF Safe, Same
<1>7. proposals'[id].base = base
  BY <1>2 DEF Records
<1> QED BY <1>2, <1>6, <1>7 DEF Safe


-----------------------------------------------------------------------------
(* Each step.                                                              *)

\* Nothing is committed and nothing recorded of a proposal changes.
Idle ==
  /\ revisions' = revisions /\ candidates' = candidates
  /\ DOMAIN proposals' = DOMAIN proposals
  /\ \A id \in DOMAIN proposals :
       proposals'[id].base = proposals[id].base /\ proposals'[id].candidate = proposals[id].candidate

\* A step that commits nothing and submits nothing.
LEMMA IdleRebase ==
  ASSUME IInv, RebaseInv, IInv', HistoryMoves, Idle
  PROVE  RebaseInv'
<1>1. Tree'
  BY DEF RebaseInv, Idle, Tree
<1>2. Placed'
  BY DEF RebaseInv, Idle, Placed
<1>3. Records
  BY DEF Records, Idle, Same, Applied
<1>4. AllSafe'
  BY <1>1, <1>3, AllSafeStep DEF Idle
<1> QED BY <1>1, <1>2, <1>4 DEF RebaseInv

\* A commit on the head of a branch keeps the tree.
LEMMA TreeGrows ==
  ASSUME Known, Tree, NEW branch, NEW r, NEW revision, Committed(branch, r, revision),
         HeadOf(branch) < r, Proper(revision.document)
  PROVE  Tree'
<1>1. /\ DOMAIN revisions' = DOMAIN revisions \cup {r}
      /\ revisions'[r] = revision
      /\ \A s \in DOMAIN revisions : revisions'[s] = revisions[s]
      /\ DOMAIN branches' = DOMAIN branches
      /\ branches'[branch] = [head |-> r, policy |-> branches[branch].policy,
                              published |-> branches[branch].published]
      /\ \A b \in DOMAIN branches \ {branch} : branches'[b] = branches[b]
  BY CommittedFacts
<1>2. revision.parent = HeadOf(branch) /\ HeadOf(branch) \in DOMAIN revisions
  BY DEF Committed, Known, BranchType, HeadOf
<1>3. HeadOf(branch) # None
  BY <1>2 DEF Known, None
<1> QED BY <1>1, <1>2, <1>3 DEF Tree

\* A compensation restores a document of the tree.
LEMMA UndoRebase ==
  ASSUME IInv, RebaseInv, NEW actor, NEW branch, NEW target, NEW key,
         UndoRevision(actor, branch, target, key)
  PROVE  RebaseInv'
<1> DEFINE r == sequence + 1
           revision == Revision(Compensation(branch, target), {}, target)
<1>1. IInv' /\ Committed(branch, r, revision)
  BY UndoStep
<1>2. /\ UNCHANGED <<proposals, candidates>> /\ HeadOf(branch) = target
      /\ revisions[target].parent # None /\ branch \in DOMAIN branches
  BY DEF UndoRevision, reviewVars
<1>3. revision.document = revisions[revisions[target].parent].document
  BY DEF Revision, Compensation
<1> HIDE DEF revision
<1>4. target \in DOMAIN revisions /\ revisions[target].parent \in DOMAIN revisions
  BY <1>2 DEF IInv, Known, BranchType, HeadOf
<1>5. Proper(revision.document)
  BY <1>3, <1>4 DEF RebaseInv, Tree
<1>6. HeadOf(branch) < r
  BY <1>2, <1>4 DEF IInv, Known
<1>7. Tree'
  BY <1>1, <1>5, <1>6, TreeGrows DEF IInv, RebaseInv
<1>8. HistoryMoves
  BY <1>1 DEF HistoryMoves
<1>9. /\ DOMAIN revisions \subseteq DOMAIN revisions'
      /\ \A s \in DOMAIN revisions : revisions'[s] = revisions[s]
  BY <1>8, MovesFacts DEF IInv
<1>10. Placed'
  BY <1>2, <1>9 DEF RebaseInv, Placed
<1>11. Records
  BY <1>2, <1>9 DEF Records, Same, Applied, RebaseInv, Placed
<1>12. AllSafe'
  BY <1>1, <1>2, <1>7, <1>8, <1>11, AllSafeStep
<1> QED BY <1>7, <1>10, <1>12 DEF RebaseInv

\* A candidate that is committed becomes the revision it was to be.
LEMMA ApprovalRebase ==
  ASSUME IInv, RebaseInv, NEW actor, NEW id, ApprovalCommits(actor, id)
  PROVE  RebaseInv'
<1> DEFINE branch == proposals[id].branch
           r == proposals[id].candidate
           revision == Revision(candidates[id], {id}, None)
<1>1. IInv' /\ Committed(branch, r, revision)
  BY ApprovalCommitsStep
<1>2. /\ id \in DOMAIN candidates /\ id \in DOMAIN proposals
      /\ candidates[id].parent = HeadOf(branch)
      /\ proposals' = Put(proposals, id, [ApprovedBy(actor, id) EXCEPT !.status = "committed"])
      /\ candidates' = Drop(candidates, id)
  BY DEF ApprovalCommits, IInv, Known
<1>3. /\ revision.document = candidates[id].document /\ revision.parent = candidates[id].parent
      /\ revision.changedPaths = candidates[id].changedPaths
  BY DEF Revision
<1>4. candidates[id].revision = r
  BY <1>2 DEF IInv, Pending
<1>5. proposals[id] \in ProposalType
  BY <1>2 DEF IInv, Known
<1>6. [ApprovedBy(actor, id) EXCEPT !.status = "committed"].base = proposals[id].base
      /\ [ApprovedBy(actor, id) EXCEPT !.status = "committed"].candidate = proposals[id].candidate
  BY <1>5 DEF ApprovedBy, ProposalType
<1>7. /\ DOMAIN proposals' = DOMAIN proposals
      /\ \A i \in DOMAIN proposals :
           proposals'[i].base = proposals[i].base /\ proposals'[i].candidate = proposals[i].candidate
  BY <1>2, <1>6 DEF Put
<1>8. /\ DOMAIN candidates' = DOMAIN candidates \ {id}
      /\ \A i \in DOMAIN candidates' : candidates'[i] = candidates[i]
  BY <1>2 DEF Drop
<1>9. HistoryMoves
  BY <1>1 DEF HistoryMoves
<1>10. /\ DOMAIN revisions' = DOMAIN revisions \cup {r} /\ revisions'[r] = revision
       /\ \A s \in DOMAIN revisions : revisions'[s] = revisions[s]
       /\ DOMAIN branches' = DOMAIN branches
       /\ branches'[branch] = [head |-> r, policy |-> branches[branch].policy,
                               published |-> branches[branch].published]
       /\ \A b \in DOMAIN branches \ {branch} : branches'[b] = branches[b]
  BY <1>1, CommittedFacts DEF IInv
<1>11. Tree'
  <2>1. HeadOf(branch) < r /\ Proper(revision.document)
    BY <1>2, <1>3, <1>4 DEF RebaseInv, Placed
  <2> QED BY <1>1, <2>1, TreeGrows DEF IInv, RebaseInv
<1>12. candidates[id].parent # None
  BY <1>2 DEF IInv, Pending, Known, None
<1> HIDE DEF revision, r
<1>13. Placed'
  <2>1. \A i \in DOMAIN candidates' :
          candidates'[i].parent < candidates'[i].revision /\ Proper(candidates'[i].document)
    BY <1>8 DEF RebaseInv, Placed
  <2>2. ASSUME NEW i \in DOMAIN proposals' \ DOMAIN candidates'
        PROVE  proposals'[i].candidate \in DOMAIN revisions' /\ revisions'[proposals'[i].candidate].parent # None
    <3>1. CASE i = id
      BY <1>3, <1>7, <1>10, <1>12, <3>1 DEF r
    <3>2. CASE i # id
      BY <1>7, <1>8, <1>10, <2>2, <3>2 DEF RebaseInv, Placed
    <3> QED BY <3>1, <3>2
  <2> QED BY <2>1, <2>2 DEF Placed
<1>14. Records
  <2>1. ASSUME NEW i \in DOMAIN proposals PROVE Same(Applied(i), Applied(i)')
    <3>1. CASE i = id
      <4>1. Applied(i) = candidates[id] /\ Applied(i)' = revision
        BY <1>2, <1>7, <1>8, <1>10, <3>1 DEF Applied, r
      <4> QED BY <1>3, <4>1 DEF Same
    <3>2. CASE i # id /\ i \in DOMAIN candidates
      BY <1>8, <3>2 DEF Applied, Same
    <3>3. CASE i # id /\ i \notin DOMAIN candidates
      BY <1>7, <1>8, <1>10, <3>3 DEF Applied, Same, RebaseInv, Placed
    <3> QED BY <3>1, <3>2, <3>3
  <2> QED BY <1>7, <2>1 DEF Records
<1>15. AllSafe'
  BY <1>1, <1>7, <1>9, <1>11, <1>14, AllSafeStep
<1> QED BY <1>11, <1>13, <1>15 DEF RebaseInv

\* A proposal and its candidate begin to wait.
LEMMA WaitingRebase ==
  ASSUME IInv, RebaseInv, IInv', HistoryMoves,
         NEW id, id \notin DOMAIN proposals, NEW proposal, NEW candidate,
         proposals' = Put(proposals, id, proposal), candidates' = Put(candidates, id, candidate),
         revisions' = revisions, candidate.parent < candidate.revision, Proper(candidate.document),
         candidate.parent \in DOMAIN revisions, proposal.base \in DOMAIN revisions,
         Safe(proposal.base, candidate)
  PROVE  RebaseInv'
<1>1. /\ DOMAIN proposals' = DOMAIN proposals \cup {id} /\ proposals'[id] = proposal
      /\ \A i \in DOMAIN proposals : proposals'[i] = proposals[i]
      /\ DOMAIN candidates' = DOMAIN candidates \cup {id} /\ candidates'[id] = candidate
      /\ id \notin DOMAIN candidates
      /\ \A i \in DOMAIN candidates : candidates'[i] = candidates[i]
  BY DEF Put, IInv, Known
<1>2. Tree'
  BY DEF RebaseInv, Tree
<1>3. Placed'
  BY <1>1 DEF RebaseInv, Placed
<1>4. Records
  BY <1>1 DEF Records, Same, Applied
<1>5. Safe(proposal.base, candidate)'
  <2>1. PICK base : base = proposal.base
    OBVIOUS
  <2>2. Safe(base, candidate)'
    BY <1>2, <2>1, SafeStays DEF IInv, RebaseInv
  <2> QED BY <2>1, <2>2
<1>6. Safe(proposals[id].base, Applied(id))'
  BY <1>1, <1>5 DEF Safe, Applied
<1>7. AllSafe'
  BY <1>1, <1>2, <1>4, <1>6, AllSafeStep
<1> QED BY <1>2, <1>3, <1>7 DEF RebaseInv

\* A proposal is committed as it is recorded.
LEMMA CommittingRebase ==
  ASSUME IInv, RebaseInv, IInv', HistoryMoves,
         NEW id, id \notin DOMAIN proposals, NEW proposal, NEW candidate,
         proposals' = Put(proposals, id, proposal), candidates' = candidates,
         NEW branch, Committed(branch, candidate.revision, Revision(candidate, {id}, None)),
         HeadOf(branch) < candidate.revision, Proper(candidate.document),
         candidate.parent \in DOMAIN revisions, proposal.base \in DOMAIN revisions,
         proposal.candidate = candidate.revision, Safe(proposal.base, candidate)
  PROVE  RebaseInv'
<1> DEFINE r == candidate.revision
           revision == Revision(candidate, {id}, None)
<1>1. /\ DOMAIN proposals' = DOMAIN proposals \cup {id} /\ proposals'[id] = proposal
      /\ \A i \in DOMAIN proposals : proposals'[i] = proposals[i]
      /\ id \notin DOMAIN candidates
  BY DEF Put, IInv, Known
<1>2. /\ revision.parent = candidate.parent /\ revision.document = candidate.document
      /\ revision.changedPaths = candidate.changedPaths
  BY DEF Revision
<1> HIDE DEF revision, r
<1>3. Committed(branch, r, revision)
  BY DEF r, revision
<1>4. /\ DOMAIN revisions' = DOMAIN revisions \cup {r}
      /\ revisions'[r] = revision
      /\ \A s \in DOMAIN revisions : revisions'[s] = revisions[s]
      /\ DOMAIN branches' = DOMAIN branches
      /\ branches'[branch] = [head |-> r, policy |-> branches[branch].policy,
                              published |-> branches[branch].published]
      /\ \A b \in DOMAIN branches \ {branch} : branches'[b] = branches[b]
  BY <1>3, CommittedFacts DEF IInv
<1>5. Tree'
  BY <1>2, <1>3, TreeGrows DEF IInv, RebaseInv, r
<1>6. candidate.parent # None
  BY DEF IInv, Known, None
<1>7. Placed'
  BY <1>1, <1>2, <1>4, <1>6 DEF RebaseInv, Placed, r
<1>8. Applied(id)' = revision
  BY <1>1, <1>4 DEF Applied, r
<1>9. Records
  BY <1>1, <1>4 DEF Records, Same, Applied, RebaseInv, Placed
<1>10. Safe(proposal.base, candidate)'
  <2>1. PICK base : base = proposal.base
    OBVIOUS
  <2>2. Safe(base, candidate)'
    BY <1>5, <2>1, SafeStays DEF IInv, RebaseInv
  <2> QED BY <2>1, <2>2
<1>11. Safe(proposals[id].base, Applied(id))'
  BY <1>1, <1>2, <1>8, <1>10 DEF Safe
<1>12. AllSafe'
  BY <1>1, <1>5, <1>9, <1>11, AllSafeStep
<1> QED BY <1>5, <1>7, <1>12 DEF RebaseInv

\* A submission: refused, waiting or committed.
LEMMA SubmitRebase ==
  ASSUME IInv, RebaseInv, IInv', HistoryMoves,
         NEW actor \in Actors, NEW id \in Proposals, NEW branch, NEW base \in DOMAIN revisions,
         NEW patch \in Patches, NEW key, SubmitProposal(actor, id, branch, base, patch, key)
  PROVE  RebaseInv'
<1> DEFINE head == HeadOf(branch)
           results == ApplyCollaborationPatch(revisions[head].document, patch)
<1>1. /\ branch \in DOMAIN branches /\ id \notin DOMAIN proposals
      /\ IsAncestor(base, head) /\ SubmitConflicts(branch, base, patch) = {}
  BY DEF SubmitProposal
<1>2. head \in DOMAIN revisions /\ sequence \in Nat /\ DOMAIN revisions \subseteq 1..sequence
  BY <1>1 DEF IInv, Known, BranchType, HeadOf
<1>3. CASE UNCHANGED <<revisions, branches, proposals, candidates>>
  BY <1>3, IdleRebase DEF Idle
<1>4. ASSUME NEW document \in results,
             RecordProposal(actor, id, key, base, Candidate(branch, patch, document))
      PROVE  RebaseInv'
  <2> DEFINE candidate == Candidate(branch, patch, document)
             waiting == NewProposal(actor, branch, base, candidate)
             committed == [waiting EXCEPT !.status = "committed"]
  <2>1. Proper(document) /\ Safe(base, candidate)
    BY <1>1, <1>4, SubmissionSafe DEF IInv, RebaseInv
  <2>2. /\ candidate.branch = branch /\ candidate.parent = head
        /\ candidate.revision = sequence + 1 /\ candidate.document = document
    BY DEF Candidate
  <2>3. waiting.base = base
    BY DEF NewProposal
  <2>4. committed.base = base /\ committed.candidate = candidate.revision
    BY DEF NewProposal
  <2>5. RecordProposal(actor, id, key, base, candidate)
    BY <1>4
  <2> HIDE DEF candidate, results
  <2>6. CASE branches[branch].policy.protected
    <3>1. /\ proposals' = Put(proposals, id, waiting)
          /\ candidates' = Put(candidates, id, candidate)
          /\ revisions' = revisions
      BY <2>2, <2>5, <2>6 DEF RecordProposal
    <3> HIDE DEF waiting, committed, head
    <3>2. candidate.parent < candidate.revision
      BY <1>2, <2>2
    <3> QED BY <1>1, <1>2, <2>1, <2>2, <2>3, <3>1, <3>2, WaitingRebase
  <2>7. CASE ~branches[branch].policy.protected
    <3>1. /\ proposals' = Put(proposals, id, committed)
          /\ candidates' = candidates
          /\ CommitHistory(candidate, id)
      BY <2>2, <2>5, <2>7 DEF RecordProposal
    <3>2. Committed(branch, candidate.revision, Revision(candidate, {id}, None))
      BY <1>1, <1>2, <2>2, <3>1 DEF Committed, CommitHistory, Revision, None
    <3>3. HeadOf(branch) < candidate.revision
      BY <1>2, <2>2
    <3> HIDE DEF waiting, committed, head
    <3> QED BY <1>1, <1>2, <2>1, <2>2, <2>4, <3>1, <3>2, <3>3, CommittingRebase
  <2> QED BY <2>6, <2>7
<1> QED BY <1>3, <1>4 DEF SubmitProposal

\* The first revision.
LEMMA InitRebase ==
  ASSUME Init
  PROVE  RebaseInv
<1>1. PICK g \in Genesis :
        revisions = [r \in {1} |->
          [branch |-> "main", parent |-> None, document |-> g.document,
           changedPaths |-> {RootPath}, proposal |-> {}, compensates |-> None]]
  BY DEF Init
<1>2. DOMAIN proposals = {} /\ DOMAIN candidates = {}
  BY DEF Init
<1>3. DOMAIN revisions = {1} /\ revisions[1].parent = None /\ revisions[1].document = g.document
  BY <1>1
<1>4. Proper(g.document)
  <2>1. g.document \in Documents
    BY CollaborationAssumption
  <2>2. PICK n \in 0..MaxItems : g.document.items \in [1..n -> Values]
    BY <2>1 DEF Documents
  <2>3. g.document.items \in Seq(Values) /\ Len(g.document.items) = n
    BY <2>2, DocumentsAssumption
  <2>4. g.document = [title |-> g.document.title, items |-> g.document.items]
    BY <2>1 DEF Documents
  <2> QED BY <2>3, <2>4, DocumentsAssumption DEF Proper, Shaped
<1>5. Tree
  BY <1>3, <1>4 DEF Tree, None
<1> QED BY <1>2, <1>5 DEF RebaseInv, Placed, AllSafe

\* Every step keeps the invariant.
LEMMA NextRebase ==
  ASSUME IInv, RebaseInv, [Next]_vars
  PROVE  RebaseInv'
<1>1. IInv' /\ HistoryMoves
  BY NextIInv DEF HistoryStep, HistoryMoves
<1>2. ASSUME NEW actor \in Actors, NEW id \in Proposals, NEW branch \in Branches,
             NEW base \in DOMAIN revisions, NEW patch \in Patches, NEW key \in Keys,
             SubmitProposal(actor, id, branch, base, patch, key)
      PROVE  RebaseInv'
  BY <1>1, <1>2, SubmitRebase
<1>3. ASSUME NEW actor \in Actors, NEW id \in Proposals, NEW r \in 1..MaxRevision,
             ApproveProposal(actor, id, r)
      PROVE  RebaseInv'
  <2>1. CASE ApprovalWaits(actor, id)
    <3>1. proposals[id] \in ProposalType /\ id \in DOMAIN proposals
      BY <2>1 DEF ApprovalWaits, Approves, IInv, Known
    <3>2. /\ ApprovedBy(actor, id).base = proposals[id].base
          /\ ApprovedBy(actor, id).candidate = proposals[id].candidate
          /\ [ApprovedBy(actor, id) EXCEPT !.status = "stale"].base = proposals[id].base
          /\ [ApprovedBy(actor, id) EXCEPT !.status = "stale"].candidate = proposals[id].candidate
      BY <3>1 DEF ApprovedBy, ProposalType
    <3>3. PICK new : /\ proposals' = Put(proposals, id, new)
                     /\ new.base = proposals[id].base /\ new.candidate = proposals[id].candidate
      BY <2>1, <3>2 DEF ApprovalWaits
    <3>4. /\ DOMAIN proposals' = DOMAIN proposals
          /\ \A i \in DOMAIN proposals : proposals'[i].base = proposals[i].base
                                         /\ proposals'[i].candidate = proposals[i].candidate
      BY <3>1, <3>3 DEF Put
    <3>5. revisions' = revisions /\ candidates' = candidates
      BY <2>1 DEF ApprovalWaits
    <3> QED BY <1>1, <3>4, <3>5, IdleRebase DEF Idle
  <2>2. CASE ApprovalCommits(actor, id)
    BY <2>2, ApprovalRebase
  <2> QED BY <1>3, <2>1, <2>2, ApprovalCases DEF IInv
<1>4. ASSUME NEW actor \in Actors, NEW id \in Proposals, CommentOnProposal(actor, id)
      PROVE  RebaseInv'
  <2>1. /\ proposals' = [proposals EXCEPT ![id].comments = @ + 1] /\ id \in DOMAIN proposals
        /\ revisions' = revisions /\ candidates' = candidates
    BY <1>4 DEF CommentOnProposal, historyVars
  <2>2. /\ DOMAIN proposals' = DOMAIN proposals
        /\ \A i \in DOMAIN proposals \ {id} : proposals'[i] = proposals[i]
        /\ proposals'[id] = [proposals[id] EXCEPT !.comments = @ + 1]
    BY <2>1
  <2>3. proposals[id] \in ProposalType
    BY <2>1 DEF IInv, Known
  <2>4. proposals'[id].base = proposals[id].base /\ proposals'[id].candidate = proposals[id].candidate
    BY <2>2, <2>3 DEF ProposalType
  <2> QED BY <1>1, <2>1, <2>2, <2>4, IdleRebase DEF Idle
<1>5. ASSUME NEW actor \in Actors, NEW branch \in Branches, NEW r \in DOMAIN revisions,
             NEW key \in Keys, UndoRevision(actor, branch, r, key)
      PROVE  RebaseInv'
  BY <1>5, UndoRebase
<1>6. ASSUME UNCHANGED <<revisions, proposals, candidates>>
      PROVE  RebaseInv'
  BY <1>1, <1>6, IdleRebase DEF Idle
<1>7. ASSUME \/ \E actor \in Actors, branch \in Branches, key \in Keys :
                  RefuseProposal(actor, branch, key) \/ RefuseUndo(actor, branch, key)
             \/ \E actor \in Actors, branch \in Branches : UpdatePresence(actor, branch)
             \/ \E actor \in Actors, branch \in Branches, r \in DOMAIN revisions :
                  PublishRevision(actor, branch, r)
             \/ \E branch \in Branches, r \in DOMAIN revisions, policy \in BranchPolicies :
                  CreateBranch(branch, r, policy)
             \/ Tick \/ ResumeEvents \/ ReadBranches \/ UNCHANGED vars
      PROVE  UNCHANGED <<revisions, proposals, candidates>>
  BY <1>7 DEF RefuseProposal, RefuseUndo, UpdatePresence, PublishRevision, CreateBranch, Tick,
              ResumeEvents, ReadBranches, vars, historyVars, reviewVars
<1> QED BY <1>2, <1>3, <1>4, <1>5, <1>6, <1>7 DEF Next

(* A proposal that is moved over revisions which account for their changes *)
(* writes no value its author did not see, and neither lengthens nor       *)
(* shortens an array its author did not see as it is, for any patches: an  *)
(* operation that does has the array as a footprint, whatever the          *)
(* operations before it made of the document (conflict.ts,                 *)
(* collaborationConflicts).                                                *)
THEOREM RebasesSafe == Spec => []RebaseSafe
<1>1. IInv /\ RebaseInv /\ [Next]_vars => RebaseInv'
  BY NextRebase
<1>2. RebaseInv => RebaseSafe
  BY AllSafeIsRebaseSafe DEF RebaseInv
<1> QED BY InitRebase, <1>1, <1>2, Invariance, PTL DEF Spec

-----------------------------------------------------------------------------
(* The types of the records.                                               *)

\* The paths a record declares are pointers.
Points(carrier) == \A path \in carrier.changedPaths : IsPointer(path)

RecordTypes ==
  /\ DOMAIN proposals \subseteq Proposals
  /\ \A r \in DOMAIN revisions : revisions[r] \in RevisionType(revisions[r]) /\ Points(revisions[r])
  /\ \A id \in DOMAIN candidates :
       candidates[id] \in CandidateType(candidates[id]) /\ Points(candidates[id])

LEMMA ChangedPathsTyped ==
  ASSUME NEW patch \in Patches
  PROVE  \A path \in ChangedPaths(patch) : IsPointer(path)
<1>1. ASSUME NEW o \in Range(patch), NEW path \in OperationPaths(o)
      PROVE  IsPointer(path)
  BY <1>1, CollaborationAssumption DEF OperationPaths
<1> QED BY <1>1 DEF ChangedPaths

LEMMA RootIsPointer == IsPointer(RootPath)
<1>1. ASSUME NEW token PROVE IsPointer(<<token>>)
  <2>1. token \in Range(<<token>>)
    BY DEF Range
  <2> QED BY <2>1 DEF IsPointer
<1> QED BY <1>1 DEF RootPath

\* Records keep their types while the things they name stay; new records have
\* theirs.
LEMMA RecordTypesStep ==
  ASSUME Known, RecordTypes,
         DOMAIN branches \subseteq DOMAIN branches', DOMAIN revisions \subseteq DOMAIN revisions',
         DOMAIN proposals \subseteq DOMAIN proposals', DOMAIN proposals' \subseteq Proposals,
         sequence' \in {sequence, sequence + 1},
         \A r \in DOMAIN revisions : revisions'[r] = revisions[r],
         \A r \in DOMAIN revisions' \ DOMAIN revisions :
           (revisions[r] \in RevisionType(revisions[r]) /\ Points(revisions[r]))',
         \A id \in DOMAIN candidates' :
           \/ id \in DOMAIN candidates /\ candidates'[id] = candidates[id]
           \/ (candidates[id] \in CandidateType(candidates[id]) /\ Points(candidates[id]))'
  PROVE  RecordTypes'
<1>1. 1..sequence \subseteq 1..sequence'
  BY DEF Known
<1>2. ASSUME NEW r \in DOMAIN revisions
      PROVE  (revisions[r] \in RevisionType(revisions[r]) /\ Points(revisions[r]))'
  <2>1. revisions[r] \in RevisionType(revisions[r]) /\ Points(revisions[r])
    BY DEF RecordTypes
  <2> QED BY <2>1 DEF RevisionType, Points
<1>3. ASSUME NEW id \in DOMAIN candidates, candidates'[id] = candidates[id]
      PROVE  (candidates[id] \in CandidateType(candidates[id]) /\ Points(candidates[id]))'
  <2>1. candidates[id] \in CandidateType(candidates[id]) /\ Points(candidates[id])
    BY DEF RecordTypes
  <2> QED BY <1>1, <1>3, <2>1 DEF CandidateType, Points
<1> QED BY <1>2, <1>3 DEF RecordTypes

\* A commit on the head of a branch.
LEMMA CommitTypes ==
  ASSUME Known, RecordTypes, NEW branch, NEW r, NEW revision, Committed(branch, r, revision),
         DOMAIN proposals \subseteq DOMAIN proposals', DOMAIN proposals' \subseteq Proposals,
         sequence' \in {sequence, sequence + 1},
         \A id \in DOMAIN candidates' : id \in DOMAIN candidates /\ candidates'[id] = candidates[id],
         revision = [branch |-> branch, parent |-> HeadOf(branch), document |-> revision.document,
                     changedPaths |-> revision.changedPaths, proposal |-> revision.proposal,
                     compensates |-> revision.compensates],
         Points(revision),
         revision.proposal = {} \/ \E id \in DOMAIN proposals' : revision.proposal = {id},
         revision.compensates \in {None} \cup DOMAIN revisions
  PROVE  RecordTypes'
<1>1. /\ DOMAIN revisions' = DOMAIN revisions \cup {r}
      /\ revisions'[r] = revision
      /\ \A s \in DOMAIN revisions : revisions'[s] = revisions[s]
      /\ DOMAIN branches' = DOMAIN branches
      /\ branches'[branch] = [head |-> r, policy |-> branches[branch].policy,
                              published |-> branches[branch].published]
      /\ \A b \in DOMAIN branches \ {branch} : branches'[b] = branches[b]
  BY Zenon, CommittedFacts
<1>2. HeadOf(branch) \in DOMAIN revisions /\ branch \in DOMAIN branches
  BY DEF Committed, Known, BranchType, HeadOf
<1>3. revision.proposal \in {{}} \cup {{id} : id \in DOMAIN proposals'}
  OBVIOUS
<1>4. (revisions[r] \in RevisionType(revisions[r]) /\ Points(revisions[r]))'
  BY <1>1, <1>2, <1>3 DEF RevisionType, Points
<1> QED BY <1>1, <1>4, RecordTypesStep

LEMMA UndoTypes ==
  ASSUME IInv, RecordTypes, NEW actor, NEW branch, NEW target, NEW key,
         UndoRevision(actor, branch, target, key)
  PROVE  RecordTypes'
<1> DEFINE revision == Revision(Compensation(branch, target), {}, target)
<1>1. Committed(branch, sequence + 1, revision)
  BY UndoStep
<1>2. /\ UNCHANGED <<proposals, candidates>> /\ sequence' = sequence + 1
      /\ branch \in DOMAIN branches /\ HeadOf(branch) = target
  BY DEF UndoRevision, reviewVars
<1>3. target \in DOMAIN revisions
  BY <1>2 DEF IInv, Known, BranchType, HeadOf
<1>4. /\ revision = [branch |-> branch, parent |-> HeadOf(branch), document |-> revision.document,
                     changedPaths |-> revision.changedPaths, proposal |-> revision.proposal,
                     compensates |-> revision.compensates]
      /\ revision.changedPaths = {RootPath} /\ revision.proposal = {}
      /\ revision.compensates = target
  BY <1>2 DEF Revision, Compensation
<1> HIDE DEF revision
<1> QED BY <1>1, <1>2, <1>3, <1>4, RootIsPointer, CommitTypes DEF IInv, RecordTypes, Points

LEMMA ApprovalTypes ==
  ASSUME IInv, RecordTypes, NEW actor, NEW id, ApprovalCommits(actor, id)
  PROVE  RecordTypes'
<1> DEFINE revision == Revision(candidates[id], {id}, None)
           branch == proposals[id].branch
<1>1. Committed(branch, proposals[id].candidate, revision)
  BY ApprovalCommitsStep
<1>2. /\ id \in DOMAIN candidates /\ id \in DOMAIN proposals
      /\ DOMAIN proposals' = DOMAIN proposals
      /\ candidates' = Drop(candidates, id) /\ sequence' = sequence
      /\ candidates[id].parent = HeadOf(branch) /\ candidates[id].branch = branch
  BY DEF ApprovalCommits, Put, IInv, Known, Pending
<1>3. candidates[id] \in CandidateType(candidates[id]) /\ Points(candidates[id])
  BY <1>2 DEF RecordTypes
<1>4. Points(candidates[id])
  BY <1>3
<1>5. /\ revision = [branch |-> branch, parent |-> HeadOf(branch), document |-> revision.document,
                     changedPaths |-> revision.changedPaths, proposal |-> revision.proposal,
                     compensates |-> revision.compensates]
      /\ revision.changedPaths = candidates[id].changedPaths /\ revision.proposal = {id}
      /\ revision.compensates = None
  BY <1>2 DEF Revision
<1>6. \A i \in DOMAIN candidates' : i \in DOMAIN candidates /\ candidates'[i] = candidates[i]
  BY <1>2 DEF Drop
<1> HIDE DEF revision, branch
<1> QED BY <1>1, <1>2, <1>4, <1>5, <1>6, CommitTypes DEF IInv, RecordTypes, Points

LEMMA SubmitTypes ==
  ASSUME IInv, RecordTypes,
         NEW actor \in Actors, NEW id \in Proposals, NEW branch, NEW base \in DOMAIN revisions,
         NEW patch \in Patches, NEW key, SubmitProposal(actor, id, branch, base, patch, key)
  PROVE  RecordTypes'
<1>1. branch \in DOMAIN branches /\ id \notin DOMAIN proposals /\ sequence' = sequence + 1
  BY DEF SubmitProposal
<1>2. HeadOf(branch) \in DOMAIN revisions /\ sequence \in Nat /\ DOMAIN revisions \subseteq 1..sequence
  BY <1>1 DEF IInv, Known, BranchType, HeadOf
<1>3. CASE UNCHANGED <<revisions, branches, proposals, candidates>>
  BY <1>1, <1>3, RecordTypesStep DEF IInv, RecordTypes
<1>4. ASSUME NEW document, RecordProposal(actor, id, key, base, Candidate(branch, patch, document))
      PROVE  RecordTypes'
  <2> DEFINE candidate == Candidate(branch, patch, document)
             new == NewProposal(actor, branch, base, candidate)
  <2>1. /\ candidate = [branch |-> branch, parent |-> HeadOf(branch), revision |-> sequence + 1,
                        document |-> document, changedPaths |-> ChangedPaths(patch)]
        /\ \A path \in ChangedPaths(patch) : IsPointer(path)
    BY ChangedPathsTyped DEF Candidate
  <2>2. RecordProposal(actor, id, key, base, candidate)
    BY <1>4
  <2> HIDE DEF candidate
  <2>3. PICK proposal : proposals' = Put(proposals, id, proposal)
    BY <2>2 DEF RecordProposal
  <2>4. DOMAIN proposals' = DOMAIN proposals \cup {id} /\ DOMAIN proposals' \subseteq Proposals
    BY <2>3 DEF Put, RecordTypes
  <2>5. CASE branches[branch].policy.protected
    <3>1. candidates' = Put(candidates, id, candidate) /\ UNCHANGED <<revisions, branches>>
      BY <2>1, <2>2, <2>5 DEF RecordProposal
    <3>2. /\ DOMAIN candidates' = DOMAIN candidates \cup {id} /\ candidates'[id] = candidate
          /\ \A i \in DOMAIN candidates \ {id} : candidates'[i] = candidates[i]
      BY <3>1 DEF Put
    <3>3. sequence + 1 \in 1..sequence'
      BY <1>1, <1>2
    <3>4. (candidates[id] \in CandidateType(candidates[id]) /\ Points(candidates[id]))'
      BY <1>1, <1>2, <2>1, <3>1, <3>2, <3>3 DEF CandidateType, Points
    <3> QED BY <1>1, <2>4, <3>1, <3>2, <3>4, RecordTypesStep DEF IInv
  <2>6. CASE ~branches[branch].policy.protected
    <3> DEFINE revision == Revision(candidate, {id}, None)
    <3>1. candidates' = candidates /\ CommitHistory(candidate, id)
      BY <2>1, <2>2, <2>6 DEF RecordProposal
    <3>2. /\ revision = [branch |-> branch, parent |-> HeadOf(branch), document |-> revision.document,
                         changedPaths |-> revision.changedPaths, proposal |-> revision.proposal,
                         compensates |-> revision.compensates]
          /\ revision.changedPaths = ChangedPaths(patch) /\ revision.proposal = {id}
          /\ revision.compensates = None
      BY <2>1 DEF Revision
    <3>3. Committed(branch, sequence + 1, revision)
      BY <1>1, <1>2, <2>1, <3>1 DEF Committed, CommitHistory, Revision, None
    <3> HIDE DEF revision
    <3> QED BY <1>1, <2>1, <2>4, <3>1, <3>2, <3>3, CommitTypes DEF IInv, Points
  <2> QED BY <2>5, <2>6
<1> QED BY <1>3, <1>4 DEF SubmitProposal

LEMMA NextTypes ==
  ASSUME IInv, RecordTypes, [Next]_vars
  PROVE  RecordTypes'
<1>1. ASSUME NEW actor \in Actors, NEW id \in Proposals, NEW branch \in Branches,
             NEW base \in DOMAIN revisions, NEW patch \in Patches, NEW key \in Keys,
             SubmitProposal(actor, id, branch, base, patch, key)
      PROVE  RecordTypes'
  BY <1>1, SubmitTypes
<1>2. ASSUME NEW actor \in Actors, NEW id \in Proposals, NEW r \in 1..MaxRevision,
             ApproveProposal(actor, id, r)
      PROVE  RecordTypes'
  <2>1. CASE ApprovalWaits(actor, id)
    <3>1. DOMAIN proposals' = DOMAIN proposals /\ UNCHANGED <<sequence, revisions, branches, candidates>>
      BY <2>1 DEF ApprovalWaits, Approves, Put
    <3> QED BY <3>1, RecordTypesStep DEF IInv, RecordTypes
  <2>2. CASE ApprovalCommits(actor, id)
    BY <2>2, ApprovalTypes
  <2> QED BY <1>2, <2>1, <2>2, ApprovalCases DEF IInv
<1>3. ASSUME NEW actor \in Actors, NEW branch \in Branches, NEW r \in DOMAIN revisions,
             NEW key \in Keys, UndoRevision(actor, branch, r, key)
      PROVE  RecordTypes'
  BY <1>3, UndoTypes
<1>4. ASSUME UNCHANGED <<sequence, revisions, candidates>>, DOMAIN proposals' = DOMAIN proposals,
             DOMAIN branches \subseteq DOMAIN branches'
      PROVE  RecordTypes'
  BY <1>4, RecordTypesStep DEF IInv, RecordTypes
<1>5. ASSUME \/ \E actor \in Actors, branch \in Branches, key \in Keys :
                  RefuseProposal(actor, branch, key) \/ RefuseUndo(actor, branch, key)
             \/ \E actor \in Actors, branch \in Branches : UpdatePresence(actor, branch)
             \/ \E actor \in Actors, id \in Proposals : CommentOnProposal(actor, id)
             \/ Tick \/ ResumeEvents \/ ReadBranches \/ UNCHANGED vars
      PROVE  UNCHANGED <<sequence, revisions, branches, candidates>> /\ DOMAIN proposals' = DOMAIN proposals
  BY <1>5 DEF RefuseProposal, RefuseUndo, UpdatePresence, CommentOnProposal, Tick,
              ResumeEvents, ReadBranches, vars, historyVars, reviewVars
<1>6. ASSUME \/ \E actor \in Actors, branch \in Branches, r \in DOMAIN revisions :
                  PublishRevision(actor, branch, r)
             \/ \E branch \in Branches, r \in DOMAIN revisions, policy \in BranchPolicies :
                  CreateBranch(branch, r, policy)
      PROVE  /\ UNCHANGED <<sequence, revisions, proposals, candidates>>
             /\ DOMAIN branches \subseteq DOMAIN branches'
  BY <1>6 DEF PublishRevision, CreateBranch, Put, reviewVars
<1> QED BY <1>1, <1>2, <1>3, <1>4, <1>5, <1>6 DEF Next

LEMMA InitTypes ==
  ASSUME Init
  PROVE  RecordTypes
<1>1. PICK g \in Genesis :
        /\ revisions = [r \in {1} |->
             [branch |-> "main", parent |-> None, document |-> g.document,
              changedPaths |-> {RootPath}, proposal |-> {}, compensates |-> None]]
        /\ branches = [b \in {"main"} |-> [head |-> 1, policy |-> g.policy, published |-> None]]
  BY DEF Init
<1>2. DOMAIN proposals = {} /\ DOMAIN candidates = {} /\ DOMAIN branches = {"main"}
  BY <1>1 DEF Init
<1>3. /\ DOMAIN revisions = {1}
      /\ revisions[1] = [branch |-> "main", parent |-> None, document |-> g.document,
                         changedPaths |-> {RootPath}, proposal |-> {}, compensates |-> None]
  BY <1>1
<1>4. revisions[1] \in RevisionType(revisions[1]) /\ Points(revisions[1])
  BY <1>2, <1>3, RootIsPointer DEF RevisionType, Points
<1> QED BY <1>2, <1>3, <1>4 DEF RecordTypes

\* A sequence over any set is one over its range.
LEMMA ProperIsWellFormed ==
  ASSUME NEW carrier, Proper(carrier.document), Points(carrier)
  PROVE  WellFormed(carrier)
<1> DEFINE d == carrier.document
<1>1. PICK T : d.items \in Seq(T)
  BY DEF Proper, Shaped
<1>2. DOMAIN d.items = 1..Len(d.items) /\ Len(d.items) \in Nat
  BY <1>1
<1>3. d.items \in [1..Len(d.items) -> Range(d.items)]
  <2>1. d.items = [i \in 1..Len(d.items) |-> d.items[i]]
    BY <1>1
  <2>2. \A i \in 1..Len(d.items) : d.items[i] \in Range(d.items)
    BY <1>2 DEF Range
  <2> QED BY <2>1, <2>2
<1>4. d.items \in Seq(Range(d.items))
  BY <1>2, <1>3
<1> QED BY <1>4 DEF Proper, Shaped, WellFormed, Points, IsDocument, IsValid

(* The records keep their types and name what exists, and every document   *)
(* the repository holds is one the host's validation admits, whatever the  *)
(* patches do to documents (applyCollaborationPatch).                      *)
THEOREM TypeCorrect == Spec => []TypeOK
<1>1. IInv /\ RecordTypes /\ [Next]_vars => RecordTypes'
  BY NextTypes
<1>2. IInv /\ LogInv /\ RebaseInv /\ RecordTypes => TypeOK
  <2> SUFFICES ASSUME IInv, LogInv, RebaseInv, RecordTypes PROVE TypeOK
    OBVIOUS
  <2>1. \A r \in DOMAIN revisions : WellFormed(revisions[r])
    BY ProperIsWellFormed DEF RebaseInv, Tree, RecordTypes
  <2>2. \A id \in DOMAIN candidates : WellFormed(candidates[id])
    BY ProperIsWellFormed DEF RebaseInv, Placed, RecordTypes
  <2> QED BY <2>1, <2>2 DEF TypeOK, IInv, Known, LogInv, LogTyped, RecordTypes
<1>3. IInv /\ LogInv /\ [Next]_vars => LogInv'
  BY LogStep
<1>4. IInv /\ RebaseInv /\ [Next]_vars => RebaseInv'
  BY NextRebase
<1>5. Init => LogInv /\ RebaseInv /\ RecordTypes
  BY LogInit, InitRebase, InitTypes
<1> QED BY <1>1, <1>2, <1>3, <1>4, <1>5, Invariance, PTL DEF Spec
=============================================================================
