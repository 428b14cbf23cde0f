--------------------------- MODULE MCCollaboration ---------------------------
(* Collaboration for TLC: three starting points in one instance, each with  *)
(* the operations that matter to it.  Reviews: a protected branch, where    *)
(* approvals, undos, publications and the clock interleave.  Rebases: an    *)
(* open branch over an array, where proposals are moved over each other.    *)
(* Log: an open branch whose events of every kind a host follows.           *)
EXTENDS Collaboration

CONSTANTS u, v, w, alice, bob, carol, p1, p2, k1

MCActors == {alice, bob, carol}
MCCapabilities ==
  [a \in MCActors |->
     CASE a = alice -> {"propose", "approve"}
       [] a = bob   -> {"propose", "approve", "comment", "presence"}
       [] a = carol -> {"approve", "publish", "undo"}]

Guarded == [protected |-> TRUE, requiredApprovals |-> 2, reviewerIds |-> {},
            separateAuthorAndReviewer |-> TRUE]
Open == [protected |-> FALSE, requiredApprovals |-> 0, reviewerIds |-> {},
         separateAuthorAndReviewer |-> TRUE]

Start(policy, items) == [policy |-> policy, document |-> [title |-> u, items |-> items]]
MCGenesis == {Start(Guarded, <<>>), Start(Open, <<u, v>>), Start(Open, <<>>)}
MCRebaseGenesis == {Start(Open, <<u, v>>)}
MCBranchPolicies == {Open}

MCPatches ==
  {<<Operation("replace", TitlePath, <<>>, w)>>,
   <<Operation("replace", ItemPath("1"), <<>>, w)>>,
   <<Operation("remove", ItemPath("0"), <<>>, w)>>,
   <<Operation("add", ItemPath("-"), <<>>, w)>>,
   <<Operation("move", ItemPath("0"), ItemPath("1"), w)>>}

Reviews == branches["main"].policy = Guarded
Rebases == revisions[1].document.items # <<>>
Log == ~Reviews /\ ~Rebases

Answered == \A entry \in DOMAIN idempotency' : idempotency'[entry].revision # None

\* Reviews do not depend on what a proposal changes: the array stays empty there.
Lengthened == \/ \E r \in DOMAIN revisions' : revisions'[r].document.items # <<>>
              \/ \E id \in DOMAIN candidates' : candidates'[id].document.items # <<>>

MCNext ==
  /\ Next
  /\ Reviews => UNCHANGED <<follower, presence>> /\ Answered /\ ~Lengthened
  /\ Rebases => UNCHANGED <<follower, presence, now>> /\ branches'["main"].published = None
  /\ Log => Answered /\ sequence' < MaxRevision /\ latest' < 5 /\ DOMAIN proposals' # Proposals
  /\ \A k \in DOMAIN presence' : k[1] = "main"
  /\ \A id \in DOMAIN proposals' :
       /\ ~Log => proposals'[id].comments = 0
       /\ ~Reviews => proposals'[id].approvals = {}

MCSpec == Init /\ [][MCNext]_vars
=============================================================================
