---------------------------- MODULE BranchHistory ----------------------------
(* What a collaboration repository promises about its history: branches    *)
(* over one growing tree of revisions.  A branch starts anywhere in the    *)
(* tree and then only moves to a new revision whose parent is its head;    *)
(* revisions are never changed, never removed and never used twice.        *)
EXTENDS Naturals

CONSTANTS Branches, None

VARIABLES head,   \* the head of each existing branch
          parent  \* the parent of each revision, None for the first

vars == <<head, parent>>

Init ==
  /\ parent = [r \in {1} |-> None]
  /\ head = [b \in {"main"} |-> 1]

\* A revision is added on top of the head of a branch.
Commit(branch, r) ==
  /\ branch \in DOMAIN head
  /\ r \in Nat \ DOMAIN parent
  /\ parent' = [s \in DOMAIN parent \cup {r} |-> IF s = r THEN head[branch] ELSE parent[s]]
  /\ head' = [head EXCEPT ![branch] = r]

\* A branch is opened at a revision.
Open(branch, r) ==
  /\ branch \in Branches \ DOMAIN head
  /\ r \in DOMAIN parent
  /\ head' = [b \in DOMAIN head \cup {branch} |-> IF b = branch THEN r ELSE head[b]]
  /\ UNCHANGED parent

Next ==
  \/ \E branch \in DOMAIN head : \E r \in (DOMAIN parent') \ DOMAIN parent : Commit(branch, r)
  \/ \E branch \in Branches, r \in DOMAIN parent : Open(branch, r)

Spec == Init /\ [][Next]_vars
=============================================================================
