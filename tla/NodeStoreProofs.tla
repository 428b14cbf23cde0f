--------------------------- MODULE NodeStoreProofs --------------------------
(***************************************************************************)
(* The node store keeps its two indexes, shows exactly the errors that     *)
(* controls own, and keeps what a user typed, for all documents, updates   *)
(* and commands; and for those whose controls are rooted in the control    *)
(* hierarchy, no command leaves a node wrongly disabled or an aggregate    *)
(* out of date.                                                            *)
(*                                                                         *)
(* The graph of nodes is finite and ranked: upwards from a node there is   *)
(* an end.  So each recursion by which the store derives what follows from *)
(* a change is defined, and keeps of a node what the change left alone.    *)
(***************************************************************************)
EXTENDS NodeStore, FiniteSetTheorems, SequenceTheorems, WellFoundedInduction, TLAPS

-----------------------------------------------------------------------------
(* Induction over numbers and over ranks, for sets.                        *)

\* Sets of natural numbers have a least element.
LEMMA LeastNumber ==
  ASSUME NEW S \in SUBSET Nat, S # {}
  PROVE  \E n \in S : \A m \in S : n <= m
<1> DEFINE R == OpToRel(<, Nat)
<1>1. R = {ss \in Nat \X Nat : ss[1] < ss[2]}
  BY DEF OpToRel
<1>2. IsWellFoundedOn(R, Nat)
  BY NatLessThanWellFounded
<1> HIDE DEF R
<1>3. \E x \in S : \A y \in S : ~(<<y, x>> \in R)
  BY <1>2, WFMin
<1>4. \A x, y \in Nat : y < x => <<y, x>> \in R
  BY <1>1
<1>5. PICK n \in S : \A y \in S : ~(<<y, n>> \in R)
  BY <1>3
<1>6. \A m \in S : ~(m < n)
  BY <1>4, <1>5
<1> QED BY <1>6

\* A set that holds every member whose predecessors in a ranking it holds is the whole.
LEMMA RankInduction ==
  ASSUME NEW D, NEW rank \in [D -> Nat], NEW S,
         \A x \in D : (\A y \in D : rank[y] < rank[x] => y \in S) => x \in S
  PROVE  D \subseteq S
<1> SUFFICES ASSUME D \ S # {} PROVE FALSE
  OBVIOUS
<1> DEFINE R == {rank[x] : x \in D \ S}
<1>1. R \in SUBSET Nat /\ R # {}
  OBVIOUS
<1>2. PICK n \in R : \A m \in R : n <= m
  BY <1>1, LeastNumber
<1>3. PICK x \in D \ S : rank[x] = n
  BY <1>2
<1>4. \A y \in D : rank[y] < rank[x] => y \in S
  <2> SUFFICES ASSUME NEW y \in D \ S, rank[y] < rank[x] PROVE FALSE
    OBVIOUS
  <2>1. rank[y] \in R /\ n <= rank[y]
    BY <1>2
  <2> QED BY <1>3, <2>1
<1> QED BY <1>3, <1>4

\* A set that holds 0 and every successor holds every natural number.
LEMMA NumbersInduction ==
  ASSUME NEW S, 0 \in S, \A n \in Nat : n \in S => n + 1 \in S
  PROVE  Nat \subseteq S
<1> SUFFICES ASSUME Nat \ S # {} PROVE FALSE
  OBVIOUS
<1>1. PICK n \in Nat \ S : \A m \in Nat \ S : n <= m
  BY LeastNumber
<1>2. n # 0 /\ n - 1 \in Nat /\ n - 1 \in S
  BY <1>1
<1> QED BY <1>1, <1>2

-----------------------------------------------------------------------------
(* What is reached from a node: the least set that holds it and is closed  *)
(* under next.                                                             *)

Closed(next, S) == \A y \in S : next[y] \subseteq S
Reach(next, id) == {x \in DOMAIN next : \A S \in SUBSET DOMAIN next : id \in S /\ Closed(next, S) => x \in S}

\* What is reached from a node is in every closed set that holds it, and is one.
LEMMA ReachLeast ==
  ASSUME NEW D, NEW next \in [D -> SUBSET D], NEW id \in D
  PROVE  /\ id \in Reach(next, id) /\ Reach(next, id) \subseteq D
         /\ Closed(next, Reach(next, id))
         /\ \A S \in SUBSET D : id \in S /\ Closed(next, S) => Reach(next, id) \subseteq S
<1>1. DOMAIN next = D
  OBVIOUS
<1>2. id \in Reach(next, id) /\ Reach(next, id) \subseteq D
  BY <1>1 DEF Reach
<1>3. \A S \in SUBSET D : id \in S /\ Closed(next, S) => Reach(next, id) \subseteq S
  BY <1>1 DEF Reach
<1>4. ASSUME NEW y \in Reach(next, id), NEW x \in next[y] PROVE x \in Reach(next, id)
  <2>1. y \in D /\ x \in D
    BY <1>2, <1>4
  <2>2. ASSUME NEW S \in SUBSET D, id \in S, Closed(next, S) PROVE x \in S
    <3>1. y \in S
      BY <1>3, <2>2
    <3> QED BY <2>2, <3>1 DEF Closed
  <2> QED BY <1>1, <2>1, <2>2 DEF Reach
<1> QED BY <1>2, <1>3, <1>4 DEF Closed

\* It is the node, and what is reached from the next ones.
LEMMA ReachUnfolds ==
  ASSUME NEW D, NEW next \in [D -> SUBSET D], NEW id \in D
  PROVE  Reach(next, id) = {id} \cup UNION {Reach(next, c) : c \in next[id]}
<1> DEFINE U == {id} \cup UNION {Reach(next, c) : c \in next[id]}
<1>1. \A c \in next[id] : c \in D
  OBVIOUS
<1>2. \A c \in next[id] : c \in Reach(next, c) /\ Reach(next, c) \subseteq D /\ Closed(next, Reach(next, c))
  BY <1>1, ReachLeast
<1>3. U \in SUBSET D
  BY <1>2
<1>4. Closed(next, U)
  BY <1>2 DEF Closed
<1>5. Reach(next, id) \subseteq U
  BY <1>3, <1>4, ReachLeast
<1>6. ASSUME NEW c \in next[id] PROVE Reach(next, c) \subseteq Reach(next, id)
  <2>1. /\ id \in Reach(next, id) /\ Reach(next, id) \subseteq D
        /\ Closed(next, Reach(next, id))
    BY ReachLeast
  <2>2. c \in Reach(next, id)
    BY <2>1, <1>6 DEF Closed
  <2> QED BY <1>1, <1>6, <2>1, <2>2, ReachLeast
<1>7. id \in Reach(next, id)
  BY ReachLeast
<1>8. U \subseteq Reach(next, id)
  BY <1>6, <1>7
<1> QED BY <1>5, <1>8

\* Where every step forth has a step back, what is reached reaches back.
LEMMA ReachBack ==
  ASSUME NEW D, NEW next \in [D -> SUBSET D], NEW back \in [D -> SUBSET D],
         \A x \in D : \A c \in next[x] : x \in back[c],
         NEW id \in D, NEW x \in Reach(next, id)
  PROVE  x \in D /\ id \in Reach(back, x)
<1> DEFINE S == {y \in D : id \in Reach(back, y)}
<1>1. S \in SUBSET D /\ id \in S
  BY ReachLeast
<1>2. ASSUME NEW y \in S, NEW c \in next[y] PROVE c \in S
  <2>1. y \in D /\ c \in D /\ y \in back[c]
    BY <1>2
  <2>2. Reach(back, c) = {c} \cup UNION {Reach(back, z) : z \in back[c]}
    BY <2>1, ReachUnfolds
  <2> QED BY <1>2, <2>1, <2>2
<1>3. Closed(next, S)
  BY <1>2 DEF Closed
<1>4. Reach(next, id) \subseteq S
  BY <1>1, <1>3, ReachLeast
<1> QED BY <1>4

-----------------------------------------------------------------------------
(* Graphs.                                                                 *)

GraphRecord(s) == DOMAIN s = {"nodes", "children", "controls", "routes"}

ControlRecord(c) == DOMAIN c = {"value", "raw", "errors", "pending", "request", "dirty", "status"}

\* A node as a snapshot has it.
NodeRecord(n) ==
  /\ DOMAIN n = {"def", "own", "disabled", "control"}
  /\ ControlRecord(n.control)
  /\ n.own \in BOOLEAN /\ n.disabled \in BOOLEAN
  /\ n.control.status \in NodeStatuses
  /\ n.control.request \in Requests \cup {None}

\* A field holds no errors but its own; an aggregate also those of its members.
OwnsErrors(n) == Leaf(n.def) => \A e \in n.control.errors : e.owner = n.def.id

\* The nodes of a graph, each under its own id.
GraphNodes(s) ==
  /\ GraphRecord(s)
  /\ DOMAIN s.nodes \subseteq AllIds
  /\ DOMAIN s.children = DOMAIN s.nodes /\ DOMAIN s.controls = DOMAIN s.nodes
  /\ \A id \in DOMAIN s.nodes :
       /\ NodeRecord(s.nodes[id]) /\ OwnsErrors(s.nodes[id])
       /\ s.nodes[id].def.id = id /\ s.nodes[id].def \in Definitions

\* The indexes of a graph tell what its nodes say of themselves, and no node
\* names one that is gone.
GraphIndexes(s) ==
  LET D == DOMAIN s.nodes
      def(id) == s.nodes[id].def
  IN  /\ \A p \in D :
           /\ s.controls[p] \in Seq(D) /\ IsInjective(s.controls[p])
           /\ \A c \in Range(s.controls[p]) : LogicalParent(def(c)) = p
           /\ s.children[p] = {c \in D : def(c).parent = p}
      /\ \A c \in D :
           /\ def(c).parent \in D \cup {None}
           /\ def(c).controlParent # None =>
                def(c).controlParent \in D /\ c \in Range(s.controls[def(c).controlParent])

\* The lists hold what the documents list or commands add, and a node of an
\* older document is in the list of its parent, if that lists none.
GraphLists(s) ==
  /\ \A p \in DOMAIN s.nodes : \A c \in Range(s.controls[p]) : s.nodes[c].def \in Members
  /\ \A c \in DOMAIN s.nodes :
       LET d == s.nodes[c].def
       IN  ~Explicit(d) /\ d.parent # None =>
             c \in Range(s.controls[d.parent]) \/ s.nodes[d.parent].def.lists

\* Each node ranks below its effective parent.
Ranks(s, K, rank) ==
  /\ rank \in [DOMAIN s.nodes -> 0..K]
  /\ \A id \in DOMAIN s.nodes :
       LET above == EffectiveParent(s.nodes[id].def)
       IN  above \in DOMAIN s.nodes => rank[above] < rank[id]

GraphRanked(s) == \E K \in Nat : \E rank : Ranks(s, K, rank)

Graph(s) == GraphNodes(s) /\ GraphIndexes(s) /\ GraphLists(s) /\ GraphRanked(s)

\* Whoever a list holds has its owner as the effective parent.
LEMMA ListedBelow ==
  ASSUME NEW s, Graph(s)
  PROVE  \A p \in DOMAIN s.nodes : \A c \in Range(s.controls[p]) :
           c \in DOMAIN s.nodes /\ EffectiveParent(s.nodes[c].def) = p
<1> SUFFICES ASSUME NEW p \in DOMAIN s.nodes, NEW c \in Range(s.controls[p])
             PROVE  c \in DOMAIN s.nodes /\ EffectiveParent(s.nodes[c].def) = p
  OBVIOUS
<1>1. c \in DOMAIN s.nodes
  <2>1. s.controls[p] \in Seq(DOMAIN s.nodes)
    BY DEF Graph, GraphIndexes
  <2> QED BY <2>1 DEF Range
<1>2. LogicalParent(s.nodes[c].def) = p /\ p # None
  BY NodeStoreAssumption DEF Graph, GraphIndexes, GraphNodes
<1> QED BY <1>1, <1>2 DEF LogicalParent, Explicit, EffectiveParent

\* The effective parent of a node is a node or none.
LEMMA ParentsKnown ==
  ASSUME NEW s, Graph(s), NEW id \in DOMAIN s.nodes
  PROVE  EffectiveParent(s.nodes[id].def) \in DOMAIN s.nodes \cup {None}
BY DEF Graph, GraphIndexes, EffectiveParent

\* The lists of a graph, and one step up, as sets.
Lists(s) == [id \in DOMAIN s.nodes |-> Range(s.controls[id])]
Up(up, D) == [id \in D |-> {up[id]} \cap D]

\* Lists relates nodes of the graph.
LEMMA ListsType ==
  ASSUME NEW s, Graph(s)
  PROVE  Lists(s) \in [DOMAIN s.nodes -> SUBSET DOMAIN s.nodes]
BY ListedBelow DEF Lists

\* Below is what the lists reach.
LEMMA BelowIsReach ==
  ASSUME NEW s, Graph(s), NEW roots
  PROVE  Below(s, roots) = UNION {Reach(Lists(s), id) : id \in roots \cap DOMAIN s.nodes}
<1> DEFINE D == DOMAIN s.nodes
           Unfolds(h) == h = [id \in D |-> {id} \cup UNION {h[c] : c \in Range(s.controls[id])}]
           f == CHOOSE h : Unfolds(h)
           g == [id \in D |-> Reach(Lists(s), id)]
<1>1. DOMAIN s.controls = D
  BY DEF Graph, GraphNodes
<1>2. \A id \in D : Lists(s)[id] = Range(s.controls[id]) /\ Range(s.controls[id]) \subseteq D
  BY ListedBelow DEF Lists
<1>3. \A id \in D : g[id] = {id} \cup UNION {g[c] : c \in Range(s.controls[id])}
  <2> TAKE id \in D
  <2>1. Reach(Lists(s), id) = {id} \cup UNION {Reach(Lists(s), c) : c \in Lists(s)[id]}
    BY ListsType, ReachUnfolds
  <2>2. \A c \in Range(s.controls[id]) : g[c] = Reach(Lists(s), c)
    BY <1>2
  <2> QED BY <1>2, <2>1, <2>2
<1>4. Unfolds(g)
  <2>1. g = [id \in D |-> g[id]]
    OBVIOUS
  <2> HIDE DEF g
  <2> QED BY <1>3, <2>1
<1>5. Unfolds(f)
  <2> HIDE DEF Unfolds, g
  <2> QED BY <1>4
<1>6. PICK K \in Nat : \E rank : Ranks(s, K, rank)
  BY DEF Graph, GraphRanked
<1>13. PICK rank : Ranks(s, K, rank)
  BY <1>6
<1>7. \A id \in D : \A c \in Range(s.controls[id]) : rank[id] < rank[c]
  BY <1>2, <1>13, ListedBelow DEF Ranks
<1> DEFINE low == [id \in D |-> K - rank[id]]
           S == {id \in D : f[id] = g[id]}
<1>8. low \in [D -> Nat]
  BY <1>13 DEF Ranks
<1>9. \A id \in D : (\A y \in D : low[y] < low[id] => y \in S) => id \in S
  <2> SUFFICES ASSUME NEW id \in D, \A y \in D : low[y] < low[id] => y \in S
               PROVE  f[id] = g[id]
    OBVIOUS
  <2>1. \A c \in Range(s.controls[id]) : f[c] = g[c]
    <3> TAKE c \in Range(s.controls[id])
    <3>1. c \in D /\ rank[id] < rank[c]
      BY <1>2, <1>7
    <3>2. low[c] < low[id]
      <4>1. rank[c] \in 0..K /\ rank[id] \in 0..K
        BY <1>13, <3>1 DEF Ranks
      <4> QED BY <3>1, <4>1
    <3> QED BY <3>1, <3>2
  <2>2. f[id] = {id} \cup UNION {f[c] : c \in Range(s.controls[id])}
    <3> HIDE DEF f
    <3> QED BY <1>5
  <2> HIDE DEF f, g
  <2> QED BY <1>3, <2>1, <2>2
<1>10. \A id \in D : f[id] = g[id]
  <2> HIDE DEF low, S
  <2>1. D \subseteq S
    BY <1>8, <1>9, RankInduction
  <2> QED BY <2>1 DEF S
<1>11. Below(s, roots) = UNION {f[id] : id \in roots \cap D}
  BY <1>1 DEF Below
<1>12. \A id \in roots \cap D : f[id] = Reach(Lists(s), id)
  BY <1>10
<1> HIDE DEF f
<1> QED BY <1>11, <1>12

\* So everything below nodes of a graph is in it, the nodes themselves included.
LEMMA BelowInside ==
  ASSUME NEW s, Graph(s), NEW roots
  PROVE  Below(s, roots) \subseteq DOMAIN s.nodes
BY BelowIsReach, ListsType, ReachLeast

\* Path is what the steps up reach.
LEMMA PathIsReach ==
  ASSUME NEW D, D \subseteq AllIds, NEW up, DOMAIN up = D, \A id \in D : up[id] \in D \cup {None},
         NEW rank \in [D -> Nat], \A id \in D : up[id] \in D => rank[up[id]] < rank[id],
         NEW id \in AllIds \cup {None}
  PROVE  Path(up, id) = IF id \in D THEN Reach(Up(up, D), id) ELSE {}
<1> DEFINE A == AllIds \cup {None}
           Unfolds(h) == h = [i \in A |-> IF i \in DOMAIN up THEN {i} \cup h[up[i]] ELSE {}]
           f == CHOOSE h : Unfolds(h)
           g == [i \in A |-> IF i \in D THEN Reach(Up(up, D), i) ELSE {}]
<1>1. Up(up, D) \in [D -> SUBSET D] /\ None \notin D
  BY NodeStoreAssumption DEF Up
<1>2. \A i \in A : g[i] = IF i \in D THEN {i} \cup g[up[i]] ELSE {}
  <2> TAKE i \in A
  <2>1. CASE i \notin D
    BY <2>1
  <2>2. CASE i \in D
    <3>1. Reach(Up(up, D), i) = {i} \cup UNION {Reach(Up(up, D), c) : c \in Up(up, D)[i]}
      BY <1>1, <2>2, ReachUnfolds
    <3>2. CASE up[i] \in D
      <4>1. Up(up, D)[i] = {up[i]}
        BY <2>2, <3>2 DEF Up
      <4>2. g[up[i]] = Reach(Up(up, D), up[i]) /\ g[i] = Reach(Up(up, D), i)
        BY <2>2, <3>2
      <4> QED BY <2>2, <3>1, <4>1, <4>2
    <3>3. CASE up[i] = None
      <4>1. Up(up, D)[i] = {}
        BY <1>1, <2>2, <3>3 DEF Up
      <4>2. g[up[i]] = {} /\ g[i] = Reach(Up(up, D), i)
        BY <1>1, <2>2, <3>3
      <4> QED BY <2>2, <3>1, <4>1, <4>2
    <3> QED BY <2>2, <3>2, <3>3
  <2> QED BY <2>1, <2>2
<1>3. Unfolds(g)
  <2>1. g = [i \in A |-> g[i]]
    OBVIOUS
  <2> HIDE DEF g
  <2> QED BY <1>2, <2>1
<1>4. Unfolds(f)
  <2> HIDE DEF Unfolds, g
  <2> QED BY <1>3
<1> DEFINE S == {i \in D : f[i] = g[i]}
<1>5. \A i \in A \ D : f[i] = g[i]
  BY <1>2, <1>4
<1>6. \A i \in D : (\A y \in D : rank[y] < rank[i] => y \in S) => i \in S
  <2> SUFFICES ASSUME NEW i \in D, \A y \in D : rank[y] < rank[i] => y \in S
               PROVE  f[i] = g[i]
    OBVIOUS
  <2>1. up[i] \in A /\ i \in A
    OBVIOUS
  <2>2. f[up[i]] = g[up[i]]
    <3>1. CASE up[i] \in D
      BY <3>1
    <3>2. CASE up[i] \notin D
      BY <2>1, <3>2, <1>5
    <3> QED BY <3>1, <3>2
  <2>3. f[i] = {i} \cup f[up[i]]
    <3> HIDE DEF f
    <3> QED BY <1>4, <2>1
  <2> HIDE DEF f, g
  <2> QED BY <1>2, <2>1, <2>2, <2>3
<1>7. \A i \in A : f[i] = g[i]
  <2> HIDE DEF S
  <2>1. D \subseteq S
    BY <1>6, RankInduction
  <2> QED BY <1>5, <2>1 DEF S
<1>8. Path(up, id) = f[id]
  BY DEF Path
<1> QED BY <1>7, <1>8

-----------------------------------------------------------------------------
(* What the helpers of a command keep of a node.                           *)

\* m is a node in the place of n: of the same definition, and what a user typed
\* into it is kept.
Keeps(n, m) ==
  /\ NodeRecord(m) /\ m.def = n.def /\ m.own = n.own
  /\ m.control.raw = n.control.raw
  /\ OwnsErrors(n) => OwnsErrors(m)

\* Validating a node, as a command or as a build does, keeps what was typed into it.
LEMMA ValidatedKeeps ==
  ASSUME NEW n, NodeRecord(n)
  PROVE  /\ Keeps(n, Validating(n)) /\ Validating(n).disabled = n.disabled
         /\ Keeps(n, WithValidated(n)) /\ WithValidated(n).disabled = n.disabled
         /\ OwnsErrors(Validating(n)) /\ OwnsErrors(WithValidated(n))
<1>1. \A errors : Verdict(errors) \in {"valid", "invalid"}
  BY DEF Verdict
<1>2. /\ ControlRecord(Validated(n)) /\ Validated(n).raw = n.control.raw
      /\ Validated(n).status \in NodeStatuses /\ Validated(n).request \in Requests \cup {None}
      /\ \A e \in Validated(n).errors : e.owner = n.def.id
  <2> DEFINE errors == SyncErrors(n.def, n.control.value)
  <2>1. CASE n.disabled
    BY <2>1 DEF Validated, Silenced, NodeRecord, ControlRecord, NodeStatuses
  <2>2. CASE ~n.disabled
    <3> HIDE DEF errors
    <3>1. Validated(n) = [n.control EXCEPT !.errors = errors, !.pending = FALSE, !.status = Verdict(errors)]
      BY <2>2 DEF Validated, errors
    <3>2. \A e \in errors : e.owner = n.def.id
      BY DEF errors, SyncErrors, Error
    <3> QED BY <1>1, <3>1, <3>2 DEF NodeRecord, ControlRecord, NodeStatuses
  <2> QED BY <2>1, <2>2
<1>3. /\ ControlRecord(Revalidated(n)) /\ Revalidated(n).raw = n.control.raw
      /\ Revalidated(n).status \in NodeStatuses /\ Revalidated(n).request \in Requests \cup {None}
      /\ \A e \in Revalidated(n).errors : e.owner = n.def.id
  BY <1>2 DEF Revalidated, ControlRecord
<1>4. Keeps(n, Validating(n)) /\ Validating(n).disabled = n.disabled /\ OwnsErrors(Validating(n))
  BY <1>2 DEF Keeps, Validating, NodeRecord, OwnsErrors
<1>5. Keeps(n, WithValidated(n)) /\ WithValidated(n).disabled = n.disabled /\ OwnsErrors(WithValidated(n))
  BY <1>3 DEF Keeps, WithValidated, NodeRecord, OwnsErrors, Leaf, HasControl
<1> QED BY <1>4, <1>5

\* A control whose value was judged anew keeps what the user typed.
LEMMA RevalidatedFacts ==
  ASSUME NEW n, NodeRecord(n)
  PROVE  /\ ControlRecord(Revalidated(n)) /\ Revalidated(n).raw = n.control.raw
         /\ Revalidated(n).status \in NodeStatuses /\ Revalidated(n).request \in Requests \cup {None}
         /\ Leaf(n.def) => \A e \in Revalidated(n).errors : e.owner = n.def.id
<1>1. Keeps(n, Validating(n)) /\ OwnsErrors(Validating(n))
  BY ValidatedKeeps
<1>2. /\ ControlRecord(Validated(n)) /\ Validated(n).raw = n.control.raw
      /\ Validated(n).status \in NodeStatuses /\ Validated(n).request \in Requests \cup {None}
      /\ Leaf(n.def) => \A e \in Validated(n).errors : e.owner = n.def.id
  BY <1>1 DEF Keeps, Validating, NodeRecord, OwnsErrors
<1> QED BY <1>2 DEF Revalidated, ControlRecord

\* A silenced control keeps its raw value and awaits nothing.
LEMMA SilencedFacts ==
  ASSUME NEW c, ControlRecord(c)
  PROVE  /\ ControlRecord(Silenced(c)) /\ Silenced(c).raw = c.raw
         /\ Silenced(c).status = "disabled" /\ Silenced(c).request = None
         /\ Silenced(c).errors = {} /\ Silent(Silenced(c))
BY DEF Silenced, ControlRecord, Silent

\* A node that is disabled or enabled stays the node it was.
LEMMA DisabledNodeKeeps ==
  ASSUME NEW n, NodeRecord(n), NEW b \in BOOLEAN
  PROVE  Keeps(n, DisabledNode(n, b))
<1> DEFINE next == [n EXCEPT !.disabled = b]
           retained == ~n.disabled /\ n.control.status # "disabled"
<1>1. Keeps(n, next) /\ NodeRecord(next) /\ next.control = n.control
  BY DEF Keeps, NodeRecord, OwnsErrors
<1>2. /\ ControlRecord(Revalidated(next)) /\ Revalidated(next).raw = n.control.raw
      /\ Revalidated(next).status \in NodeStatuses /\ Revalidated(next).request \in Requests \cup {None}
      /\ Leaf(next.def) => \A e \in Revalidated(next).errors : e.owner = next.def.id
  <2> HIDE DEF next
  <2> QED BY <1>1, RevalidatedFacts
<1>3. DisabledNode(n, b) \in {next, [next EXCEPT !.control = Silenced(@)],
                              [next EXCEPT !.control = Revalidated(next)]}
  <2> HIDE DEF retained
  <2>1. DisabledNode(n, b) = CASE ~HasControl(n.def) -> next
          [] HasControl(n.def) /\ b -> [next EXCEPT !.control = Silenced(@)]
          [] HasControl(n.def) /\ ~b /\ retained -> next
          [] HasControl(n.def) /\ ~b /\ ~retained -> [next EXCEPT !.control = Revalidated(next)]
    BY DEF DisabledNode, retained
  <2> HIDE DEF next
  <2>2. HasControl(n.def) \in BOOLEAN /\ retained \in BOOLEAN
    BY DEF HasControl, retained
  <2> QED BY <2>1, <2>2
<1>4. Keeps(n, [next EXCEPT !.control = Silenced(@)])
  <2> HIDE DEF next
  <2>1. ControlRecord(n.control)
    BY DEF NodeRecord
  <2>2. /\ ControlRecord(Silenced(next.control)) /\ Silenced(next.control).raw = n.control.raw
        /\ Silenced(next.control).status = "disabled" /\ Silenced(next.control).request = None
        /\ Silenced(next.control).errors = {}
    BY <1>1, <2>1, SilencedFacts
  <2> QED BY <1>1, <2>2 DEF Keeps, NodeRecord, NodeStatuses, OwnsErrors
<1>5. Keeps(n, [next EXCEPT !.control = Revalidated(next)])
  <2> HIDE DEF next
  <2> QED BY <1>1, <1>2 DEF Keeps, NodeRecord, OwnsErrors
<1> QED BY <1>1, <1>3, <1>4, <1>5

\* A node made from its definition is well formed.
LEMMA SnapshotFacts ==
  ASSUME NEW d, d.own \in BOOLEAN
  PROVE  NodeRecord(Snapshot(d)) /\ Snapshot(d).def = d /\ OwnsErrors(Snapshot(d))
BY DEF Snapshot, Blank, NodeRecord, ControlRecord, NodeStatuses, OwnsErrors

-----------------------------------------------------------------------------
(* A graph whose nodes were changed in place.                              *)

\* t is s with other nodes of the same definitions.
SameTopology(s, t) ==
  /\ GraphRecord(t) /\ t.children = s.children /\ t.controls = s.controls
  /\ DOMAIN t.nodes = DOMAIN s.nodes
  /\ \A id \in DOMAIN s.nodes :
       NodeRecord(t.nodes[id]) /\ OwnsErrors(t.nodes[id]) /\ t.nodes[id].def = s.nodes[id].def

\* A graph whose nodes change in place stays one.
LEMMA SameTopologyGraph ==
  ASSUME NEW s, NEW t, Graph(s), SameTopology(s, t)
  PROVE  Graph(t)
<1>1. GraphNodes(t)
  BY DEF Graph, GraphNodes, SameTopology
<1>2. GraphIndexes(t)
  <2> DEFINE D == DOMAIN s.nodes
  <2>1. \A p \in D :
          /\ s.controls[p] \in Seq(D) /\ IsInjective(s.controls[p])
          /\ \A c \in Range(s.controls[p]) : c \in D /\ LogicalParent(s.nodes[c].def) = p
          /\ s.children[p] = {c \in D : s.nodes[c].def.parent = p}
    BY ListedBelow DEF Graph, GraphIndexes
  <2>2. \A c \in D :
          /\ s.nodes[c].def.parent \in D \cup {None}
          /\ s.nodes[c].def.controlParent # None =>
               s.nodes[c].def.controlParent \in D /\ c \in Range(s.controls[s.nodes[c].def.controlParent])
    BY DEF Graph, GraphIndexes
  <2>3. DOMAIN t.nodes = D /\ t.children = s.children /\ t.controls = s.controls
    BY DEF SameTopology
  <2>4. \A c \in D : t.nodes[c].def = s.nodes[c].def
    BY DEF SameTopology
  <2> HIDE DEF D
  <2>5. \A p \in D :
          /\ t.controls[p] \in Seq(D) /\ IsInjective(t.controls[p])
          /\ \A c \in Range(t.controls[p]) : LogicalParent(t.nodes[c].def) = p
          /\ t.children[p] = {c \in D : t.nodes[c].def.parent = p}
    BY <2>1, <2>3, <2>4
  <2>6. \A c \in D :
          /\ t.nodes[c].def.parent \in D \cup {None}
          /\ t.nodes[c].def.controlParent # None =>
               t.nodes[c].def.controlParent \in D /\ c \in Range(t.controls[t.nodes[c].def.controlParent])
    BY <2>2, <2>3, <2>4
  <2> QED BY <2>3, <2>5, <2>6 DEF GraphIndexes
<1>3. GraphRanked(t)
  <2>1. PICK K \in Nat : \E rank : Ranks(s, K, rank)
    BY DEF Graph, GraphRanked
  <2>2. PICK rank : Ranks(s, K, rank)
    BY <2>1
  <2>3. Ranks(t, K, rank)
    BY <2>2 DEF Ranks, SameTopology
  <2> QED BY <2>1, <2>3 DEF GraphRanked
<1>4. GraphLists(t)
  <2>1. \A c \in DOMAIN s.nodes :
          /\ t.nodes[c].def = s.nodes[c].def
          /\ s.nodes[c].def.parent \in DOMAIN s.nodes \cup {None}
    BY DEF SameTopology, Graph, GraphIndexes
  <2>2. GraphLists(s) /\ t.controls = s.controls /\ DOMAIN t.nodes = DOMAIN s.nodes
    BY DEF Graph, SameTopology
  <2>3. \A p \in DOMAIN s.nodes : \A c \in Range(s.controls[p]) : t.nodes[c].def \in Members
    BY <2>1, <2>2, ListedBelow DEF GraphLists
  <2> QED BY <2>1, <2>2, <2>3 DEF GraphLists
<1> QED BY <1>1, <1>2, <1>3, <1>4 DEF Graph

-----------------------------------------------------------------------------
(* reconcileEffectiveDisabled.                                             *)

\* Whether a node is disabled, when f says so of those above it.
DisabledBy(s, visited, f, id) ==
  /\ id \in DOMAIN s.nodes
  /\ IF id \in visited THEN s.nodes[id].own \/ f[NamedParents(s)[id]] ELSE s.nodes[id].disabled

IsDisablement(s, visited, f) ==
  f = [id \in AllIds \cup {None} |-> DisabledBy(s, visited, f, id)]

\* There is a function that agrees with the nodes above, by the rank of the nodes.
LEMMA DisablementExists ==
  ASSUME NEW s, Graph(s), NEW visited \in SUBSET DOMAIN s.nodes
  PROVE  \E f : IsDisablement(s, visited, f)
<1> DEFINE A == AllIds \cup {None}
           D == DOMAIN s.nodes
           up == NamedParents(s)
<1>1. PICK K \in Nat : \E rank : Ranks(s, K, rank)
  BY DEF Graph, GraphRanked
<1>2. PICK rank : Ranks(s, K, rank)
  BY <1>1
<1>3. /\ D \subseteq A /\ \A id \in D : up[id] \in A /\ rank[id] \in 0..K
      /\ \A id \in D : up[id] \in D => rank[up[id]] < rank[id]
  BY <1>2, ParentsKnown DEF Graph, GraphNodes, Ranks, NamedParents
<1> DEFINE R(k) == {id \in A : id \in D => rank[id] < k}
           Upto(k, f) == f = [id \in R(k) |-> DisabledBy(s, visited, f, id)]
           S == {k \in Nat : \E f : Upto(k, f)}
<1>4. 0 \in S
  <2> DEFINE f == [id \in R(0) |-> FALSE]
  <2>1. \A id \in R(0) : id \notin D
    BY <1>3
  <2>2. \A id \in R(0) : DisabledBy(s, visited, f, id) = FALSE
    BY <2>1 DEF DisabledBy
  <2>3. Upto(0, f)
    <3> HIDE DEF R
    <3>1. f = [id \in R(0) |-> FALSE]
      OBVIOUS
    <3> HIDE DEF f
    <3> QED BY <2>2, <3>1
  <2> QED BY <2>3
<1>5. ASSUME NEW k \in Nat, k \in S PROVE k + 1 \in S
  <2>1. PICK f : Upto(k, f)
    BY <1>5
  <2> DEFINE g == [id \in R(k + 1) |-> DisabledBy(s, visited, f, id)]
  <2>2. R(k) \subseteq R(k + 1)
    BY <1>3
  <2>3. \A id \in R(k) : g[id] = f[id]
    <3> HIDE DEF R
    <3> QED BY <2>1, <2>2
  <2>4. \A id \in R(k + 1) : id \in visited => up[id] \in R(k)
    BY <1>3
  <2>5. \A id \in R(k + 1) : DisabledBy(s, visited, f, id) = DisabledBy(s, visited, g, id)
    <3> HIDE DEF R, g
    <3> QED BY <2>3, <2>4 DEF DisabledBy
  <2>6. Upto(k + 1, g)
    <3> HIDE DEF R
    <3>1. g = [id \in R(k + 1) |-> DisabledBy(s, visited, f, id)]
      OBVIOUS
    <3> HIDE DEF g
    <3> QED BY <2>5, <3>1
  <2> HIDE DEF Upto, g
  <2> QED BY <2>6
<1>6. K + 1 \in S
  <2> HIDE DEF S
  <2> QED BY <1>1, <1>4, <1>5, NumbersInduction
<1>7. PICK f : Upto(K + 1, f)
  BY <1>6
<1>8. R(K + 1) = A
  BY <1>1, <1>3
<1> QED BY <1>7, <1>8 DEF IsDisablement

\* The nodes that are visited: what is below a candidate that no candidate is above.
VisitedBelow(s, roots) ==
  Below(s, roots) \cap Below(s, OrderedRoots(NamedParents(s), Below(s, roots)))

\* The disablement is changed of some nodes, and nothing else.
LEMMA ReconcileDisabledNodes ==
  ASSUME NEW s, Graph(s), NEW roots
  PROVE  \E f \in [VisitedBelow(s, roots) -> BOOLEAN] :
           ReconcileDisabled(s, roots) =
             [s EXCEPT !.nodes = [id \in DOMAIN s.nodes |->
                IF id \in VisitedBelow(s, roots) THEN DisabledNode(s.nodes[id], f[id]) ELSE s.nodes[id]]]
<1> DEFINE V == VisitedBelow(s, roots)
           f == CHOOSE f : IsDisablement(s, V, f)
           h == [id \in V |-> f[id]]
<1>1. V \subseteq DOMAIN s.nodes
  BY BelowInside DEF VisitedBelow
<1>2. IsDisablement(s, V, f)
  BY <1>1, DisablementExists
<1>3. ReconcileDisabled(s, roots) = [s EXCEPT !.nodes = Over([id \in V |-> DisabledNode(s.nodes[id], f[id])], s.nodes)]
  BY DEF ReconcileDisabled, VisitedBelow, IsDisablement, DisabledBy
<1> HIDE DEF f, V
<1>4. \A id \in V : f[id] \in BOOLEAN
  <2> SUFFICES ASSUME NEW id \in V PROVE f[id] \in BOOLEAN
    OBVIOUS
  <2>1. id \in AllIds
    BY <1>1 DEF Graph, GraphNodes
  <2>2. f[id] = DisabledBy(s, V, f, id)
    BY <1>2, <2>1 DEF IsDisablement
  <2> QED BY <2>2 DEF DisabledBy
<1>5. h \in [V -> BOOLEAN] /\ \A id \in V : h[id] = f[id]
  BY <1>4
<1>6. Over([id \in V |-> DisabledNode(s.nodes[id], f[id])], s.nodes) =
        [id \in DOMAIN s.nodes |-> IF id \in V THEN DisabledNode(s.nodes[id], h[id]) ELSE s.nodes[id]]
  BY <1>1, <1>5 DEF Over
<1> QED BY <1>3, <1>5, <1>6 DEF V

\* So the nodes keep their definitions and what was typed into them.
LEMMA ReconcileDisabledKeeps ==
  ASSUME NEW s, Graph(s), NEW roots
  PROVE  LET t == ReconcileDisabled(s, roots)
         IN  /\ SameTopology(s, t) /\ t.routes = s.routes
             /\ \A id \in DOMAIN s.nodes : Keeps(s.nodes[id], t.nodes[id])
<1> DEFINE V == VisitedBelow(s, roots)
           t == ReconcileDisabled(s, roots)
<1>1. PICK f \in [V -> BOOLEAN] :
        t = [s EXCEPT !.nodes = [id \in DOMAIN s.nodes |->
               IF id \in V THEN DisabledNode(s.nodes[id], f[id]) ELSE s.nodes[id]]]
  BY ReconcileDisabledNodes
<1> HIDE DEF t, V
<1>2. GraphRecord(s) /\ \A id \in DOMAIN s.nodes : NodeRecord(s.nodes[id]) /\ OwnsErrors(s.nodes[id])
  BY DEF Graph, GraphNodes
<1>3. \A id \in DOMAIN s.nodes : Keeps(s.nodes[id], s.nodes[id])
  BY <1>2 DEF Keeps
<1>4. \A id \in DOMAIN s.nodes : id \in V => Keeps(s.nodes[id], DisabledNode(s.nodes[id], f[id]))
  BY <1>2, DisabledNodeKeeps
<1>5. /\ GraphRecord(t) /\ t.children = s.children /\ t.controls = s.controls /\ t.routes = s.routes
      /\ DOMAIN t.nodes = DOMAIN s.nodes
      /\ \A id \in DOMAIN s.nodes :
           t.nodes[id] = IF id \in V THEN DisabledNode(s.nodes[id], f[id]) ELSE s.nodes[id]
  BY <1>1, <1>2 DEF GraphRecord
<1>6. \A id \in DOMAIN s.nodes : Keeps(s.nodes[id], t.nodes[id])
  BY <1>3, <1>4, <1>5
<1>7. SameTopology(s, t)
  BY <1>2, <1>5, <1>6 DEF SameTopology, Keeps
<1> QED BY <1>5, <1>6, <1>7 DEF t

-----------------------------------------------------------------------------
(* recomputeAggregateControls.                                             *)

\* A node, when f gives the nodes of its list.
RecomputedNode(s, affected, f, id) ==
  IF id \in affected /\ Aggregate(s.nodes[id].def)
  THEN [s.nodes[id] EXCEPT !.control =
          Recomputed(s.nodes[id], [i \in DOMAIN s.controls[id] |-> f[s.controls[id][i]]])]
  ELSE s.nodes[id]

IsRecomputation(s, affected, f) ==
  f = [id \in DOMAIN s.nodes |-> RecomputedNode(s, affected, f, id)]

\* There is a function that agrees with the lists, by the rank of the nodes.
LEMMA RecomputationExists ==
  ASSUME NEW s, Graph(s), NEW affected
  PROVE  \E f : IsRecomputation(s, affected, f)
<1> DEFINE D == DOMAIN s.nodes
<1>1. PICK K \in Nat : \E rank : Ranks(s, K, rank)
  BY DEF Graph, GraphRanked
<1>2. PICK rank : Ranks(s, K, rank)
  BY <1>1
<1>3. /\ \A id \in D : rank[id] \in 0..K
      /\ \A id \in D : \A c \in Range(s.controls[id]) : c \in D /\ rank[id] < rank[c]
  BY <1>2, ListedBelow DEF Ranks
<1> DEFINE R(k) == {id \in D : K - rank[id] < k}
           Upto(k, f) == f = [id \in R(k) |-> RecomputedNode(s, affected, f, id)]
           S == {k \in Nat : \E f : Upto(k, f)}
<1>4. 0 \in S
  <2> DEFINE f == [id \in R(0) |-> {}]
  <2>1. R(0) = {}
    BY <1>1, <1>3
  <2>2. Upto(0, f)
    <3> HIDE DEF R
    <3> QED BY <2>1
  <2> QED BY <2>2
<1>5. ASSUME NEW k \in Nat, k \in S PROVE k + 1 \in S
  <2>1. PICK f : Upto(k, f)
    BY <1>5
  <2> DEFINE g == [id \in R(k + 1) |-> RecomputedNode(s, affected, f, id)]
  <2>2. R(k) \subseteq R(k + 1)
    BY <1>1, <1>3
  <2>3. \A id \in R(k) : g[id] = f[id]
    <3> HIDE DEF R
    <3> QED BY <2>1, <2>2
  <2>4. \A id \in R(k + 1) : \A c \in Range(s.controls[id]) : c \in R(k)
    BY <1>1, <1>3
  <2>5. \A id \in R(k + 1) : RecomputedNode(s, affected, f, id) = RecomputedNode(s, affected, g, id)
    <3> TAKE id \in R(k + 1)
    <3> HIDE DEF R, g
    <3>1. [i \in DOMAIN s.controls[id] |-> f[s.controls[id][i]]] =
            [i \in DOMAIN s.controls[id] |-> g[s.controls[id][i]]]
      BY <2>3, <2>4 DEF Range
    <3> QED BY <3>1 DEF RecomputedNode
  <2>6. Upto(k + 1, g)
    <3> HIDE DEF R
    <3>1. g = [id \in R(k + 1) |-> RecomputedNode(s, affected, f, id)]
      OBVIOUS
    <3> HIDE DEF g
    <3> QED BY <2>5, <3>1
  <2> HIDE DEF Upto, g
  <2> QED BY <2>6
<1>6. K + 1 \in S
  <2> HIDE DEF S
  <2> QED BY <1>1, <1>4, <1>5, NumbersInduction
<1>7. PICK f : Upto(K + 1, f)
  BY <1>6
<1>8. R(K + 1) = D
  BY <1>1, <1>3
<1> QED BY <1>7, <1>8 DEF IsRecomputation

\* What is computed anew of an aggregate is a control.
LEMMA RecomputedFacts ==
  ASSUME NEW n, NodeRecord(n), NEW listed
  PROVE  LET c == Recomputed(n, listed)
         IN  ControlRecord(c) /\ c.status \in NodeStatuses /\ c.request \in Requests \cup {None}
<1>1. \A errors : Verdict(errors) \in {"valid", "invalid"}
  BY DEF Verdict
<1> QED BY <1>1 DEF Recomputed, NodeRecord, ControlRecord, NodeStatuses

\* Only affected aggregates change, and only in their control.
LEMMA RecomputeAggregatesKeeps ==
  ASSUME NEW s, Graph(s), NEW affected \in SUBSET DOMAIN s.nodes
  PROVE  LET t == RecomputeAggregates(s, affected)
         IN  /\ SameTopology(s, t) /\ t.routes = s.routes
             /\ \A id \in DOMAIN s.nodes :
                  /\ t.nodes[id].own = s.nodes[id].own
                  /\ ~(id \in affected /\ Aggregate(s.nodes[id].def)) => t.nodes[id] = s.nodes[id]
<1> DEFINE t == RecomputeAggregates(s, affected)
           f == CHOOSE f : IsRecomputation(s, affected, f)
<1>1. IsRecomputation(s, affected, f)
  BY RecomputationExists
<1>2. t = [s EXCEPT !.nodes = Over([id \in affected |-> f[id]], s.nodes)]
  BY DEF RecomputeAggregates, IsRecomputation, RecomputedNode
<1> HIDE DEF t, f
<1>3. GraphRecord(s) /\ \A id \in DOMAIN s.nodes : NodeRecord(s.nodes[id]) /\ OwnsErrors(s.nodes[id])
  BY DEF Graph, GraphNodes
<1>4. /\ GraphRecord(t) /\ t.children = s.children /\ t.controls = s.controls /\ t.routes = s.routes
      /\ t.nodes = Over([id \in affected |-> f[id]], s.nodes)
  BY <1>2, <1>3 DEF GraphRecord
<1>5. /\ DOMAIN t.nodes = DOMAIN s.nodes
      /\ \A id \in DOMAIN s.nodes : t.nodes[id] = IF id \in affected THEN f[id] ELSE s.nodes[id]
  BY <1>4 DEF Over
<1>6. \A id \in DOMAIN s.nodes : f[id] = RecomputedNode(s, affected, f, id)
  BY <1>1 DEF IsRecomputation
<1>7. \A id \in DOMAIN s.nodes :
        ~(id \in affected /\ Aggregate(s.nodes[id].def)) => t.nodes[id] = s.nodes[id]
  BY <1>5, <1>6 DEF RecomputedNode
<1>8. ASSUME NEW id \in DOMAIN s.nodes
      PROVE  /\ NodeRecord(t.nodes[id]) /\ OwnsErrors(t.nodes[id])
             /\ t.nodes[id].def = s.nodes[id].def /\ t.nodes[id].own = s.nodes[id].own
  <2>1. CASE ~(id \in affected /\ Aggregate(s.nodes[id].def))
    BY <1>3, <1>7, <2>1
  <2>2. CASE id \in affected /\ Aggregate(s.nodes[id].def)
    <3> DEFINE c == Recomputed(s.nodes[id], [i \in DOMAIN s.controls[id] |-> f[s.controls[id][i]]])
    <3>1. ControlRecord(c) /\ c.status \in NodeStatuses /\ c.request \in Requests \cup {None}
      BY <1>3, RecomputedFacts
    <3>2. t.nodes[id] = [s.nodes[id] EXCEPT !.control = c]
      BY <1>5, <1>6, <2>2 DEF RecomputedNode
    <3> HIDE DEF c
    <3>3. ~Leaf(s.nodes[id].def)
      BY <2>2 DEF Leaf, Aggregate
    <3> QED BY <1>3, <3>1, <3>2, <3>3 DEF NodeRecord, OwnsErrors
  <2> QED BY <2>1, <2>2
<1>9. SameTopology(s, t)
  BY <1>4, <1>5, <1>8 DEF SameTopology
<1> QED BY <1>4, <1>7, <1>8, <1>9 DEF t

-----------------------------------------------------------------------------
(* reconcileValidationRoutes and deriveState.                              *)

\* The errors that are shown on a control.
Shown(s, id) == IF id \in DOMAIN s.routes THEN s.routes[id] ELSE {}

\* The errors of some owners that name a control.
Owned(s, owners, id) == {e \in UNION {OwnErrors(s, o) : o \in owners} : id \in e.names \ {e.owner}}

\* An error records the node that owns it.
LEMMA OwnErrorsFacts ==
  \A s, o : \A e \in OwnErrors(s, o) : e.owner = o /\ o \in DOMAIN s.nodes
BY DEF OwnErrors

\* Routing removes the errors of the owners and adds those they own now.
LEMMA ReconcileRoutesFacts ==
  ASSUME NEW s, GraphRecord(s), NEW owners
  PROVE  LET t == ReconcileRoutes(s, owners)
         IN  /\ GraphRecord(t) /\ t.nodes = s.nodes /\ t.children = s.children /\ t.controls = s.controls
             /\ \A id : Shown(t, id) = {e \in Shown(s, id) : e.owner \notin owners} \cup Owned(s, owners, id)
<1> DEFINE owned == UNION {OwnErrors(s, o) : o \in owners}
           routed(id) == {e \in Shown(s, id) : e.owner \notin owners} \cup Owned(s, owners, id)
           targets == DOMAIN s.routes \cup UNION {e.names : e \in owned}
           routes == [id \in {i \in targets : routed(i) # {}} |-> routed(id)]
           t == ReconcileRoutes(s, owners)
<1>1. t = [s EXCEPT !.routes = routes]
  BY DEF ReconcileRoutes, Shown, Owned
<1>2. ASSUME NEW id, id \notin targets PROVE routed(id) = {}
  <2>1. Shown(s, id) = {}
    BY <1>2 DEF Shown
  <2>2. Owned(s, owners, id) = {}
    BY <1>2 DEF Owned
  <2> QED BY <2>1, <2>2
<1>3. \A id : (IF id \in DOMAIN routes THEN routes[id] ELSE {}) = routed(id)
  <2> HIDE DEF targets, routed
  <2>1. \A id : (id \in targets /\ routed(id) # {}) => routes[id] = routed(id)
    OBVIOUS
  <2>2. DOMAIN routes = {i \in targets : routed(i) # {}}
    OBVIOUS
  <2> HIDE DEF routes
  <2> QED BY <1>2, <2>1, <2>2
<1> HIDE DEF t, routes, routed
<1>4. /\ GraphRecord(t) /\ t.nodes = s.nodes /\ t.children = s.children /\ t.controls = s.controls
      /\ t.routes = routes
  BY <1>1 DEF GraphRecord
<1>5. \A id : Shown(t, id) = routed(id)
  BY <1>3, <1>4 DEF Shown
<1> QED BY <1>4, <1>5 DEF t, routed

\* What is above nodes of a graph is in it.
LEMMA AffectedInside ==
  ASSUME NEW s, Graph(s), NEW changed, changed \subseteq AllIds
  PROVE  AffectedNodes(NamedParents(s), changed) \subseteq DOMAIN s.nodes
<1> DEFINE D == DOMAIN s.nodes
           up == NamedParents(s)
<1>1. PICK K \in Nat : \E rank : Ranks(s, K, rank)
  BY DEF Graph, GraphRanked
<1>2. PICK rank : Ranks(s, K, rank)
  BY <1>1
<1>3. /\ D \subseteq AllIds /\ DOMAIN up = D /\ \A id \in D : up[id] \in D \cup {None}
      /\ rank \in [D -> Nat] /\ \A id \in D : up[id] \in D => rank[up[id]] < rank[id]
  BY <1>2, ParentsKnown DEF Graph, GraphNodes, Ranks, NamedParents
<1> HIDE DEF up, D
<1>4. Up(up, D) \in [D -> SUBSET D]
  BY DEF Up
<1>5. \A id \in changed : Path(up, id) \subseteq D
  <2> TAKE id \in changed
  <2>1. Path(up, id) = IF id \in D THEN Reach(Up(up, D), id) ELSE {}
    <3>1. id \in AllIds \cup {None}
      OBVIOUS
    <3> QED BY <1>3, <3>1, PathIsReach
  <2>2. id \in D => Reach(Up(up, D), id) \subseteq D
    BY <1>4, ReachLeast
  <2> QED BY <2>1, <2>2
<1> QED BY <1>5 DEF AffectedNodes, up, D

\* Deriving keeps the indexes and what users typed; whose errors may have
\* changed is among the owners.
LEMMA DerivedKeeps ==
  ASSUME NEW s, Graph(s), NEW direct, direct \subseteq AllIds
  PROVE  LET t == Derived(s, direct).graph
             owners == Derived(s, direct).owners
         IN  /\ Graph(t) /\ SameTopology(s, t) /\ direct \subseteq owners
             /\ \A id \in DOMAIN s.nodes :
                  /\ t.nodes[id].own = s.nodes[id].own
                  /\ Leaf(s.nodes[id].def) => t.nodes[id].control.raw = s.nodes[id].control.raw
                  /\ id \notin owners => t.nodes[id] = s.nodes[id]
             /\ \A id : Shown(t, id) = {e \in Shown(s, id) : e.owner \notin owners} \cup Owned(t, owners, id)
<1> DEFINE disabled == ReconcileDisabled(s, direct)
           changed == direct \cup {id \in DOMAIN s.nodes : disabled.nodes[id] # s.nodes[id]}
           affected == AffectedNodes(NamedParents(s), changed)
           aggregated == RecomputeAggregates(disabled, affected)
           owners == changed \cup {id \in affected : Aggregate(s.nodes[id].def)}
           t == ReconcileRoutes(aggregated, owners)
<1>1. Derived(s, direct) = [graph |-> t, owners |-> owners]
  BY DEF Derived
<1> HIDE DEF disabled
<1>2. /\ SameTopology(s, disabled) /\ disabled.routes = s.routes
      /\ \A id \in DOMAIN s.nodes : Keeps(s.nodes[id], disabled.nodes[id])
  BY ReconcileDisabledKeeps DEF disabled
<1>3. Graph(disabled)
  BY <1>2, SameTopologyGraph
<1>4. affected \subseteq DOMAIN s.nodes
  <2>1. changed \subseteq AllIds
    BY DEF Graph, GraphNodes
  <2> HIDE DEF changed
  <2> QED BY <2>1, AffectedInside
<1> HIDE DEF changed, affected, aggregated
<1>5. /\ SameTopology(disabled, aggregated) /\ aggregated.routes = disabled.routes
      /\ \A id \in DOMAIN disabled.nodes :
           /\ aggregated.nodes[id].own = disabled.nodes[id].own
           /\ ~(id \in affected /\ Aggregate(disabled.nodes[id].def)) =>
                aggregated.nodes[id] = disabled.nodes[id]
  <2>1. affected \in SUBSET DOMAIN disabled.nodes
    BY <1>2, <1>4 DEF SameTopology
  <2> QED BY <1>3, <2>1, RecomputeAggregatesKeeps DEF aggregated
<1> HIDE DEF t, owners
<1>6. /\ GraphRecord(t) /\ t.nodes = aggregated.nodes
      /\ t.children = aggregated.children /\ t.controls = aggregated.controls
      /\ \A id : Shown(t, id) =
           {e \in Shown(aggregated, id) : e.owner \notin owners} \cup Owned(aggregated, owners, id)
  BY <1>5, ReconcileRoutesFacts DEF t, SameTopology
<1>7. SameTopology(s, t)
  BY <1>2, <1>5, <1>6 DEF SameTopology
<1>8. Graph(t)
  BY <1>7, SameTopologyGraph
<1>9. direct \subseteq owners
  BY DEF owners, changed
<1>10. ASSUME NEW id \in DOMAIN s.nodes
       PROVE  /\ t.nodes[id].own = s.nodes[id].own
              /\ Leaf(s.nodes[id].def) => t.nodes[id].control.raw = s.nodes[id].control.raw
              /\ id \notin owners => t.nodes[id] = s.nodes[id]
  <2>1. /\ id \in DOMAIN disabled.nodes /\ disabled.nodes[id].def = s.nodes[id].def
        /\ disabled.nodes[id].own = s.nodes[id].own
        /\ disabled.nodes[id].control.raw = s.nodes[id].control.raw
    BY <1>2 DEF SameTopology, Keeps
  <2>2. t.nodes[id] = aggregated.nodes[id] /\ t.nodes[id].own = s.nodes[id].own
    BY <1>5, <1>6, <2>1
  <2>3. Leaf(s.nodes[id].def) => aggregated.nodes[id] = disabled.nodes[id]
    BY <1>5, <2>1 DEF Leaf, Aggregate
  <2>4. id \notin owners => disabled.nodes[id] = s.nodes[id] /\ aggregated.nodes[id] = disabled.nodes[id]
    BY <1>5, <2>1 DEF owners, changed
  <2> QED BY <2>1, <2>2, <2>3, <2>4
<1>11. \A id : Shown(t, id) = {e \in Shown(s, id) : e.owner \notin owners} \cup Owned(t, owners, id)
  <2>1. \A id : Shown(aggregated, id) = Shown(s, id)
    BY <1>2, <1>5 DEF Shown
  <2>2. \A id : Owned(aggregated, owners, id) = Owned(t, owners, id)
    BY <1>6 DEF Owned, OwnErrors
  <2> QED BY <1>6, <2>1, <2>2
<1> QED BY <1>1, <1>7, <1>8, <1>9, <1>10, <1>11 DEF t, owners

\* What is shown on a control is what the controls of the graph own and name.
Routed(s) == \A id \in AllIds : Shown(s, id) = Owned(s, DOMAIN s.nodes, id)

\* The routes of a graph b are those of its nodes; then those that are derived
\* for a draft of it are again, when direct holds whose errors are not as in b.
LEMMA DerivedRouted ==
  ASSUME NEW s, Graph(s), NEW direct, direct \subseteq AllIds,
         NEW b, Routed(b), s.routes = b.routes,
         \A o : o \notin direct => OwnErrors(s, o) = OwnErrors(b, o)
  PROVE  Routed(Derived(s, direct).graph)
<1> DEFINE t == Derived(s, direct).graph
           owners == Derived(s, direct).owners
<1>1. /\ DOMAIN t.nodes = DOMAIN s.nodes /\ direct \subseteq owners
      /\ \A o \in DOMAIN s.nodes : o \notin owners => t.nodes[o] = s.nodes[o]
      /\ \A id : Shown(t, id) = {e \in Shown(s, id) : e.owner \notin owners} \cup Owned(t, owners, id)
  BY DerivedKeeps DEF SameTopology
<1> HIDE DEF t, owners
<1>2. \A o : o \notin owners => OwnErrors(t, o) = OwnErrors(b, o)
  <2> SUFFICES ASSUME NEW o, o \notin owners PROVE OwnErrors(t, o) = OwnErrors(s, o)
    BY <1>1
  <2> QED BY <1>1 DEF OwnErrors
<1>3. ASSUME NEW id \in AllIds PROVE Shown(t, id) = Owned(t, DOMAIN t.nodes, id)
  <2>1. Shown(s, id) = Owned(b, DOMAIN b.nodes, id)
    BY DEF Routed, Shown
  <2>2. \A o, e : e \in OwnErrors(t, o) => e.owner = o /\ o \in DOMAIN t.nodes
    BY OwnErrorsFacts
  <2>3. \A o, e : e \in OwnErrors(b, o) => e.owner = o /\ o \in DOMAIN b.nodes
    BY OwnErrorsFacts
  <2>4. \A e : e \in Owned(b, DOMAIN b.nodes, id) <=>
          /\ \E o \in DOMAIN b.nodes : e \in OwnErrors(b, o)
          /\ id \in e.names \ {e.owner}
    BY DEF Owned
  <2>5. \A e : e \in Owned(t, DOMAIN t.nodes, id) <=>
          /\ \E o \in DOMAIN t.nodes : e \in OwnErrors(t, o)
          /\ id \in e.names \ {e.owner}
    BY DEF Owned
  <2>6. \A e : e \in Owned(t, owners, id) <=>
          /\ \E o \in owners : e \in OwnErrors(t, o)
          /\ id \in e.names \ {e.owner}
    BY DEF Owned
  <2>7. \A e : e \in Shown(t, id) <=>
          (e \in Owned(b, DOMAIN b.nodes, id) /\ e.owner \notin owners) \/ e \in Owned(t, owners, id)
    BY <1>1, <2>1
  <2>8. \A e : e \in Shown(t, id) <=> e \in Owned(t, DOMAIN t.nodes, id)
    BY <1>2, <2>2, <2>3, <2>4, <2>5, <2>6, <2>7
  <2> QED BY <2>8 DEF Owned, Shown
<1> QED BY <1>3 DEF Routed, t

-----------------------------------------------------------------------------
(* Commands.  A command makes a draft of the graph, which is a graph, and  *)
(* keeps what was typed but for some nodes.                                *)

Typed(id) == Leaf(Node(id).def) /\ Node(id).control.dirty

\* A draft keeps the edits of all nodes but those of X.
KeepsEdits(s, X) ==
  \A id \in (DOMAIN state.nodes \cap DOMAIN s.nodes) \ X :
    Leaf(Node(id).def) /\ Node(id).control.dirty =>
      Leaf(s.nodes[id].def) /\ s.nodes[id].control.raw = Node(id).control.raw

Draft(s, X) == Graph(s) /\ s.routes = state.routes /\ KeepsEdits(s, X)

\* The step commits what is derived for a draft.
Commits(X) == \E s, fresh : Draft(s, X) /\ fresh \subseteq AllIds /\ Transact(s, fresh)

\* The invariant: the graph is one, and its routes are those of its nodes.
StoreInv ==
  /\ used \subseteq Requests
  /\ Graph(state)
  /\ Routed(state)

\* A committed draft is a graph in which what was typed is kept.
LEMMA CommitsGraph ==
  ASSUME NEW X, Commits(X)
  PROVE  /\ Graph(state')
         /\ \A id \in (DOMAIN state.nodes \cap DOMAIN state'.nodes) \ X :
              Leaf(Node(id).def) /\ Node(id).control.dirty =>
                state'.nodes[id].control.raw = Node(id).control.raw
<1>1. PICK s, fresh : Draft(s, X) /\ fresh \subseteq AllIds /\ Transact(s, fresh)
  BY DEF Commits
<1> DEFINE direct == Differing(s) \cup fresh
<1>2. direct \subseteq AllIds
  BY <1>1 DEF Differing
<1>3. state' = Derived(s, direct).graph
  BY <1>1 DEF Transact
<1> HIDE DEF direct
<1>4. /\ Graph(state') /\ SameTopology(s, state')
      /\ \A id \in DOMAIN s.nodes :
           Leaf(s.nodes[id].def) => state'.nodes[id].control.raw = s.nodes[id].control.raw
  BY <1>1, <1>2, <1>3, DerivedKeeps DEF Draft
<1>5. DOMAIN state'.nodes = DOMAIN s.nodes
  BY <1>4 DEF SameTopology
<1> QED BY <1>1, <1>4, <1>5 DEF Draft, KeepsEdits

\* A committed draft shows the errors that its controls own.
LEMMA CommitsRouted ==
  ASSUME NEW X, Commits(X), Graph(state), Routed(state)
  PROVE  Routed(state')
<1>1. PICK s, fresh : Draft(s, X) /\ fresh \subseteq AllIds /\ Transact(s, fresh)
  BY DEF Commits
<1> DEFINE direct == Differing(s) \cup fresh
<1>2. direct \subseteq AllIds
  BY <1>1 DEF Differing
<1>3. state' = Derived(s, direct).graph
  BY <1>1 DEF Transact
<1>4. Graph(s) /\ s.routes = state.routes
  BY <1>1 DEF Draft
<1>5. \A o : o \notin direct => OwnErrors(s, o) = OwnErrors(state, o)
  <2> SUFFICES ASSUME NEW o, o \notin Differing(s) PROVE OwnErrors(s, o) = OwnErrors(state, o)
    OBVIOUS
  <2>1. CASE o \in AllIds
    <3>1. (o \in DOMAIN s.nodes <=> o \in DOMAIN state.nodes)
          /\ (o \in DOMAIN s.nodes => s.nodes[o] = state.nodes[o])
      BY <2>1 DEF Differing
    <3> QED BY <3>1 DEF OwnErrors
  <2>2. CASE o \notin AllIds
    <3>1. o \notin DOMAIN s.nodes /\ o \notin DOMAIN state.nodes
      BY <1>4, <2>2 DEF Graph, GraphNodes
    <3> QED BY <3>1 DEF OwnErrors
  <2> QED BY <2>1, <2>2
<1> HIDE DEF direct
<1> QED BY <1>2, <1>3, <1>4, <1>5, DerivedRouted

-----------------------------------------------------------------------------
(* Commands on controls: nodes change in place.                            *)

\* A graph with one other node of the same definition.
LEMMA PutGraph ==
  ASSUME NEW s, Graph(s), NEW id \in DOMAIN s.nodes,
         NEW node, NodeRecord(node), OwnsErrors(node), node.def = s.nodes[id].def
  PROVE  LET t == [s EXCEPT !.nodes[id] = node]
         IN  /\ Graph(t) /\ t.routes = s.routes /\ DOMAIN t.nodes = DOMAIN s.nodes
             /\ \A i \in DOMAIN s.nodes : t.nodes[i] = IF i = id THEN node ELSE s.nodes[i]
<1> DEFINE t == [s EXCEPT !.nodes[id] = node]
<1>1. GraphRecord(s) /\ \A i \in DOMAIN s.nodes : NodeRecord(s.nodes[i]) /\ OwnsErrors(s.nodes[i])
  BY DEF Graph, GraphNodes
<1>2. /\ GraphRecord(t) /\ t.children = s.children /\ t.controls = s.controls /\ t.routes = s.routes
      /\ DOMAIN t.nodes = DOMAIN s.nodes
      /\ \A i \in DOMAIN s.nodes : t.nodes[i] = IF i = id THEN node ELSE s.nodes[i]
  BY <1>1 DEF GraphRecord
<1> HIDE DEF t
<1>3. SameTopology(s, t)
  BY <1>1, <1>2 DEF SameTopology
<1>4. Graph(t)
  BY <1>3, SameTopologyGraph
<1> QED BY <1>2, <1>4 DEF t

\* A node with another control.
LEMMA FieldsNode ==
  ASSUME NEW n, NodeRecord(n), NEW c, ControlRecord(c),
         c.status \in NodeStatuses, c.request \in Requests \cup {None}
  PROVE  LET m == [n EXCEPT !.control = c]
         IN  /\ NodeRecord(m) /\ m.def = n.def /\ m.control = c /\ m.disabled = n.disabled /\ m.own = n.own
             /\ (Leaf(n.def) => \A e \in c.errors : e.owner = n.def.id) => OwnsErrors(m)
BY DEF NodeRecord, OwnsErrors

\* Putting a node whose edit is kept, or which is among X, is a draft.
LEMMA PutDraft ==
  ASSUME Graph(state), NEW id \in DOMAIN state.nodes, NEW X,
         NEW node, NodeRecord(node), OwnsErrors(node), node.def = Node(id).def,
         id \in X \/ node.control.raw = Node(id).control.raw
  PROVE  Draft(Put(state, id, node), X) /\ DOMAIN Put(state, id, node).nodes = DOMAIN state.nodes
<1> DEFINE t == Put(state, id, node)
<1>1. /\ Graph(t) /\ t.routes = state.routes /\ DOMAIN t.nodes = DOMAIN state.nodes
      /\ \A i \in DOMAIN state.nodes : t.nodes[i] = IF i = id THEN node ELSE state.nodes[i]
  BY PutGraph DEF Put, Node
<1> HIDE DEF t
<1>2. KeepsEdits(t, X)
  BY <1>1 DEF KeepsEdits, Node
<1> QED BY <1>1, <1>2 DEF Draft, t

\* The unchanged graph is a draft.
LEMMA SameDraft ==
  ASSUME Graph(state), NEW X
  PROVE  Draft(state, X)
BY DEF Draft, KeepsEdits, Node

\* So is a draft whose disablement is reconciled.
LEMMA ReconcileDisabledDraft ==
  ASSUME NEW s, NEW X, Draft(s, X), NEW roots
  PROVE  Draft(ReconcileDisabled(s, roots), X)
<1> DEFINE t == ReconcileDisabled(s, roots)
<1>1. /\ SameTopology(s, t) /\ t.routes = s.routes
      /\ \A id \in DOMAIN s.nodes : Keeps(s.nodes[id], t.nodes[id])
  BY ReconcileDisabledKeeps DEF Draft
<1> HIDE DEF t
<1>2. Graph(t)
  BY <1>1, SameTopologyGraph DEF Draft
<1>3. KeepsEdits(t, X)
  BY <1>1 DEF Draft, KeepsEdits, SameTopology, Keeps
<1> QED BY <1>1, <1>2, <1>3 DEF Draft, t

\* A node of the graph and its control, as a command finds them.
LEMMA NodesOfState ==
  ASSUME Graph(state), NEW id, Has(id)
  PROVE  /\ id \in AllIds /\ id \in DOMAIN state.nodes
         /\ NodeRecord(Node(id)) /\ ControlRecord(Node(id).control)
         /\ Node(id).def.id = id
         /\ Leaf(Node(id).def) => \A e \in Node(id).control.errors : e.owner = id
BY DEF Graph, GraphNodes, Has, Node, NodeRecord, OwnsErrors

LEMMA SetValueCommits ==
  ASSUME Graph(state), NEW id, NEW v, SetValue(id, v)
  PROVE  Commits({id}) /\ UNCHANGED used
<1> DEFINE typed == [Node(id).control EXCEPT !.raw = v, !.dirty = TRUE]
           valued == [typed EXCEPT !.value = v]
<1>1. /\ id \in AllIds /\ id \in DOMAIN state.nodes
      /\ NodeRecord(Node(id)) /\ ControlRecord(Node(id).control) /\ Node(id).def.id = id
      /\ Leaf(Node(id).def) => \A e \in Node(id).control.errors : e.owner = id
  BY NodesOfState DEF SetValue, IsControl
<1>2. /\ ControlRecord(typed) /\ typed.status \in NodeStatuses /\ typed.request \in Requests \cup {None}
      /\ ControlRecord(valued) /\ valued.status \in NodeStatuses /\ valued.request \in Requests \cup {None}
      /\ typed.errors = Node(id).control.errors
  BY <1>1 DEF NodeRecord, ControlRecord
<1>3. \/ Transact(Put(state, id, Validating(Fields(id, valued))), {id})
      \/ Transact(Put(state, id, Fields(id, typed)), {})
  BY DEF SetValue
<1> HIDE DEF typed, valued
<1>4. /\ NodeRecord(Fields(id, typed)) /\ Fields(id, typed).def = Node(id).def
      /\ OwnsErrors(Fields(id, typed))
      /\ NodeRecord(Fields(id, valued)) /\ Fields(id, valued).def = Node(id).def
  BY <1>1, <1>2, FieldsNode DEF Fields
<1>5. /\ NodeRecord(Validating(Fields(id, valued))) /\ Validating(Fields(id, valued)).def = Node(id).def
      /\ OwnsErrors(Validating(Fields(id, valued)))
  BY <1>4, ValidatedKeeps DEF Keeps
<1>6. Draft(Put(state, id, Fields(id, typed)), {id})
  BY <1>1, <1>4, PutDraft
<1>7. Draft(Put(state, id, Validating(Fields(id, valued))), {id})
  BY <1>1, <1>5, PutDraft
<1>8. Commits({id})
  BY <1>1, <1>3, <1>6, <1>7 DEF Commits
<1> QED BY <1>8 DEF SetValue

\* Several nodes at once.
LEMMA OverDraft ==
  ASSUME Graph(state), NEW W \in SUBSET DOMAIN state.nodes, NEW X,
         NEW h, DOMAIN h = W,
         \A id \in W : /\ NodeRecord(h[id]) /\ OwnsErrors(h[id]) /\ h[id].def = Node(id).def
                       /\ id \in X \/ h[id].control.raw = Node(id).control.raw
  PROVE  Draft([state EXCEPT !.nodes = Over(h, @)], X)
<1> DEFINE t == [state EXCEPT !.nodes = Over(h, @)]
<1>1. GraphRecord(state) /\ \A i \in DOMAIN state.nodes : NodeRecord(state.nodes[i]) /\ OwnsErrors(state.nodes[i])
  BY DEF Graph, GraphNodes
<1>2. /\ GraphRecord(t) /\ t.children = state.children /\ t.controls = state.controls
      /\ t.routes = state.routes /\ t.nodes = Over(h, state.nodes)
  BY <1>1 DEF GraphRecord
<1>3. /\ DOMAIN t.nodes = DOMAIN state.nodes
      /\ \A i \in DOMAIN state.nodes : t.nodes[i] = IF i \in W THEN h[i] ELSE state.nodes[i]
  BY <1>2 DEF Over
<1> HIDE DEF t
<1>4. SameTopology(state, t)
  BY <1>1, <1>2, <1>3 DEF SameTopology, Node
<1>5. Graph(t)
  BY <1>4, SameTopologyGraph
<1>6. KeepsEdits(t, X)
  BY <1>3 DEF KeepsEdits, Node
<1> QED BY <1>2, <1>5, <1>6 DEF Draft, t

\* The controls a form resets or submits are nodes of the graph.
LEMMA ControlsBelowInside ==
  ASSUME Graph(state), NEW f
  PROVE  /\ ControlsBelow(f) \subseteq DOMAIN state.nodes /\ ControlsBelow(f) \subseteq AllIds
         /\ \A id \in ControlsBelow(f) :
              NodeRecord(Node(id)) /\ ControlRecord(Node(id).control) /\ OwnsErrors(Node(id))
BY BelowInside, NodesOfState DEF ControlsBelow, IsControl, OwnsErrors

LEMMA MarkTouchedCommits ==
  ASSUME Graph(state), NEW id, MarkTouched(id)
  PROVE  Commits({}) /\ UNCHANGED used
<1> DEFINE control == Node(id).control
           blurred == [control EXCEPT !.value = control.raw]
           committed == IF Node(id).def.updateOn = "blur" THEN blurred ELSE control
<1>1. /\ id \in AllIds /\ id \in DOMAIN state.nodes
      /\ NodeRecord(Node(id)) /\ ControlRecord(Node(id).control) /\ Node(id).def.id = id
      /\ Leaf(Node(id).def) => \A e \in Node(id).control.errors : e.owner = id
  BY NodesOfState DEF MarkTouched, IsControl
<1>2. /\ ControlRecord(committed) /\ committed.status \in NodeStatuses
      /\ committed.request \in Requests \cup {None} /\ committed.raw = Node(id).control.raw
  BY <1>1 DEF NodeRecord, ControlRecord
<1>3. Transact(state, {id}) \/ Transact(Put(state, id, Validating(Fields(id, committed))), {id})
  BY DEF MarkTouched
<1> HIDE DEF committed
<1>4. /\ NodeRecord(Fields(id, committed)) /\ Fields(id, committed).def = Node(id).def
      /\ Fields(id, committed).control.raw = Node(id).control.raw
  BY <1>1, <1>2, FieldsNode DEF Fields
<1>5. /\ NodeRecord(Validating(Fields(id, committed))) /\ Validating(Fields(id, committed)).def = Node(id).def
      /\ Validating(Fields(id, committed)).control.raw = Node(id).control.raw
      /\ OwnsErrors(Validating(Fields(id, committed)))
  BY <1>4, ValidatedKeeps DEF Keeps
<1>6. Draft(Put(state, id, Validating(Fields(id, committed))), {})
  BY <1>1, <1>5, PutDraft
<1>7. Commits({})
  BY <1>1, <1>3, <1>6, SameDraft DEF Commits
<1> QED BY <1>7 DEF MarkTouched

LEMMA ResetCommits ==
  ASSUME Graph(state), NEW f, Reset(f)
  PROVE  Commits(ControlsBelow(f)) /\ UNCHANGED used
<1> DEFINE W == ControlsBelow(f)
           h == [id \in W |-> ResetControl(Node(id))]
<1>1. /\ W \in SUBSET DOMAIN state.nodes /\ W \subseteq AllIds
      /\ \A id \in W : NodeRecord(Node(id)) /\ ControlRecord(Node(id).control) /\ OwnsErrors(Node(id))
  BY ControlsBelowInside
<1>2. ASSUME NEW id \in W PROVE NodeRecord(h[id]) /\ OwnsErrors(h[id]) /\ h[id].def = Node(id).def
  <2> DEFINE blank == [Node(id).control EXCEPT !.value = Blank(Node(id).def).value,
                         !.raw = Blank(Node(id).def).raw, !.dirty = FALSE]
             n == [Node(id) EXCEPT !.control = blank]
  <2>1. /\ ControlRecord(blank) /\ blank.status \in NodeStatuses /\ blank.request \in Requests \cup {None}
    BY <1>1, <1>2 DEF NodeRecord, ControlRecord
  <2>2. NodeRecord(n) /\ n.def = Node(id).def
    <3> HIDE DEF blank
    <3> QED BY <1>1, <1>2, <2>1, FieldsNode
  <2>3. h[id] = Validating(n)
    BY <1>2 DEF ResetControl
  <2> HIDE DEF n, h
  <2> QED BY <2>2, <2>3, ValidatedKeeps DEF Keeps
<1>3. Transact([state EXCEPT !.nodes = Over(h, @)], W)
  BY DEF Reset, PutBelow
<1> HIDE DEF W
<1>4. DOMAIN h = W
  OBVIOUS
<1> HIDE DEF h
<1>5. Draft([state EXCEPT !.nodes = Over(h, @)], W)
  BY <1>1, <1>2, <1>4, OverDraft
<1>6. Commits(W)
  BY <1>1, <1>3, <1>5 DEF Commits
<1> QED BY <1>6 DEF Reset, W

LEMMA SubmitCommits ==
  ASSUME Graph(state), NEW f, Submit(f)
  PROVE  Commits({}) /\ UNCHANGED used
<1> DEFINE W == ControlsBelow(f)
           h == [id \in W |-> SubmitControl(Node(id))]
           fresh == {id \in W : ~Node(id).disabled}
<1>1. /\ W \in SUBSET DOMAIN state.nodes /\ W \subseteq AllIds
      /\ \A id \in W : NodeRecord(Node(id)) /\ ControlRecord(Node(id).control) /\ OwnsErrors(Node(id))
  BY ControlsBelowInside
<1>2. ASSUME NEW id \in W
      PROVE  /\ NodeRecord(h[id]) /\ OwnsErrors(h[id])
             /\ h[id].def = Node(id).def /\ h[id].control.raw = Node(id).control.raw
  <2> DEFINE committed == [Node(id).control EXCEPT !.value =
                             IF Node(id).def.updateOn = "submit" THEN Node(id).control.raw ELSE @]
             n == [Node(id) EXCEPT !.control = committed]
  <2>1. /\ ControlRecord(committed) /\ committed.status \in NodeStatuses
        /\ committed.request \in Requests \cup {None} /\ committed.raw = Node(id).control.raw
    BY <1>1, <1>2 DEF NodeRecord, ControlRecord
  <2>2. NodeRecord(n) /\ n.def = Node(id).def /\ n.control.raw = Node(id).control.raw
    <3> HIDE DEF committed
    <3> QED BY <1>1, <1>2, <2>1, FieldsNode
  <2>3. h[id] = Node(id) \/ h[id] = Validating(n)
    BY <1>2 DEF SubmitControl
  <2> HIDE DEF n, h
  <2>4. Keeps(n, Validating(n)) /\ OwnsErrors(Validating(n))
    BY <2>2, ValidatedKeeps
  <2> QED BY <1>1, <1>2, <2>2, <2>3, <2>4 DEF Keeps
<1>3. Transact([state EXCEPT !.nodes = Over(h, @)], fresh)
  BY DEF Submit, PutBelow
<1>4. fresh \subseteq AllIds
  BY <1>1
<1> HIDE DEF W, fresh
<1>5. DOMAIN h = W
  OBVIOUS
<1> HIDE DEF h
<1>6. Draft([state EXCEPT !.nodes = Over(h, @)], {})
  BY <1>1, <1>2, <1>5, OverDraft
<1>7. Commits({})
  BY <1>3, <1>4, <1>6 DEF Commits
<1> QED BY <1>7 DEF Submit

\* Setting the own disablement of nodes makes a draft.
LEMMA OwnDisabledDraft ==
  ASSUME Graph(state), NEW id, Has(id), NEW b \in BOOLEAN
  PROVE  /\ Draft(OwnDisabled(id, b), {})
         /\ id \in DOMAIN OwnDisabled(id, b).nodes
<1> DEFINE node == [Node(id) EXCEPT !.own = b]
<1>1. /\ id \in AllIds /\ id \in DOMAIN state.nodes /\ NodeRecord(Node(id)) /\ Node(id).def.id = id
      /\ Leaf(Node(id).def) => \A e \in Node(id).control.errors : e.owner = id
  BY NodesOfState
<1>2. /\ NodeRecord(node) /\ OwnsErrors(node)
      /\ node.def = Node(id).def /\ node.control.raw = Node(id).control.raw
  BY <1>1 DEF NodeRecord, OwnsErrors
<1> HIDE DEF node
<1>3. Draft(Put(state, id, node), {}) /\ DOMAIN Put(state, id, node).nodes = DOMAIN state.nodes
  BY <1>1, <1>2, PutDraft
<1>4. OwnDisabled(id, b) = ReconcileDisabled(Put(state, id, node), {id})
  BY DEF OwnDisabled, node
<1>5. DOMAIN ReconcileDisabled(Put(state, id, node), {id}).nodes = DOMAIN state.nodes
  BY <1>3, ReconcileDisabledKeeps DEF Draft, SameTopology
<1> QED BY <1>1, <1>3, <1>4, <1>5, ReconcileDisabledDraft

LEMMA SetDisabledCommits ==
  ASSUME Graph(state), NEW id, NEW b \in BOOLEAN, SetDisabled(id, b)
  PROVE  Commits({}) /\ UNCHANGED used
BY OwnDisabledDraft DEF SetDisabled, Commits

LEMMA PatchPropertiesCommits ==
  ASSUME Graph(state), NEW id, PatchProperties(id)
  PROVE  Commits({}) /\ UNCHANGED used
BY NodesOfState, SameDraft DEF PatchProperties, Commits

LEMMA SetStatusCommits ==
  ASSUME Graph(state), NEW id, NEW status \in Statuses, SetStatus(id, status)
  PROVE  Commits({}) /\ UNCHANGED used
<1> DEFINE s == OwnDisabled(id, status = "disabled")
           control == [s.nodes[id].control EXCEPT !.status = status, !.pending = status = "pending"]
           node == [s.nodes[id] EXCEPT !.control = control]
           t == [s EXCEPT !.nodes[id] = node]
<1>1. Draft(s, {}) /\ id \in DOMAIN s.nodes
  <2>1. (status = "disabled") \in BOOLEAN
    OBVIOUS
  <2> QED BY <2>1, OwnDisabledDraft DEF SetStatus, IsControl
<1>2. Transact(s, {}) \/ Transact(t, {})
  <2>1. Transact(IF status = "disabled" THEN s ELSE [s EXCEPT !.nodes[id].control = control], {})
    BY DEF SetStatus
  <2> HIDE DEF s, control
  <2>2. [s EXCEPT !.nodes[id].control = control] = t
    OBVIOUS
  <2> HIDE DEF t
  <2> QED BY <2>1, <2>2
<1> HIDE DEF s
<1>3. NodeRecord(s.nodes[id]) /\ OwnsErrors(s.nodes[id])
  BY <1>1 DEF Draft, Graph, GraphNodes
<1>4. /\ ControlRecord(control) /\ control.status \in NodeStatuses
      /\ control.request \in Requests \cup {None} /\ control.raw = s.nodes[id].control.raw
      /\ control.errors = s.nodes[id].control.errors
  BY <1>3, NodeStoreAssumption DEF NodeRecord, ControlRecord
<1> HIDE DEF control
<1>5. /\ NodeRecord(node) /\ OwnsErrors(node)
      /\ node.def = s.nodes[id].def /\ node.control.raw = s.nodes[id].control.raw
  BY <1>3, <1>4, FieldsNode DEF OwnsErrors
<1> HIDE DEF node
<1>6. /\ Graph(t) /\ t.routes = s.routes /\ DOMAIN t.nodes = DOMAIN s.nodes
      /\ \A i \in DOMAIN s.nodes : t.nodes[i] = IF i = id THEN node ELSE s.nodes[i]
  BY <1>1, <1>5, PutGraph DEF Draft
<1> HIDE DEF t
<1>7. Draft(t, {})
  BY <1>1, <1>5, <1>6 DEF Draft, KeepsEdits
<1>8. Commits({})
  BY <1>1, <1>2, <1>7 DEF Commits
<1> QED BY <1>8 DEF SetStatus

LEMMA StartCommits ==
  ASSUME Graph(state), NEW id, NEW r, Start(id, r)
  PROVE  Commits({}) /\ r \in Requests /\ used' = used \cup {r}
<1> DEFINE control == [Node(id).control EXCEPT !.errors = WithoutAsync(@), !.pending = TRUE,
                                              !.status = "pending", !.request = r]
<1>1. /\ id \in AllIds /\ id \in DOMAIN state.nodes
      /\ NodeRecord(Node(id)) /\ ControlRecord(Node(id).control) /\ Node(id).def.id = id
      /\ Leaf(Node(id).def) => \A e \in Node(id).control.errors : e.owner = id
  BY NodesOfState DEF Start, IsControl
<1>2. r \in Requests /\ Transact(Put(state, id, Fields(id, control)), {id})
  BY DEF Start
<1>3. /\ ControlRecord(control) /\ control.status \in NodeStatuses
      /\ control.request \in Requests \cup {None} /\ control.raw = Node(id).control.raw
      /\ control.errors \subseteq Node(id).control.errors
  BY <1>1, <1>2 DEF NodeRecord, ControlRecord, NodeStatuses, WithoutAsync
<1> HIDE DEF control
<1>4. /\ NodeRecord(Fields(id, control)) /\ Fields(id, control).def = Node(id).def
      /\ Fields(id, control).control.raw = Node(id).control.raw /\ OwnsErrors(Fields(id, control))
  BY <1>1, <1>3, FieldsNode DEF Fields
<1>5. Draft(Put(state, id, Fields(id, control)), {})
  BY <1>1, <1>4, PutDraft
<1>6. Commits({})
  BY <1>1, <1>2, <1>5 DEF Commits
<1> QED BY <1>2, <1>6 DEF Start

LEMMA ResolveCommits ==
  ASSUME Graph(state), NEW id, NEW errors, Resolve(id, errors)
  PROVE  Commits({}) /\ UNCHANGED used
<1> DEFINE control == Answered(id, errors)
<1>1. /\ id \in AllIds /\ id \in DOMAIN state.nodes
      /\ NodeRecord(Node(id)) /\ ControlRecord(Node(id).control) /\ Node(id).def.id = id
      /\ Leaf(Node(id).def) => \A e \in Node(id).control.errors : e.owner = id
  BY NodesOfState DEF Resolve, IsControl
<1>2. Transact(Put(state, id, Fields(id, control)), {id})
  BY DEF Resolve
<1>3. \A all : Verdict(all) \in {"valid", "invalid"}
  BY DEF Verdict
<1>4. /\ ControlRecord(control) /\ control.status \in NodeStatuses
      /\ control.request \in Requests \cup {None} /\ control.raw = Node(id).control.raw
  BY <1>1, <1>3 DEF Answered, NodeRecord, ControlRecord, NodeStatuses
<1>7. Leaf(Node(id).def) => \A e \in control.errors : e.owner = Node(id).def.id
  <2>1. control.errors = WithoutAsync(Node(id).control.errors) \cup errors
    BY <1>1 DEF Answered, ControlRecord
  <2>2. \A e \in errors : e.owner = Node(id).def.id
    BY DEF Resolve, Error
  <2> QED BY <1>1, <2>1, <2>2 DEF WithoutAsync
<1> HIDE DEF control
<1>5. /\ NodeRecord(Fields(id, control)) /\ Fields(id, control).def = Node(id).def
      /\ Fields(id, control).control.raw = Node(id).control.raw /\ OwnsErrors(Fields(id, control))
  BY <1>1, <1>4, <1>7, FieldsNode DEF Fields
<1>6. Draft(Put(state, id, Fields(id, control)), {})
  BY <1>1, <1>5, PutDraft
<1>8. Commits({})
  BY <1>1, <1>2, <1>6 DEF Commits
<1> QED BY <1>8 DEF Resolve

-----------------------------------------------------------------------------
(* Lists of siblings.                                                      *)

\* A list with one element more.
LEMMA InsertAtFacts ==
  ASSUME NEW T, NEW q \in Seq(T), NEW x \in T, NEW i \in 1..Len(q) + 1
  PROVE  /\ InsertAt(q, i, x) \in Seq(T) /\ Len(InsertAt(q, i, x)) = Len(q) + 1
         /\ Range(InsertAt(q, i, x)) = Range(q) \cup {x}
         /\ IsInjective(q) /\ x \notin Range(q) => IsInjective(InsertAt(q, i, x))
<1> DEFINE p == InsertAt(q, i, x)
           a == SubSeq(q, 1, i - 1)
           b == SubSeq(q, i, Len(q))
<1>1. Len(q) \in Nat /\ i \in Nat
  OBVIOUS
<1>2. /\ a \in Seq(T) /\ Len(a) = i - 1 /\ \A j \in 1..i - 1 : a[j] = q[j]
      /\ b \in Seq(T) /\ Len(b) = Len(q) - i + 1 /\ \A j \in 1..Len(q) - i + 1 : b[j] = q[i + j - 1]
  BY <1>1
<1>3. p = a \o <<x>> \o b
  BY DEF InsertAt
<1> HIDE DEF p, a, b
<1>4. /\ p \in Seq(T) /\ Len(p) = Len(q) + 1
      /\ \A j \in 1..Len(q) + 1 : p[j] = IF j < i THEN q[j] ELSE IF j = i THEN x ELSE q[j - 1]
  <2> DEFINE ax == a \o <<x>>
  <2>1. <<x>> \in Seq(T) /\ Len(<<x>>) = 1 /\ <<x>>[1] = x
    OBVIOUS
  <2>3. /\ ax \in Seq(T) /\ Len(ax) = i
        /\ \A k \in 1..i : ax[k] = IF k <= i - 1 THEN a[k] ELSE <<x>>[k - (i - 1)]
    <3>1. /\ a \o <<x>> \in Seq(T) /\ Len(a \o <<x>>) = Len(a) + Len(<<x>>)
          /\ \A k \in 1..Len(a) + Len(<<x>>) :
               (a \o <<x>>)[k] = IF k <= Len(a) THEN a[k] ELSE <<x>>[k - Len(a)]
      BY <1>2, <2>1, ConcatProperties
    <3>2. Len(a) = i - 1 /\ Len(a) + Len(<<x>>) = i
      BY <1>1, <1>2, <2>1
    <3> QED BY <3>1, <3>2
  <2>4. ax[i] = x /\ \A k \in 1..i - 1 : ax[k] = q[k]
    <3>1. ~(i <= i - 1) /\ i - (i - 1) = 1 /\ i \in 1..i
      BY <1>1
    <3>2. \A k \in 1..i - 1 : k \in 1..i /\ k <= i - 1
      BY <1>1
    <3> QED BY <1>2, <2>1, <2>3, <3>1, <3>2
  <2> HIDE DEF ax
  <2>5. /\ p \in Seq(T) /\ Len(p) = Len(q) + 1
        /\ \A k \in 1..Len(q) + 1 : p[k] = IF k <= i THEN ax[k] ELSE b[k - i]
    <3>1. /\ ax \o b \in Seq(T) /\ Len(ax \o b) = Len(ax) + Len(b)
          /\ \A k \in 1..Len(ax) + Len(b) : (ax \o b)[k] = IF k <= Len(ax) THEN ax[k] ELSE b[k - Len(ax)]
      BY <1>2, <2>3, ConcatProperties
    <3>2. p = ax \o b
      BY <1>3 DEF ax
    <3>3. Len(ax) + Len(b) = Len(q) + 1
      BY <1>1, <1>2, <2>3
    <3> QED BY <2>3, <3>1, <3>2, <3>3
  <2>2. ASSUME NEW j \in 1..Len(q) + 1
        PROVE  p[j] = IF j < i THEN q[j] ELSE IF j = i THEN x ELSE q[j - 1]
    <3>1. CASE j <= i
      BY <1>1, <2>4, <2>5, <3>1
    <3>2. CASE j > i
      <4>1. p[j] = b[j - i]
        BY <1>1, <2>5, <3>2
      <4>2. j - i \in 1..Len(q) - i + 1 /\ i + (j - i) - 1 = j - 1
        BY <1>1, <3>2
      <4>3. b[j - i] = q[j - 1]
        BY <1>2, <4>2
      <4> QED BY <1>1, <3>2, <4>1, <4>3
    <3> QED BY <1>1, <3>1, <3>2
  <2> QED BY <2>2, <2>5
<1>5. Range(p) = Range(q) \cup {x}
  <2>1. DOMAIN p = 1..Len(q) + 1 /\ DOMAIN q = 1..Len(q)
    BY <1>4
  <2>2. ASSUME NEW j \in 1..Len(q) + 1 PROVE p[j] \in Range(q) \cup {x}
    <3>1. j < i => j \in 1..Len(q)
      BY <1>1
    <3>2. j > i => j - 1 \in 1..Len(q)
      BY <1>1
    <3>3. CASE j < i
      <4>1. p[j] = q[j] /\ j \in DOMAIN q
        BY <1>4, <2>1, <3>1, <3>3
      <4> QED BY <4>1 DEF Range
    <3>4. CASE j = i
      BY <1>4, <3>4
    <3>5. CASE j > i
      <4>1. p[j] = q[j - 1] /\ j - 1 \in DOMAIN q
        BY <1>1, <1>4, <2>1, <3>2, <3>5
      <4> QED BY <4>1 DEF Range
    <3> QED BY <1>1, <3>3, <3>4, <3>5
  <2>3. x \in Range(p)
    BY <1>4, <2>1 DEF Range
  <2>4. ASSUME NEW j \in 1..Len(q) PROVE q[j] \in Range(p)
    <3>1. CASE j < i
      BY <1>1, <1>4, <2>1, <3>1 DEF Range
    <3>2. CASE ~(j < i)
      <4>1. j + 1 \in 1..Len(q) + 1 /\ p[j + 1] = q[j]
        BY <1>1, <1>4, <3>2
      <4> QED BY <2>1, <4>1 DEF Range
    <3> QED BY <3>1, <3>2
  <2> QED BY <2>1, <2>2, <2>3, <2>4 DEF Range
<1>6. ASSUME IsInjective(q), x \notin Range(q) PROVE IsInjective(p)
  <2>1. DOMAIN p = 1..Len(q) + 1 /\ DOMAIN q = 1..Len(q)
    BY <1>4
  <2>2. \A j \in 1..Len(q) : q[j] # x
    BY <1>6, <2>1 DEF Range
  <2>3. \A j, k \in 1..Len(q) : q[j] = q[k] => j = k
    BY <1>6, <2>1 DEF IsInjective
  <2> SUFFICES ASSUME NEW j \in 1..Len(q) + 1, NEW k \in 1..Len(q) + 1, p[j] = p[k] PROVE j = k
    BY <2>1 DEF IsInjective
  <2> DEFINE from(m) == IF m < i THEN m ELSE m - 1
  <2>4. /\ j # i => from(j) \in 1..Len(q) /\ p[j] = q[from(j)]
        /\ k # i => from(k) \in 1..Len(q) /\ p[k] = q[from(k)]
    BY <1>1, <1>4
  <2>5. (j = i => p[j] = x) /\ (k = i => p[k] = x)
    BY <1>4
  <2>6. (j = i) <=> (k = i)
    BY <2>2, <2>4, <2>5
  <2>7. CASE j # i /\ k # i
    <3>1. from(j) = from(k)
      <4> HIDE DEF from
      <4> QED BY <2>3, <2>4, <2>7
    <3> QED BY <1>1, <2>7, <3>1
  <2> QED BY <2>6, <2>7
<1> QED BY <1>4, <1>5, <1>6 DEF p

\* A list without one of its elements.
LEMMA DetachedFacts ==
  ASSUME NEW T, NEW q \in Seq(T), IsInjective(q), NEW x
  PROVE  /\ Detached(q, x) \in Seq(T) /\ IsInjective(Detached(q, x))
         /\ Range(Detached(q, x)) = Range(q) \ {x}
         /\ x \in Range(q) => Len(Detached(q, x)) = Len(q) - 1
<1>1. CASE x \notin Range(q)
  BY <1>1 DEF Detached
<1>2. CASE x \in Range(q)
  <2> DEFINE k == CHOOSE k \in DOMAIN q : q[k] = x
             p == Detached(q, x)
             a == SubSeq(q, 1, k - 1)
             b == SubSeq(q, k + 1, Len(q))
  <2>1. k \in DOMAIN q /\ q[k] = x
    BY <1>2 DEF Range
  <2>2. p = a \o b
    BY <1>2 DEF Detached, RemoveAt
  <2> HIDE DEF k
  <2>3. Len(q) \in Nat /\ k \in 1..Len(q) /\ DOMAIN q = 1..Len(q)
    BY <2>1
  <2>4. /\ a \in Seq(T) /\ Len(a) = k - 1 /\ \A j \in 1..k - 1 : a[j] = q[j]
        /\ b \in Seq(T) /\ Len(b) = Len(q) - k /\ \A j \in 1..Len(q) - k : b[j] = q[k + j]
    <3>1. \A j \in 1..Len(q) : q[j] \in T
      BY <2>3
    <3>2. /\ a \in Seq(T) /\ Len(a) = IF 1 <= k - 1 THEN k - 1 - 1 + 1 ELSE 0
          /\ \A j \in 1..k - 1 - 1 + 1 : a[j] = q[1 + j - 1]
      <4>1. 1 \in Int /\ k - 1 \in Int /\ \A j \in 1..k - 1 : q[j] \in T
        BY <2>3, <3>1
      <4> QED BY <4>1, SubSeqProperties
    <3>3. /\ b \in Seq(T) /\ Len(b) = IF k + 1 <= Len(q) THEN Len(q) - (k + 1) + 1 ELSE 0
          /\ \A j \in 1..Len(q) - (k + 1) + 1 : b[j] = q[k + 1 + j - 1]
      <4>1. k + 1 \in Int /\ Len(q) \in Int /\ \A j \in k + 1..Len(q) : q[j] \in T
        BY <2>3, <3>1
      <4> QED BY <4>1, SubSeqProperties
    <3> HIDE DEF a, b
    <3>7. k \in Int /\ 1 <= k /\ k <= Len(q)
      BY <2>3
    <3>8. Len(a) = k - 1
      BY <3>2, <3>7
    <3>9. Len(b) = Len(q) - k
      <4>1. Len(b) = IF k + 1 <= Len(q) THEN Len(q) - (k + 1) + 1 ELSE 0
        BY <3>3
      <4>2. Len(q) \in Int
        BY <2>3
      <4>3. CASE k + 1 <= Len(q)
        BY <3>7, <4>1, <4>2, <4>3
      <4>4. CASE ~(k + 1 <= Len(q))
        BY <3>7, <4>1, <4>2, <4>4
      <4> QED BY <4>3, <4>4
    <3>4. Len(a) = k - 1 /\ Len(b) = Len(q) - k
      BY <3>8, <3>9
    <3>5. \A j \in 1..k - 1 : j \in 1..k - 1 - 1 + 1 /\ 1 + j - 1 = j
      BY <2>3
    <3>6. \A j \in 1..Len(q) - k : j \in 1..Len(q) - (k + 1) + 1 /\ k + 1 + j - 1 = k + j
      BY <2>3
    <3> QED BY <3>2, <3>3, <3>4, <3>5, <3>6
  <2> HIDE DEF p, a, b
  <2>5. /\ p \in Seq(T) /\ Len(p) = Len(q) - 1 /\ DOMAIN p = 1..Len(q) - 1
        /\ \A j \in 1..Len(q) - 1 : p[j] = IF j <= k - 1 THEN a[j] ELSE b[j - (k - 1)]
    <3>1. /\ a \o b \in Seq(T) /\ Len(a \o b) = Len(a) + Len(b)
          /\ \A j \in 1..Len(a) + Len(b) : (a \o b)[j] = IF j <= Len(a) THEN a[j] ELSE b[j - Len(a)]
      BY <2>4, ConcatProperties
    <3>2. Len(a) + Len(b) = Len(q) - 1
      BY <2>3, <2>4
    <3>3. p \in Seq(T) /\ Len(p) = Len(q) - 1
      BY <2>2, <3>1, <3>2
    <3>4. DOMAIN p = 1..Len(q) - 1
      BY <3>3
    <3> QED BY <2>2, <2>4, <3>1, <3>2, <3>3, <3>4
  <2>6. ASSUME NEW j \in 1..Len(q) - 1 PROVE p[j] = IF j < k THEN q[j] ELSE q[j + 1]
    <3>1. CASE j < k
      <4>1. j <= k - 1 /\ j \in 1..k - 1
        BY <2>3, <3>1
      <4> QED BY <2>4, <2>5, <3>1, <4>1
    <3>2. CASE j >= k
      <4>1. p[j] = b[j - (k - 1)]
        BY <2>3, <2>5, <3>2
      <4>2. j - (k - 1) \in 1..Len(q) - k /\ k + (j - (k - 1)) = j + 1
        BY <2>3, <3>2
      <4>3. b[j - (k - 1)] = q[j + 1]
        BY <2>4, <4>2
      <4> QED BY <2>3, <3>2, <4>1, <4>3
    <3> QED BY <2>3, <3>1, <3>2
  <2>7. \A i, j \in 1..Len(q) : q[i] = q[j] => i = j
    BY <2>3 DEF IsInjective
  <2> DEFINE from(m) == IF m < k THEN m ELSE m + 1
  <2>8. \A j \in 1..Len(q) - 1 : from(j) \in 1..Len(q) /\ from(j) # k /\ p[j] = q[from(j)]
    BY <2>3, <2>6
  <2>9. \A i, j \in 1..Len(q) - 1 : from(i) = from(j) => i = j
    BY <2>3
  <2>10. IsInjective(p)
    <3> HIDE DEF from
    <3>1. \A i, j \in 1..Len(q) - 1 : p[i] = p[j] => i = j
      BY <2>7, <2>8, <2>9
    <3> QED BY <2>5, <3>1 DEF IsInjective
  <2>11. Range(p) \subseteq Range(q) \ {x}
    <3> HIDE DEF from
    <3>1. \A j \in 1..Len(q) - 1 : p[j] \in Range(q) /\ p[j] # x
      BY <2>1, <2>3, <2>7, <2>8 DEF Range
    <3> QED BY <2>5, <3>1 DEF Range
  <2>12. ASSUME NEW y \in Range(q) \ {x} PROVE y \in Range(p)
    <3>1. PICK i \in 1..Len(q) : q[i] = y
      BY <2>3 DEF Range
    <3>2. i # k
      BY <2>1, <3>1
    <3>3. CASE i < k
      <4>1. i \in 1..Len(q) - 1 /\ p[i] = y
        BY <2>3, <2>6, <3>1, <3>3
      <4> QED BY <2>5, <4>1 DEF Range
    <3>4. CASE i > k
      <4>1. i - 1 \in 1..Len(q) - 1 /\ ~(i - 1 < k) /\ (i - 1) + 1 = i
        BY <2>3, <3>4
      <4>2. p[i - 1] = y
        BY <2>6, <3>1, <4>1
      <4> QED BY <2>5, <4>1, <4>2 DEF Range
    <3> QED BY <2>3, <3>2, <3>3, <3>4
  <2> QED BY <2>5, <2>10, <2>11, <2>12 DEF p
<1> QED BY <1>1, <1>2

\* The sequence of a finite set is one.
LEMMA SetToSeqType ==
  ASSUME NEW S, IsFiniteSet(S)
  PROVE  SetToSeq(S) \in Seq(S)
<1>1. Cardinality(S) \in Nat /\ ExistsBijection(1..Cardinality(S), S)
  BY FS_CardinalityType
<1>2. PICK f : f \in [1..Cardinality(S) -> S] /\ IsInjective(f)
  BY <1>1 DEF ExistsBijection, Bijection, Injection, IsInjective
<1>3. SetToSeq(S) \in [1..Cardinality(S) -> S]
  BY <1>2 DEF SetToSeq
<1> QED BY <1>1, <1>3

-----------------------------------------------------------------------------
(* Commands on the structure: the lists change, or the nodes that are.     *)

\* A graph whose lists are in another order.
LEMMA MoveCommits ==
  ASSUME Graph(state), NEW id, NEW index, Move(id, index)
  PROVE  Commits({}) /\ UNCHANGED used
<1> DEFINE D == DOMAIN state.nodes
           p == Holders(state)[id]
           q == state.controls[p]
           moved == InsertAt(Detached(q, id), index, id)
           t == [state EXCEPT !.controls[p] = moved]
<1>1. id \in D /\ p # None /\ index \in DOMAIN q
  BY DEF Move, Has
<1>2. Transact(t, {}) /\ UNCHANGED used
  BY DEF Move
<1>3. GraphRecord(state) /\ DOMAIN state.controls = D /\ DOMAIN state.children = D
  BY DEF Graph, GraphNodes
<1>4. p \in D /\ id \in Range(q)
  BY <1>1, <1>3 DEF Holders
<1> HIDE DEF p
<1>5. q \in Seq(D) /\ IsInjective(q)
  BY <1>4 DEF Graph, GraphIndexes
<1>6. /\ Detached(q, id) \in Seq(D) /\ IsInjective(Detached(q, id))
      /\ Range(Detached(q, id)) = Range(q) \ {id} /\ Len(Detached(q, id)) = Len(q) - 1
  BY <1>4, <1>5, DetachedFacts
<1>7. moved \in Seq(D) /\ IsInjective(moved) /\ Range(moved) = Range(q)
  <2>1. index \in 1..Len(Detached(q, id)) + 1 /\ id \notin Range(Detached(q, id))
    BY <1>1, <1>5, <1>6
  <2>2. /\ moved \in Seq(D) /\ IsInjective(moved)
        /\ Range(moved) = Range(Detached(q, id)) \cup {id}
    <3> DEFINE l == Detached(q, id)
    <3>1. id \in D /\ l \in Seq(D) /\ index \in 1..Len(l) + 1 /\ IsInjective(l) /\ id \notin Range(l)
      BY <1>1, <1>6, <2>1
    <3> HIDE DEF q, l, D
    <3>2. /\ InsertAt(l, index, id) \in Seq(D)
          /\ Range(InsertAt(l, index, id)) = Range(l) \cup {id}
          /\ IsInjective(l) /\ id \notin Range(l) => IsInjective(InsertAt(l, index, id))
      BY <3>1, InsertAtFacts
    <3> QED BY <3>1, <3>2 DEF l
  <2> QED BY <1>4, <1>6, <2>2
<1> HIDE DEF moved
<1>8. /\ GraphRecord(t) /\ t.nodes = state.nodes /\ t.children = state.children /\ t.routes = state.routes
      /\ DOMAIN t.controls = D
      /\ \A i \in D : t.controls[i] = IF i = p THEN moved ELSE state.controls[i]
  BY <1>3 DEF GraphRecord
<1> HIDE DEF t
<1>9. GraphNodes(t)
  BY <1>3, <1>8 DEF Graph, GraphNodes
<1>10. GraphIndexes(t)
  <2>1. \A i \in D : t.controls[i] \in Seq(D) /\ IsInjective(t.controls[i])
                     /\ Range(t.controls[i]) = Range(state.controls[i])
    BY <1>7, <1>8 DEF Graph, GraphIndexes
  <2>2. \A i \in D : \A c \in Range(t.controls[i]) : LogicalParent(t.nodes[c].def) = i
    BY <1>8, <2>1 DEF Graph, GraphIndexes
  <2>3. \A i \in D : t.children[i] = {c \in D : t.nodes[c].def.parent = i}
    BY <1>8 DEF Graph, GraphIndexes
  <2>4. \A c \in D :
          /\ t.nodes[c].def.parent \in D \cup {None}
          /\ t.nodes[c].def.controlParent # None =>
               /\ t.nodes[c].def.controlParent \in D
               /\ c \in Range(t.controls[t.nodes[c].def.controlParent])
    <3>1. \A c \in D :
            /\ state.nodes[c].def.parent \in D \cup {None}
            /\ state.nodes[c].def.controlParent # None =>
                 /\ state.nodes[c].def.controlParent \in D
                 /\ c \in Range(state.controls[state.nodes[c].def.controlParent])
      BY DEF Graph, GraphIndexes
    <3> HIDE DEF D
    <3> QED BY <1>8, <2>1, <3>1
  <2> QED BY <1>8, <2>1, <2>2, <2>3, <2>4 DEF GraphIndexes
<1>11. GraphRanked(t)
  BY <1>8 DEF Graph, GraphRanked, Ranks
<1>13. GraphLists(t)
  <2>1. \A i \in D : Range(t.controls[i]) = Range(state.controls[i])
    BY <1>7, <1>8
  <2>2. \A c \in D : state.nodes[c].def.parent \in D \cup {None}
    BY DEF Graph, GraphIndexes
  <2>3. GraphLists(state) /\ t.nodes = state.nodes
    BY <1>8 DEF Graph
  <2> QED BY <2>1, <2>2, <2>3 DEF GraphLists
<1>12. Draft(t, {})
  BY <1>8, <1>9, <1>10, <1>11, <1>13 DEF Draft, Graph, KeepsEdits, Node
<1> QED BY <1>2, <1>12 DEF Commits

LEMMA RemoveNodeCommits ==
  ASSUME Graph(state), NEW id, RemoveNode(id)
  PROVE  Commits({}) /\ UNCHANGED used
<1> DEFINE D == DOMAIN state.nodes
           E == D \ {id}
           t == [state EXCEPT
                   !.nodes = Without(@, id),
                   !.children = [i \in DOMAIN @ \ {id} |-> @[i] \ {id}],
                   !.controls = [i \in DOMAIN @ \ {id} |-> Detached(@[i], id)]]
<1>1. id \in D /\ state.children[id] = {} /\ state.controls[id] = << >>
  BY DEF RemoveNode, Has
<1>2. Transact(t, {}) /\ UNCHANGED used
  BY DEF RemoveNode
<1>3. GraphRecord(state) /\ DOMAIN state.controls = D /\ DOMAIN state.children = D
  BY DEF Graph, GraphNodes
<1>4. /\ GraphRecord(t) /\ t.routes = state.routes
      /\ DOMAIN t.nodes = E /\ DOMAIN t.children = E /\ DOMAIN t.controls = E
      /\ \A i \in E : /\ t.nodes[i] = state.nodes[i] /\ t.children[i] = state.children[i] \ {id}
                      /\ t.controls[i] = Detached(state.controls[i], id)
  BY <1>3 DEF GraphRecord, Without
<1> HIDE DEF t
<1>5. GraphNodes(t)
  BY <1>4 DEF Graph, GraphNodes
<1>6. \A i \in E : /\ t.controls[i] \in Seq(D) /\ IsInjective(t.controls[i])
                   /\ Range(t.controls[i]) = Range(state.controls[i]) \ {id}
  <2> SUFFICES ASSUME NEW i \in E
               PROVE  /\ Detached(state.controls[i], id) \in Seq(D)
                      /\ IsInjective(Detached(state.controls[i], id))
                      /\ Range(Detached(state.controls[i], id)) = Range(state.controls[i]) \ {id}
    BY <1>4
  <2>1. state.controls[i] \in Seq(D) /\ IsInjective(state.controls[i])
    BY DEF Graph, GraphIndexes
  <2> QED BY <2>1, DetachedFacts
<1>7. \A i \in E : t.controls[i] \in Seq(E)
  <2> SUFFICES ASSUME NEW i \in E PROVE t.controls[i] \in Seq(E)
    OBVIOUS
  <2>1. t.controls[i] \in Seq(D) /\ \A j \in DOMAIN t.controls[i] : t.controls[i][j] \in Range(t.controls[i])
    BY <1>6 DEF Range
  <2>2. Range(t.controls[i]) \subseteq E
    <3>1. Range(t.controls[i]) \subseteq D
      BY <2>1 DEF Range
    <3> QED BY <1>6, <3>1
  <2>3. DOMAIN t.controls[i] = 1..Len(t.controls[i])
    BY <2>1
  <2>4. \A j \in 1..Len(t.controls[i]) : t.controls[i][j] \in E
    BY <2>1, <2>2, <2>3
  <2> QED BY <2>1, <2>4
<1>8. \A c \in E : EffectiveParent(state.nodes[c].def) # id
  <2> SUFFICES ASSUME NEW c \in E PROVE EffectiveParent(state.nodes[c].def) # id
    OBVIOUS
  <2>1. state.nodes[c].def.parent # id
    BY <1>1 DEF Graph, GraphIndexes
  <2>2. id # None
    BY <1>1, NodeStoreAssumption DEF Graph, GraphNodes
  <2>3. state.nodes[c].def.controlParent # id
    <3> SUFFICES ASSUME state.nodes[c].def.controlParent = id PROVE FALSE
      OBVIOUS
    <3>1. c \in Range(state.controls[id])
      BY <2>2 DEF Graph, GraphIndexes
    <3> QED BY <1>1, <3>1 DEF Range
  <2> QED BY <2>1, <2>3 DEF EffectiveParent
<1>9. GraphIndexes(t)
  <2>1. \A p \in E : \A c \in Range(t.controls[p]) : c \in E /\ LogicalParent(t.nodes[c].def) = p
    <3> SUFFICES ASSUME NEW p \in E, NEW c \in Range(t.controls[p])
                 PROVE  c \in E /\ LogicalParent(t.nodes[c].def) = p
      OBVIOUS
    <3>1. c \in Range(state.controls[p]) /\ c # id
      BY <1>6
    <3>2. c \in D /\ LogicalParent(state.nodes[c].def) = p
      BY <3>1, ListedBelow DEF Graph, GraphIndexes
    <3> QED BY <1>4, <3>1, <3>2
  <2>2. \A p \in E : t.children[p] = {c \in E : t.nodes[c].def.parent = p}
    <3> SUFFICES ASSUME NEW p \in E PROVE t.children[p] = {c \in E : t.nodes[c].def.parent = p}
      OBVIOUS
    <3>1. state.children[p] = {c \in D : state.nodes[c].def.parent = p}
      BY DEF Graph, GraphIndexes
    <3> QED BY <1>4, <3>1
  <2>3. ASSUME NEW c \in E
        PROVE  /\ t.nodes[c].def.parent \in E \cup {None}
               /\ t.nodes[c].def.controlParent # None =>
                    /\ t.nodes[c].def.controlParent \in E
                    /\ c \in Range(t.controls[t.nodes[c].def.controlParent])
    <3>1. /\ state.nodes[c].def.parent \in D \cup {None}
          /\ state.nodes[c].def.controlParent # None =>
               /\ state.nodes[c].def.controlParent \in D
               /\ c \in Range(state.controls[state.nodes[c].def.controlParent])
      BY DEF Graph, GraphIndexes
    <3>2. state.nodes[c].def.parent # id
      BY <1>1 DEF Graph, GraphIndexes
    <3>3. state.nodes[c].def.controlParent # None => state.nodes[c].def.controlParent # id
      BY <1>8 DEF EffectiveParent
    <3> QED BY <1>4, <1>6, <3>1, <3>2, <3>3
  <2> QED BY <1>4, <1>6, <1>7, <2>1, <2>2, <2>3 DEF GraphIndexes
<1>10. GraphRanked(t)
  <2>1. PICK K \in Nat : \E rank : Ranks(state, K, rank)
    BY DEF Graph, GraphRanked
  <2>2. PICK rank : Ranks(state, K, rank)
    BY <2>1
  <2> DEFINE r == [i \in E |-> rank[i]]
  <2>3. Ranks(t, K, r)
    BY <1>4, <2>2 DEF Ranks
  <2> QED BY <2>1, <2>3 DEF GraphRanked
<1>12. GraphLists(t)
  <2>1. \A c \in E : state.nodes[c].def.parent \in D \cup {None} /\ state.nodes[c].def.parent # id
    BY <1>1 DEF Graph, GraphIndexes
  <2>2. GraphLists(state)
    BY DEF Graph
  <2>3. \A c \in E : c \in D /\ c # id
    OBVIOUS
  <2>4. \A i \in D : i # id => i \in E
    OBVIOUS
  <2> HIDE DEF D, E
  <2>5. \A c \in E : t.nodes[c].def = state.nodes[c].def
    BY <1>4
  <2>6. \A c \in E : state.nodes[c].def.parent # None =>
          /\ t.nodes[state.nodes[c].def.parent] = state.nodes[state.nodes[c].def.parent]
          /\ Range(t.controls[state.nodes[c].def.parent]) = Range(state.controls[state.nodes[c].def.parent]) \ {id}
    BY <1>4, <1>6, <2>1, <2>4
  <2>7. \A i \in E : \A c \in Range(t.controls[i]) :
          /\ i \in D /\ c \in Range(state.controls[i]) /\ c \in D /\ c # id
          /\ t.nodes[c] = state.nodes[c]
    <3> SUFFICES ASSUME NEW i \in E, NEW c \in Range(t.controls[i])
                 PROVE  i \in D /\ c \in Range(state.controls[i]) /\ c \in D /\ c # id /\ t.nodes[c] = state.nodes[c]
      OBVIOUS
    <3>1. i \in D /\ c \in Range(state.controls[i]) /\ c # id
      BY <1>6, <2>3
    <3>2. c \in D
      BY <3>1, ListedBelow DEF D
    <3> QED BY <1>4, <2>4, <3>1, <3>2
  <2>8. \A i \in E : \A c \in Range(t.controls[i]) : t.nodes[c].def \in Members
    BY <2>2, <2>7 DEF GraphLists, D
  <2>9. ASSUME NEW c \in E, ~Explicit(t.nodes[c].def), t.nodes[c].def.parent # None
        PROVE  \/ c \in Range(t.controls[t.nodes[c].def.parent])
               \/ t.nodes[t.nodes[c].def.parent].def.lists
    BY <2>2, <2>3, <2>5, <2>6, <2>9 DEF GraphLists, D
  <2> QED BY <1>4, <2>8, <2>9 DEF GraphLists
<1>11. Draft(t, {})
  BY <1>4, <1>5, <1>9, <1>10, <1>12 DEF Draft, Graph, KeepsEdits, Node
<1> QED BY <1>2, <1>11 DEF Commits

LEMMA IdsOfDefinitions ==
  /\ \A l \in Loose : l.id \in AllIds
  /\ \A doc \in AllDocuments : DOMAIN doc \subseteq AllIds
<1>1. LooseIds \subseteq AllIds /\ DocumentIds \subseteq AllIds
  BY DEF AllIds
<1>2. \A l \in Loose : l.id \in LooseIds
  BY DEF LooseIds
<1>3. \A doc \in AllDocuments : DOMAIN doc \subseteq DocumentIds
  BY DEF DocumentIds
<1> QED BY <1>1, <1>2, <1>3

\* A node is added where it can be.
LEMMA AddedDraft ==
  ASSUME Graph(state), NEW d \in Loose, Available(d),
         NEW node, NodeRecord(node), OwnsErrors(node), node.def = d, NEW index,
         LogicalParent(d) # None => index \in 1..Len(state.controls[LogicalParent(d)]) + 1
  PROVE  Draft(Added(d, node, index), {})
<1> DEFINE D == DOMAIN state.nodes
           id == d.id
           E == D \cup {id}
           p == LogicalParent(d)
           in(f, empty) == [i \in DOMAIN f \cup {id} |-> IF i = id THEN empty ELSE f[i]]
           children == in(state.children, {})
           controls == in(state.controls, << >>)
           t == Added(d, node, index)
<1>1. /\ id \notin D /\ id \in AllIds /\ id # None /\ None \notin D
      /\ d.parent \in D \cup {None} /\ p \in D \cup {None}
  <2>1. id \notin D /\ {d.parent, p} \subseteq D \cup {None}
    BY DEF Available, Has
  <2>2. id \in AllIds
    BY IdsOfDefinitions
  <2>3. None \notin AllIds /\ D \subseteq AllIds
    BY NodeStoreAssumption DEF Graph, GraphNodes
  <2> QED BY <2>1, <2>2, <2>3
<1>2. GraphRecord(state) /\ DOMAIN state.controls = D /\ DOMAIN state.children = D
  BY DEF Graph, GraphNodes
<1>3. t = [state EXCEPT
             !.nodes = in(state.nodes, node),
             !.children = IF d.parent = None THEN children ELSE [children EXCEPT ![d.parent] = @ \cup {id}],
             !.controls = IF p = None THEN controls ELSE [controls EXCEPT ![p] = InsertAt(@, index, id)]]
  BY DEF Added
<1> HIDE DEF t, p
<1>4. /\ GraphRecord(t) /\ t.routes = state.routes
      /\ t.nodes = in(state.nodes, node)
      /\ t.children = IF d.parent = None THEN children ELSE [children EXCEPT ![d.parent] = @ \cup {id}]
      /\ t.controls = IF p = None THEN controls ELSE [controls EXCEPT ![p] = InsertAt(@, index, id)]
  <2> HIDE DEF in, children, controls
  <2> QED BY <1>2, <1>3 DEF GraphRecord
<1>5. DOMAIN t.nodes = E /\ \A i \in E : t.nodes[i] = IF i = id THEN node ELSE state.nodes[i]
  BY <1>4
<1>6. /\ DOMAIN t.children = E
      /\ t.children[id] = {}
      /\ \A i \in D : t.children[i] = IF i = d.parent THEN state.children[i] \cup {id} ELSE state.children[i]
  <2>1. DOMAIN children = E /\ children[id] = {} /\ \A i \in D : children[i] = state.children[i]
    BY <1>1, <1>2
  <2> HIDE DEF children, controls, in
  <2>2. CASE d.parent = None
    BY <1>1, <1>4, <2>1, <2>2
  <2>3. CASE d.parent # None
    <3>1. d.parent \in D
      BY <1>1, <2>3
    <3>2. t.children = [children EXCEPT ![d.parent] = @ \cup {id}]
      BY <1>4, <2>3
    <3> HIDE DEF E, id, D
    <3>3. DOMAIN t.children = E
      BY <2>1, <3>2
    <3>4. id # d.parent /\ d.parent \in E /\ id \in E /\ \A i \in D : i \in E /\ i # id
      BY <1>1, <3>1 DEF E
    <3>5. \A i \in E : t.children[i] = IF i = d.parent THEN children[i] \cup {id} ELSE children[i]
      BY <2>1, <3>2
    <3> QED BY <2>1, <3>3, <3>4, <3>5
  <2> QED BY <2>2, <2>3
<1>7. /\ DOMAIN t.controls = E
      /\ t.controls[id] = << >>
      /\ \A i \in D : t.controls[i] = IF i = p THEN InsertAt(state.controls[i], index, id) ELSE state.controls[i]
  BY <1>1, <1>2, <1>4
<1> HIDE DEF children, controls, in
<1>8. \A i \in D : /\ state.controls[i] \in Seq(E) /\ IsInjective(state.controls[i])
                   /\ Range(state.controls[i]) \subseteq D
  <2> SUFFICES ASSUME NEW i \in D
               PROVE  /\ state.controls[i] \in Seq(E) /\ IsInjective(state.controls[i])
                      /\ Range(state.controls[i]) \subseteq D
    OBVIOUS
  <2>1. state.controls[i] \in Seq(D) /\ IsInjective(state.controls[i])
    BY DEF Graph, GraphIndexes
  <2>2. Range(state.controls[i]) \subseteq D
    BY <2>1 DEF Range
  <2>3. state.controls[i] \in Seq(E)
    BY <2>1
  <2> QED BY <2>1, <2>2, <2>3
<1>9. \A i \in E : /\ t.controls[i] \in Seq(E) /\ IsInjective(t.controls[i])
                   /\ Range(t.controls[i]) = IF i = id THEN {}
                                             ELSE IF i = p THEN Range(state.controls[i]) \cup {id}
                                             ELSE Range(state.controls[i])
  <2> SUFFICES ASSUME NEW i \in E
               PROVE  /\ t.controls[i] \in Seq(E) /\ IsInjective(t.controls[i])
                      /\ Range(t.controls[i]) = IF i = id THEN {}
                                                ELSE IF i = p THEN Range(state.controls[i]) \cup {id}
                                                ELSE Range(state.controls[i])
    OBVIOUS
  <2>1. CASE i = id
    <3>1. Range(<< >>) = {} /\ IsInjective(<< >>) /\ << >> \in Seq(E)
      BY DEF Range, IsInjective
    <3> QED BY <1>7, <2>1, <3>1
  <2>2. CASE i # id /\ i = p
    <3>1. i \in D /\ p # None /\ index \in 1..Len(state.controls[i]) + 1 /\ id \in E
      BY <1>1, <2>2 DEF p
    <3>2. /\ InsertAt(state.controls[i], index, id) \in Seq(E)
          /\ Range(InsertAt(state.controls[i], index, id)) = Range(state.controls[i]) \cup {id}
          /\ id \notin Range(state.controls[i]) => IsInjective(InsertAt(state.controls[i], index, id))
      <4> DEFINE l == state.controls[i]
      <4>1. l \in Seq(E) /\ IsInjective(l) /\ index \in 1..Len(l) + 1 /\ id \in E
        BY <1>8, <3>1
      <4> HIDE DEF l, E, id
      <4>2. /\ InsertAt(l, index, id) \in Seq(E)
            /\ Range(InsertAt(l, index, id)) = Range(l) \cup {id}
            /\ IsInjective(l) /\ id \notin Range(l) => IsInjective(InsertAt(l, index, id))
        BY <4>1, InsertAtFacts
      <4> QED BY <4>1, <4>2 DEF l
    <3>3. id \notin Range(state.controls[i])
      BY <1>1, <1>8, <3>1
    <3> QED BY <1>7, <2>2, <3>1, <3>2, <3>3
  <2>3. CASE i # id /\ i # p
    BY <1>7, <1>8, <2>3
  <2> QED BY <2>1, <2>2, <2>3
<1>10. GraphNodes(t)
  <2>1. d \in Definitions
    BY DEF Definitions
  <2> QED BY <1>1, <1>4, <1>5, <1>6, <1>7, <2>1 DEF Graph, GraphNodes
<1>11. GraphIndexes(t)
  <2>1. \A i \in E : \A c \in Range(t.controls[i]) : LogicalParent(t.nodes[c].def) = i
    <3> SUFFICES ASSUME NEW i \in E, NEW c \in Range(t.controls[i]) PROVE LogicalParent(t.nodes[c].def) = i
      OBVIOUS
    <3>1. CASE c = id
      <4>1. i = p
        BY <1>1, <1>8, <1>9, <3>1
      <4> QED BY <1>5, <3>1, <4>1 DEF p
    <3>2. CASE c # id
      <4>1. i \in D /\ c \in Range(state.controls[i])
        BY <1>9, <3>2
      <4>2. c \in D /\ LogicalParent(state.nodes[c].def) = i
        BY <1>8, <4>1 DEF Graph, GraphIndexes
      <4> QED BY <1>5, <3>2, <4>2
    <3> QED BY <3>1, <3>2
  <2>2. \A i \in E : t.children[i] = {c \in E : t.nodes[c].def.parent = i}
    <3> SUFFICES ASSUME NEW i \in E PROVE t.children[i] = {c \in E : t.nodes[c].def.parent = i}
      OBVIOUS
    <3>1. CASE i = id
      <4>1. \A c \in D : state.nodes[c].def.parent # id
        BY <1>1 DEF Graph, GraphIndexes
      <4>2. d.parent # id
        BY <1>1
      <4> QED BY <1>5, <1>6, <3>1, <4>1, <4>2
    <3>2. CASE i # id
      <4>1. state.children[i] = {c \in D : state.nodes[c].def.parent = i}
        BY <3>2 DEF Graph, GraphIndexes
      <4>2. i \in D /\ t.children[i] = IF i = d.parent THEN state.children[i] \cup {id} ELSE state.children[i]
        BY <1>6, <3>2
      <4>3. {c \in E : t.nodes[c].def.parent = i} =
              {c \in D : state.nodes[c].def.parent = i} \cup (IF i = d.parent THEN {id} ELSE {})
        BY <1>1, <1>5
      <4> QED BY <4>1, <4>2, <4>3
    <3> QED BY <3>1, <3>2
  <2>3. ASSUME NEW c \in E
        PROVE  /\ t.nodes[c].def.parent \in E \cup {None}
               /\ t.nodes[c].def.controlParent # None =>
                    /\ t.nodes[c].def.controlParent \in E
                    /\ c \in Range(t.controls[t.nodes[c].def.controlParent])
    <3>1. CASE c = id
      <4>1. d.controlParent # None => p = d.controlParent
        BY DEF p, LogicalParent, Explicit
      <4> QED BY <1>1, <1>5, <1>9, <3>1, <4>1
    <3>2. CASE c # id
      <4>1. /\ state.nodes[c].def.parent \in D \cup {None}
            /\ state.nodes[c].def.controlParent # None =>
                 /\ state.nodes[c].def.controlParent \in D
                 /\ c \in Range(state.controls[state.nodes[c].def.controlParent])
        BY <3>2 DEF Graph, GraphIndexes
      <4> QED BY <1>1, <1>5, <1>9, <3>2, <4>1
    <3> QED BY <3>1, <3>2
  <2> QED BY <1>5, <1>9, <2>1, <2>2, <2>3 DEF GraphIndexes
<1>12. GraphRanked(t)
  <2>1. PICK K \in Nat : \E rank : Ranks(state, K, rank)
    BY DEF Graph, GraphRanked
  <2>2. PICK rank : Ranks(state, K, rank)
    BY <2>1
  <2> DEFINE r == [i \in E |-> IF i = id THEN K + 1 ELSE rank[i]]
  <2>3. r \in [E -> 0..K + 1]
    BY <2>1, <2>2 DEF Ranks
  <2>4. \A i \in E : EffectiveParent(t.nodes[i].def) \in E => r[EffectiveParent(t.nodes[i].def)] < r[i]
    <3> SUFFICES ASSUME NEW i \in E, EffectiveParent(t.nodes[i].def) \in E
                 PROVE  r[EffectiveParent(t.nodes[i].def)] < r[i]
      OBVIOUS
    <3>1. CASE i = id
      <4>1. EffectiveParent(d) \in D
        BY <1>1, <1>5, <3>1 DEF p, LogicalParent, Explicit, EffectiveParent
      <4>2. rank[EffectiveParent(d)] \in 0..K
        BY <2>2, <4>1 DEF Ranks
      <4> QED BY <1>1, <1>5, <2>1, <3>1, <4>1, <4>2
    <3>2. CASE i # id
      <4>1. EffectiveParent(state.nodes[i].def) \in D
        BY <1>1, <1>5, <3>2, ParentsKnown
      <4> QED BY <1>1, <1>5, <2>2, <3>2, <4>1 DEF Ranks
    <3> QED BY <3>1, <3>2
  <2> HIDE DEF r
  <2>5. Ranks(t, K + 1, r)
    BY <1>5, <2>3, <2>4 DEF Ranks
  <2> QED BY <2>1, <2>5 DEF GraphRanked
<1>14. GraphLists(t)
  <2>3. \A i \in E : \A c \in Range(t.controls[i]) : t.nodes[c].def \in Members
    <3> SUFFICES ASSUME NEW i \in E, NEW c \in Range(t.controls[i]) PROVE t.nodes[c].def \in Members
      OBVIOUS
    <3>1. CASE c = id
      <4>1. t.nodes[c].def = d
        BY <1>5, <3>1
      <4>2. i = p
        BY <1>1, <1>8, <1>9, <3>1
      <4>3. p # None
        BY <1>1, <4>2
      <4> QED BY <4>1, <4>3 DEF p, Members
    <3>2. CASE c # id
      <4>1. i \in D /\ c \in Range(state.controls[i])
        BY <1>9, <3>2
      <4>2. c \in D /\ state.nodes[c].def \in Members
        BY <1>8, <4>1 DEF Graph, GraphLists
      <4> QED BY <1>5, <3>2, <4>2
    <3> QED BY <3>1, <3>2
  <2> SUFFICES ASSUME NEW c \in E, ~Explicit(t.nodes[c].def), t.nodes[c].def.parent # None
               PROVE  \/ c \in Range(t.controls[t.nodes[c].def.parent])
                      \/ t.nodes[t.nodes[c].def.parent].def.lists
    BY <1>5, <2>3 DEF GraphLists
  <2>1. CASE c = id
    <3>1. p = d.parent /\ p \in D /\ t.nodes[c].def = d
      BY <1>1, <1>5, <2>1 DEF p, LogicalParent
    <3> QED BY <1>1, <1>9, <2>1, <3>1
  <2>2. CASE c # id
    <3>1. t.nodes[c] = state.nodes[c] /\ c \in D
      BY <1>5, <2>2
    <3>2. state.nodes[c].def.parent \in D
      BY <3>1 DEF Graph, GraphIndexes
    <3>3. \/ c \in Range(state.controls[state.nodes[c].def.parent])
          \/ state.nodes[state.nodes[c].def.parent].def.lists
      BY <3>1 DEF Graph, GraphLists
    <3> QED BY <1>1, <1>5, <1>9, <3>1, <3>2, <3>3
  <2> QED BY <2>1, <2>2
<1>13. Draft(t, {})
  BY <1>1, <1>4, <1>5, <1>10, <1>11, <1>12, <1>14 DEF Draft, Graph, KeepsEdits, Node
<1> QED BY <1>13 DEF t

LEMMA InsertCommits ==
  ASSUME Graph(state), NEW d \in Loose, NEW index, Insert(d, index)
  PROVE  Commits({}) /\ UNCHANGED used
<1>1. NodeRecord(Snapshot(d)) /\ Snapshot(d).def = d /\ OwnsErrors(Snapshot(d))
  BY SnapshotFacts, NodeStoreAssumption
<1>2. LogicalParent(d) = d.controlParent
  BY DEF Insert, LogicalParent, Explicit
<1>3. Draft(Added(d, Snapshot(d), index), {})
  BY <1>1, <1>2, AddedDraft DEF Insert
<1> QED BY <1>3, ReconcileDisabledDraft DEF Insert, Commits

LEMMA InstantiateCommits ==
  ASSUME Graph(state), NEW d \in Loose, Instantiate(d)
  PROVE  Commits({}) /\ UNCHANGED used
<1>1. NodeRecord(Snapshot(d)) /\ Snapshot(d).def = d /\ OwnsErrors(Snapshot(d))
  BY SnapshotFacts, NodeStoreAssumption
<1>2. /\ NodeRecord(WithValidated(Snapshot(d))) /\ WithValidated(Snapshot(d)).def = d
      /\ OwnsErrors(WithValidated(Snapshot(d)))
  BY <1>1, ValidatedKeeps DEF Keeps
<1>3. LogicalParent(d) # None => End(d) \in 1..Len(state.controls[LogicalParent(d)]) + 1
  <2> SUFFICES ASSUME LogicalParent(d) # None
               PROVE  End(d) \in 1..Len(state.controls[LogicalParent(d)]) + 1
    OBVIOUS
  <2>1. LogicalParent(d) \in DOMAIN state.nodes
    BY DEF Instantiate, Available
  <2>2. state.controls[LogicalParent(d)] \in Seq(DOMAIN state.nodes)
    BY <2>1 DEF Graph, GraphIndexes
  <2> HIDE DEF Graph
  <2>3. Len(state.controls[LogicalParent(d)]) \in Nat
    BY <2>2
  <2> QED BY <2>3 DEF End
<1>4. Draft(Added(d, WithValidated(Snapshot(d)), End(d)), {})
  BY <1>2, <1>3, AddedDraft DEF Instantiate
<1> QED BY <1>4, ReconcileDisabledDraft DEF Instantiate, Commits

-----------------------------------------------------------------------------
(* Documents: what is built from a valid one is a graph.                   *)

\* The graph built of a valid document.
LEMMA BuiltGraph ==
  ASSUME NEW doc \in ValidDocuments, NEW s, GraphRecord(s),
         DOMAIN s.nodes = DOMAIN doc, s.children = BuildChildren(doc), s.controls = BuildControls(doc),
         \A id \in DOMAIN doc :
           NodeRecord(s.nodes[id]) /\ OwnsErrors(s.nodes[id]) /\ s.nodes[id].def = doc[id]
  PROVE  Graph(s)
<1> DEFINE D == DOMAIN doc
           listed == BuildControls(doc)
<1>1. /\ doc \in AllDocuments /\ ValidDocument(doc)
      /\ D \subseteq AllIds /\ IsFiniteSet(D) /\ None \notin D
  <2>1. doc \in AllDocuments /\ ValidDocument(doc)
    BY DEF ValidDocuments
  <2>2. D \subseteq AllIds
    BY <2>1, IdsOfDefinitions
  <2> QED BY <2>1, <2>2, FS_Subset, NodeStoreAssumption
<1>2. \A id \in D : doc[id].id = id /\ doc[id].controls \in Seq(Range(doc[id].controls))
  BY <1>1, NodeStoreAssumption
<1>3. \A id \in D :
        LET parent == LogicalParent(doc[id])
        IN  /\ doc[id].parent \in (D \ {id}) \cup {None}
            /\ \/ parent = None
               \/ Ignored(doc, doc[id])
               \/ parent \in D /\ id \in Range(listed[parent])
            /\ IsInjective(listed[id])
            /\ \A c \in Range(listed[id]) : c \in D /\ LogicalParent(doc[c]) = id
  BY <1>1 DEF ValidDocument
<1>4. DOMAIN listed = D /\ DOMAIN BuildChildren(doc) = D
  BY DEF BuildControls, BuildChildren
<1>5. GraphNodes(s)
  <2>1. \A id \in D : doc[id] \in Definitions
    BY DEF Definitions
  <2> QED BY <1>1, <1>2, <1>4, <2>1 DEF GraphNodes
<1>6. \A id \in D : listed[id] \in Seq(D)
  <2> SUFFICES ASSUME NEW id \in D PROVE listed[id] \in Seq(D)
    OBVIOUS
  <2> DEFINE legacy == {c \in D : ~Explicit(doc[c]) /\ doc[c].parent = id}
  <2>1. listed[id] = IF doc[id].lists THEN doc[id].controls ELSE SetToSeq(legacy)
    BY DEF BuildControls
  <2>2. SetToSeq(legacy) \in Seq(legacy)
    <3>1. legacy \in SUBSET D
      OBVIOUS
    <3>2. IsFiniteSet(legacy)
      BY <1>1, <3>1, FS_Subset
    <3> HIDE DEF legacy
    <3> QED BY <3>2, SetToSeqType
  <2>3. listed[id] \in Seq(D \cup Range(doc[id].controls))
    <3> HIDE DEF listed
    <3>1. CASE doc[id].lists
      BY <1>2, <2>1, <3>1
    <3>2. CASE ~doc[id].lists
      <4>1. legacy \subseteq D
        OBVIOUS
      <4> HIDE DEF legacy
      <4> QED BY <2>1, <2>2, <3>2, <4>1
    <3> QED BY <3>1, <3>2
  <2>4. Range(listed[id]) \subseteq D
    BY <1>3
  <2> HIDE DEF listed, D, legacy
  <2>5. DOMAIN listed[id] = 1..Len(listed[id]) /\ Len(listed[id]) \in Nat
    BY <2>3
  <2>6. \A j \in 1..Len(listed[id]) : listed[id][j] \in D
    BY <2>4, <2>5 DEF Range
  <2> QED BY <2>3, <2>5, <2>6
<1>7. GraphIndexes(s)
  <2>1. \A p \in D : /\ s.controls[p] \in Seq(D) /\ IsInjective(s.controls[p])
                     /\ \A c \in Range(s.controls[p]) : LogicalParent(s.nodes[c].def) = p
    BY <1>3, <1>6
  <2>2. \A p \in D : s.children[p] = {c \in D : s.nodes[c].def.parent = p}
    BY DEF BuildChildren
  <2>3. ASSUME NEW c \in D
        PROVE  /\ s.nodes[c].def.parent \in D \cup {None}
               /\ s.nodes[c].def.controlParent # None =>
                    /\ s.nodes[c].def.controlParent \in D
                    /\ c \in Range(s.controls[s.nodes[c].def.controlParent])
    <3>1. doc[c].controlParent # None => ~Ignored(doc, doc[c]) /\ LogicalParent(doc[c]) = doc[c].controlParent
      BY DEF Ignored, Explicit, LogicalParent
    <3> QED BY <1>3, <3>1
  <2> HIDE DEF listed
  <2> QED BY <2>1, <2>2, <2>3 DEF GraphIndexes
<1>8. GraphRanked(s)
  <2>1. PICK rank \in [D -> 0..Cardinality(D)] :
          \A id \in D : EffectiveParent(doc[id]) \in D => rank[EffectiveParent(doc[id])] < rank[id]
    BY NodeStoreAssumption
  <2>2. Cardinality(D) \in Nat
    BY <1>1, FS_CardinalityType
  <2>3. Ranks(s, Cardinality(D), rank)
    BY <2>1 DEF Ranks
  <2> QED BY <2>2, <2>3 DEF GraphRanked
<1>9. GraphLists(s)
  <2>2. \A p \in D : \A c \in Range(listed[p]) : doc[c] \in Members
    BY <1>3 DEF Members
  <2> SUFFICES ASSUME NEW c \in D, ~Explicit(doc[c]), doc[c].parent # None
               PROVE  c \in Range(listed[doc[c].parent]) \/ doc[doc[c].parent].lists
    BY <1>3, <2>2 DEF GraphLists
  <2>1. LogicalParent(doc[c]) = doc[c].parent
    BY DEF LogicalParent
  <2> HIDE DEF listed
  <2> QED BY <1>3, <2>1 DEF Ignored
<1> QED BY <1>5, <1>7, <1>8, <1>9 DEF Graph

\* The definitions of a valid document say whether they disable.
LEMMA DefinitionsOfDocuments ==
  ASSUME NEW doc \in ValidDocuments, NEW id \in DOMAIN doc
  PROVE  doc[id].own \in BOOLEAN
BY NodeStoreAssumption DEF ValidDocuments

\* A node carried into an updated document keeps what the user typed, unless it is reset.
LEMMA MigratedFacts ==
  ASSUME NEW current, NodeRecord(current), NEW desired, NodeRecord(desired)
  PROVE  /\ NodeRecord(Migrated(current, desired)) /\ Migrated(current, desired).def = desired.def
         /\ (HasControl(desired.def) /\ current.control.dirty) =>
              Migrated(current, desired).control.raw = current.control.raw
<1> DEFINE errors == WithoutAsync(current.control.errors)
           kept == [current.control EXCEPT
                      !.errors = errors, !.pending = FALSE, !.request = None,
                      !.status = IF desired.disabled THEN "disabled" ELSE Verdict(errors)]
<1>1. \A all : Verdict(all) \in {"valid", "invalid"}
  BY DEF Verdict
<1>2. /\ ControlRecord(kept) /\ kept.status \in NodeStatuses /\ kept.request \in Requests \cup {None}
      /\ kept.raw = current.control.raw
  BY <1>1 DEF NodeRecord, ControlRecord, NodeStatuses
<1>3. Migrated(current, desired) =
        IF ~HasControl(desired.def) \/ ~current.control.dirty THEN desired
        ELSE [desired EXCEPT !.control = kept]
  BY DEF Migrated
<1> HIDE DEF kept
<1>4. NodeRecord([desired EXCEPT !.control = kept]) /\ [desired EXCEPT !.control = kept].def = desired.def
      /\ [desired EXCEPT !.control = kept].control = kept
  BY <1>2, FieldsNode
<1> QED BY <1>2, <1>3, <1>4

\* A node of an updated document, new or carried over.
LEMMA ReconciledFacts ==
  ASSUME Graph(state), NEW d, d.own \in BOOLEAN, NEW source, NEW reset
  PROVE  /\ NodeRecord(Reconciled(d, source, reset)) /\ Reconciled(d, source, reset).def = d
         /\ OwnsErrors(Reconciled(d, source, reset))
         /\ (Has(source) /\ ~reset /\ SameContract(Node(source).def, d) /\ Leaf(d) /\ Node(source).control.dirty) =>
              Reconciled(d, source, reset).control.raw = Node(source).control.raw
<1> DEFINE desired == WithValidated(Snapshot(d))
           node == IF reset \/ ~Has(source) \/ ~SameContract(Node(source).def, d) THEN desired
                   ELSE Migrated(Node(source), desired)
<1>1. NodeRecord(desired) /\ desired.def = d
  BY SnapshotFacts, ValidatedKeeps DEF Keeps
<1>2. Reconciled(d, source, reset) = IF HasControl(d) THEN Validating(node) ELSE node
  BY DEF Reconciled
<1> HIDE DEF desired
<1>3. Has(source) => NodeRecord(Node(source))
  BY NodesOfState
<1>4. /\ NodeRecord(node) /\ node.def = d
      /\ (Has(source) /\ ~reset /\ SameContract(Node(source).def, d) /\ Leaf(d) /\ Node(source).control.dirty) =>
           node.control.raw = Node(source).control.raw
  <2>1. Leaf(d) => HasControl(d)
    BY DEF Leaf, HasControl
  <2>2. CASE reset \/ ~Has(source) \/ ~SameContract(Node(source).def, d)
    BY <1>1, <2>2
  <2>3. CASE ~(reset \/ ~Has(source) \/ ~SameContract(Node(source).def, d))
    BY <1>1, <1>3, <2>1, <2>3, MigratedFacts
  <2> QED BY <2>2, <2>3
<1> HIDE DEF node
<1>5. Keeps(node, Validating(node)) /\ OwnsErrors(Validating(node))
  BY <1>4, ValidatedKeeps
<1>6. ~HasControl(d) => OwnsErrors(node)
  BY <1>4 DEF OwnsErrors, HasControl, Leaf
<1> QED BY <1>2, <1>4, <1>5, <1>6 DEF Keeps

\* The nodes of an update whose edits it does not keep.
Overwritten(u) ==
  {id \in DOMAIN u.document : Has(id) => id \in u.resets \/ ~SameContract(Node(id).def, u.document[id])}

LEMMA ReconcileCommits ==
  ASSUME Graph(state), NEW u \in Updates, Reconcile(u)
  PROVE  Commits(Overwritten(u)) /\ UNCHANGED used
<1> DEFINE doc == u.document
           source(id) == IF id \in DOMAIN u.aliases THEN u.aliases[id] ELSE id
           nodes == [id \in DOMAIN doc |-> Reconciled(doc[id], source(id), id \in u.resets)]
           s == [nodes |-> nodes, children |-> BuildChildren(doc), controls |-> BuildControls(doc),
                 routes |-> state.routes]
           fresh == {id \in DOMAIN doc : HasControl(doc[id])}
<1>1. Transact(ReconcileDisabled(s, DOMAIN doc), fresh) /\ UNCHANGED used
  BY DEF Reconcile
<1>2. doc \in ValidDocuments /\ \A id \in DOMAIN u.aliases : ~Has(id)
  BY DEF Reconcile, ValidUpdate
<1>3. \A id \in DOMAIN doc : doc[id].own \in BOOLEAN
  BY <1>2, DefinitionsOfDocuments
<1>4. ASSUME NEW id \in DOMAIN doc
      PROVE  /\ NodeRecord(nodes[id]) /\ OwnsErrors(nodes[id]) /\ nodes[id].def = doc[id]
             /\ (Has(id) /\ id \notin u.resets /\ SameContract(Node(id).def, doc[id]) /\ Leaf(doc[id])
                  /\ Node(id).control.dirty) => nodes[id].control.raw = Node(id).control.raw
  <2>1. nodes[id] = Reconciled(doc[id], source(id), id \in u.resets)
    OBVIOUS
  <2>2. Has(id) => source(id) = id
    BY <1>2
  <2> DEFINE reset == id \in u.resets
  <2>4. nodes[id] = Reconciled(doc[id], source(id), reset)
    BY <2>1
  <2> HIDE DEF nodes, source, reset
  <2>5. /\ NodeRecord(nodes[id]) /\ OwnsErrors(nodes[id]) /\ nodes[id].def = doc[id]
        /\ (Has(source(id)) /\ ~reset /\ SameContract(Node(source(id)).def, doc[id])
             /\ Leaf(doc[id]) /\ Node(source(id)).control.dirty) =>
             nodes[id].control.raw = Node(source(id)).control.raw
    BY <1>3, <2>4, ReconciledFacts
  <2>3. /\ NodeRecord(nodes[id]) /\ OwnsErrors(nodes[id]) /\ nodes[id].def = doc[id]
        /\ (Has(source(id)) /\ ~(id \in u.resets) /\ SameContract(Node(source(id)).def, doc[id])
             /\ Leaf(doc[id]) /\ Node(source(id)).control.dirty) =>
             nodes[id].control.raw = Node(source(id)).control.raw
    BY <2>5 DEF reset
  <2> QED BY <2>2, <2>3
<1>5. /\ GraphRecord(s) /\ s.nodes = nodes /\ s.children = BuildChildren(doc)
      /\ s.controls = BuildControls(doc) /\ s.routes = state.routes /\ DOMAIN nodes = DOMAIN doc
  BY DEF GraphRecord
<1> HIDE DEF s, nodes
<1>6. Graph(s)
  BY <1>2, <1>4, <1>5, BuiltGraph
<1>7. KeepsEdits(s, Overwritten(u))
  <2> SUFFICES ASSUME NEW id \in (DOMAIN state.nodes \cap DOMAIN s.nodes) \ Overwritten(u),
                      Leaf(Node(id).def), Node(id).control.dirty
               PROVE  Leaf(s.nodes[id].def) /\ s.nodes[id].control.raw = Node(id).control.raw
    BY DEF KeepsEdits
  <2>1. id \in DOMAIN doc /\ Has(id) /\ id \notin u.resets /\ SameContract(Node(id).def, doc[id])
    BY <1>5 DEF Overwritten, Has
  <2>2. Leaf(doc[id])
    BY <2>1 DEF Leaf, SameContract
  <2> QED BY <1>4, <1>5, <2>1, <2>2
<1>8. Draft(ReconcileDisabled(s, DOMAIN doc), Overwritten(u))
  BY <1>5, <1>6, <1>7, ReconcileDisabledDraft DEF Draft
<1>9. fresh \subseteq AllIds
  BY <1>2, IdsOfDefinitions DEF ValidDocuments
<1> HIDE DEF fresh
<1> QED BY <1>1, <1>8, <1>9 DEF Commits

-----------------------------------------------------------------------------
(* Who is below an aggregate has it on the path of its holders.            *)

\* A node is on the upward path of everything below it.
LEMMA BelowHasAbove ==
  ASSUME Graph(state), NEW f \in AllIds, NEW id \in Below(state, {f})
  PROVE  f \in Path(Holders(state), id)
<1> DEFINE D == DOMAIN state.nodes
           up == Holders(state)
<1>1. f \in D /\ id \in Reach(Lists(state), f)
  BY BelowIsReach
<1>2. DOMAIN up = D /\ DOMAIN state.controls = D /\ D \subseteq AllIds /\ None \notin D
  BY NodeStoreAssumption DEF Holders, Graph, GraphNodes
<1>3. ASSUME NEW c \in D, up[c] # None
      PROVE  up[c] \in D /\ c \in Range(state.controls[up[c]])
  BY <1>2, <1>3 DEF Holders
<1>4. ASSUME NEW p \in D, NEW c \in Range(state.controls[p])
      PROVE  c \in D /\ up[c] = p
  <2>1. c \in D /\ EffectiveParent(state.nodes[c].def) = p
    BY <1>4, ListedBelow
  <2>2. up[c] \in D /\ c \in Range(state.controls[up[c]])
    BY <1>2, <1>4, <2>1 DEF Holders
  <2>3. EffectiveParent(state.nodes[c].def) = up[c]
    BY <2>2, ListedBelow
  <2> QED BY <2>1, <2>3
<1> HIDE DEF up
<1>5. PICK K \in Nat : \E rank : Ranks(state, K, rank)
  BY DEF Graph, GraphRanked
<1>6. PICK rank : Ranks(state, K, rank)
  BY <1>5
<1>7. /\ rank \in [D -> Nat] /\ \A c \in D : up[c] \in D \cup {None}
      /\ \A c \in D : up[c] \in D => rank[up[c]] < rank[c]
  <2>1. rank \in [D -> Nat]
    BY <1>6 DEF Ranks
  <2>2. \A c \in D : up[c] \in D \cup {None}
    BY <1>3
  <2>3. ASSUME NEW c \in D, up[c] \in D PROVE rank[up[c]] < rank[c]
    <3>1. EffectiveParent(state.nodes[c].def) = up[c]
      BY <1>2, <1>3, <2>3, ListedBelow
    <3> QED BY <1>6, <2>3, <3>1 DEF Ranks
  <2> QED BY <2>1, <2>2, <2>3
<1> HIDE DEF D
<1>8. Up(up, D) \in [D -> SUBSET D] /\ Lists(state) \in [D -> SUBSET D]
  BY ListsType DEF Up, D
<1>9. \A p \in D : \A c \in Lists(state)[p] : p \in Up(up, D)[c]
  <2>1. \A p \in D : Lists(state)[p] = Range(state.controls[p])
    BY DEF Lists, D
  <2> QED BY <1>4, <2>1 DEF Up
<1>10. id \in D /\ f \in Reach(Up(up, D), id)
  BY <1>1, <1>8, <1>9, ReachBack
<1>11. Path(up, id) = Reach(Up(up, D), id)
  <2>1. id \in AllIds \cup {None}
    BY <1>2, <1>10
  <2>2. Path(up, id) = IF id \in D THEN Reach(Up(up, D), id) ELSE {}
    BY <1>2, <1>7, <2>1, PathIsReach
  <2> QED BY <1>10, <2>2
<1> QED BY <1>10, <1>11 DEF up

-----------------------------------------------------------------------------
(* The invariant.                                                          *)

\* A mount's graph is one, and shows the errors of its nodes.
LEMMA StoreInvInit == Init => StoreInv
<1> SUFFICES ASSUME Init PROVE StoreInv
  OBVIOUS
<1>1. PICK doc \in Documents \cap ValidDocuments :
        LET s == [nodes |-> [id \in DOMAIN doc |-> WithValidated(Snapshot(doc[id]))],
                  children |-> BuildChildren(doc),
                  controls |-> BuildControls(doc),
                  routes |-> << >>]
        IN  state = Derived(s, DOMAIN doc).graph
  BY DEF Init
<1> DEFINE nodes == [id \in DOMAIN doc |-> WithValidated(Snapshot(doc[id]))]
           s == [nodes |-> nodes, children |-> BuildChildren(doc),
                 controls |-> BuildControls(doc), routes |-> << >>]
           b == [nodes |-> << >>, routes |-> << >>]
<1>2. state = Derived(s, DOMAIN doc).graph
  BY <1>1
<1>3. ASSUME NEW id \in DOMAIN doc
      PROVE  NodeRecord(nodes[id]) /\ OwnsErrors(nodes[id]) /\ nodes[id].def = doc[id]
  <2>1. doc[id].own \in BOOLEAN
    BY DefinitionsOfDocuments
  <2> QED BY <2>1, SnapshotFacts, ValidatedKeeps DEF Keeps
<1>4. /\ GraphRecord(s) /\ s.nodes = nodes /\ s.children = BuildChildren(doc)
      /\ s.controls = BuildControls(doc) /\ s.routes = << >> /\ DOMAIN nodes = DOMAIN doc
  BY DEF GraphRecord
<1> HIDE DEF nodes, s
<1>5. Graph(s)
  BY <1>3, <1>4, BuiltGraph
<1>6. DOMAIN doc \subseteq AllIds
  BY IdsOfDefinitions DEF ValidDocuments
<1>7. Graph(state)
  BY <1>2, <1>5, <1>6, DerivedKeeps
<1>8. b.routes = << >> /\ DOMAIN b.nodes = {} /\ DOMAIN b.routes = {}
  OBVIOUS
<1> HIDE DEF b
<1>9. Routed(b)
  BY <1>8 DEF Routed, Shown, Owned
<1>10. \A o : o \notin DOMAIN doc => OwnErrors(s, o) = OwnErrors(b, o)
  BY <1>4, <1>8 DEF OwnErrors
<1>11. Routed(state)
  BY <1>2, <1>4, <1>5, <1>6, <1>8, <1>9, <1>10, DerivedRouted
<1>12. used \subseteq Requests
  BY DEF Init
<1> QED BY <1>7, <1>11, <1>12 DEF StoreInv

\* Which edits a command may change.
Spared(id) ==
  \/ \E v \in Values : SetValue(id, v)
  \/ \E f \in Path(Holders(state), id) : Reset(f)
  \/ \E u \in Updates :
       /\ Reconcile(u)
       /\ id \in u.resets \/ ~SameContract(Node(id).def, u.document[id])

\* Every command commits a draft that keeps the edits it may not change.
LEMMA NextCommits ==
  ASSUME Graph(state), Next
  PROVE  /\ \E X : Commits(X) /\ \A id \in X : Has(id) => Spared(id)
         /\ used \subseteq Requests => used' \subseteq Requests
<1> DEFINE Kept(X) == Commits(X) /\ (\A id \in X : Has(id) => Spared(id))
                      /\ (used \subseteq Requests => used' \subseteq Requests)
<1> SUFFICES \E X : Kept(X)
  OBVIOUS
<1>1. (Commits({}) /\ UNCHANGED used) => Kept({})
  OBVIOUS
<1> HIDE DEF Kept
<1>2. ASSUME NEW id \in AllIds, NEW v \in Values, SetValue(id, v) PROVE Kept({id})
  BY <1>2, SetValueCommits DEF Kept, Spared
<1>3. ASSUME NEW id \in AllIds, MarkTouched(id) PROVE Kept({})
  BY <1>1, <1>3, MarkTouchedCommits
<1>4. ASSUME NEW id \in AllIds, Reset(id) PROVE Kept(ControlsBelow(id))
  <2>1. \A x \in ControlsBelow(id) : Spared(x)
    BY <1>4, BelowHasAbove DEF ControlsBelow, Spared
  <2> QED BY <1>4, <2>1, ResetCommits DEF Kept
<1>5. ASSUME NEW id \in AllIds, Submit(id) PROVE Kept({})
  BY <1>1, <1>5, SubmitCommits
<1>6. ASSUME NEW id \in AllIds, NEW r \in Requests, Start(id, r) PROVE Kept({})
  BY <1>6, StartCommits DEF Kept
<1>7. ASSUME NEW id \in AllIds, NEW errors, Resolve(id, errors) PROVE Kept({})
  BY <1>1, <1>7, ResolveCommits
<1>8. ASSUME NEW id \in AllIds, NEW index, Move(id, index) PROVE Kept({})
  BY <1>1, <1>8, MoveCommits
<1>9. ASSUME NEW id \in AllIds, RemoveNode(id) PROVE Kept({})
  BY <1>1, <1>9, RemoveNodeCommits
<1>10. ASSUME NEW id \in Patched, NEW b \in BOOLEAN, SetDisabled(id, b) PROVE Kept({})
  BY <1>1, <1>10, SetDisabledCommits
<1>11. ASSUME NEW id \in Patched, PatchProperties(id) PROVE Kept({})
  BY <1>1, <1>11, PatchPropertiesCommits
<1>12. ASSUME NEW id \in Patched, NEW status \in Statuses, SetStatus(id, status) PROVE Kept({})
  BY <1>1, <1>12, SetStatusCommits
<1>13. ASSUME NEW d \in Loose, NEW index, Insert(d, index) PROVE Kept({})
  BY <1>1, <1>13, InsertCommits
<1>14. ASSUME NEW d \in Loose, Instantiate(d) PROVE Kept({})
  BY <1>1, <1>14, InstantiateCommits
<1>15. ASSUME NEW u \in Updates, Reconcile(u) PROVE Kept(Overwritten(u))
  <2>1. \A x \in Overwritten(u) : Has(x) => Spared(x)
    BY <1>15 DEF Overwritten, Spared
  <2> QED BY <1>15, <2>1, ReconcileCommits DEF Kept
<1> QED BY <1>2, <1>3, <1>4, <1>5, <1>6, <1>7, <1>8, <1>9, <1>10, <1>11, <1>12, <1>13, <1>14, <1>15
        DEF Next

\* Every command keeps the invariant.
LEMMA StoreInvNext == StoreInv /\ [Next]_vars => StoreInv'
<1> SUFFICES ASSUME StoreInv, [Next]_vars PROVE StoreInv'
  OBVIOUS
<1>1. CASE UNCHANGED vars
  <2>1. state' = state /\ used' = used
    BY <1>1 DEF vars
  <2>2. used' \subseteq Requests
    BY <2>1 DEF StoreInv
  <2>3. Graph(state') /\ Routed(state')
    BY <2>1 DEF StoreInv
  <2> QED BY <2>2, <2>3 DEF StoreInv
<1>2. CASE Next
  <2>1. /\ used' \subseteq Requests
        /\ \E X : Commits(X)
    BY <1>2, NextCommits DEF StoreInv
  <2>2. PICK X : Commits(X)
    BY <2>1
  <2>3. Graph(state') /\ Routed(state')
    BY <2>2, CommitsGraph, CommitsRouted DEF StoreInv
  <2> QED BY <2>1, <2>3 DEF StoreInv
<1> QED BY <1>1, <1>2

\* The invariant of the store.
LEMMA StoreInvariant == Spec => []StoreInv
BY StoreInvInit, StoreInvNext, PTL DEF Spec

\* The indexes of the graph tell what its nodes say of themselves, whatever
\* commands were run.
THEOREM IndexesConsistent == Spec => []IndexesAgree
<1>1. StoreInv => IndexesAgree
  <2> SUFFICES ASSUME StoreInv PROVE IndexesAgree
    OBVIOUS
  <2>1. GraphNodes(state) /\ GraphIndexes(state) /\ Graph(state) /\ used \subseteq Requests
    BY DEF StoreInv, Graph
  <2>2. TypeOK
    BY <2>1 DEF TypeOK, Present, Node, GraphNodes, NodeRecord
  <2>3. \A p \in Present : \A c \in Range(state.controls[p]) : c \in Present
    BY <2>1, ListedBelow DEF Present
  <2> QED BY <2>1, <2>2, <2>3 DEF IndexesAgree, Present, Node, GraphIndexes
<1> QED BY <1>1, StoreInvariant, PTL

\* The errors shown on a control are those that other controls own now and that
\* name it.
THEOREM RoutesFollowErrors == Spec => []ErrorsRouted
<1>1. StoreInv => ErrorsRouted
  <2> SUFFICES ASSUME StoreInv, NEW id \in Present
               PROVE  (IF id \in DOMAIN state.routes THEN state.routes[id] ELSE {}) =
                        {e \in UNION {OwnErrors(state, o) : o \in Present \ {id}} : id \in e.names}
    BY DEF ErrorsRouted
  <2>1. id \in AllIds
    BY DEF StoreInv, Graph, GraphNodes, Present
  <2>2. Shown(state, id) = Owned(state, Present, id)
    BY <2>1 DEF StoreInv, Routed, Present
  <2>3. \A o, e : e \in OwnErrors(state, o) => e.owner = o
    BY OwnErrorsFacts
  <2>4. Owned(state, Present, id) = {e \in UNION {OwnErrors(state, o) : o \in Present \ {id}} : id \in e.names}
    BY <2>3 DEF Owned
  <2> QED BY <2>2, <2>4 DEF Shown
<1> QED BY <1>1, StoreInvariant, PTL

\* What a user has typed into a control stays until it is typed over, or reset,
\* or its node becomes one of another kind or type.
THEOREM TypedValuesKept == Spec => EditsKept
<1> DEFINE Step == \A id \in Present \cap DOMAIN state'.nodes :
                     Leaf(Node(id).def) /\ Node(id).control.dirty
                       /\ state'.nodes[id].control.raw # Node(id).control.raw => Spared(id)
<1>1. StoreInv /\ [Next]_vars => [Step]_vars
  <2> SUFFICES ASSUME StoreInv, Next PROVE Step
    OBVIOUS
  <2>1. PICK X : Commits(X) /\ \A id \in X : Has(id) => Spared(id)
    BY NextCommits DEF StoreInv
  <2>2. \A id \in (DOMAIN state.nodes \cap DOMAIN state'.nodes) \ X :
          Leaf(Node(id).def) /\ Node(id).control.dirty =>
            state'.nodes[id].control.raw = Node(id).control.raw
    BY <2>1, CommitsGraph
  <2> QED BY <2>1, <2>2 DEF Present, Has
<1>2. [Step]_vars => [\A id \in Present \cap DOMAIN state'.nodes :
         Leaf(Node(id).def) /\ Node(id).control.dirty
           /\ state'.nodes[id].control.raw # Node(id).control.raw
         => \/ \E v \in Values : SetValue(id, v)
            \/ \E f \in Path(Holders(state), id) : Reset(f)
            \/ \E u \in Updates :
                 /\ Reconcile(u)
                 /\ id \in u.resets \/ ~SameContract(Node(id).def, u.document[id])]_vars
  BY DEF Spared
<1> HIDE DEF Step
<1> QED BY <1>1, <1>2, StoreInvariant, PTL DEF Spec, EditsKept

-----------------------------------------------------------------------------
(* Disablement along the lists.                                            *)

\* The nodes without a parent, and those in the list of their parent.
Placed(s) ==
  {id \in DOMAIN s.nodes :
     LET above == EffectiveParent(s.nodes[id].def)
     IN  above = None \/ (above \in DOMAIN s.nodes /\ id \in Range(s.controls[above]))}

\* Whoever holds controls is placed.
Rooted(s) == \A p \in DOMAIN s.nodes : s.controls[p] # << >> => p \in Placed(s)

\* The holder of a placed node is the parent it names.
LEMMA PlacedHolders ==
  ASSUME NEW s, Graph(s), NEW id \in DOMAIN s.nodes
  PROVE  /\ id \in Placed(s) => Holders(s)[id] = EffectiveParent(s.nodes[id].def)
         /\ (Holders(s)[id] # None \/ s.nodes[id].def.parent = None) => id \in Placed(s)
         /\ Holders(s)[id] \in DOMAIN s.nodes \cup {None}
         /\ Holders(s)[id] # None => Holders(s)[id] = EffectiveParent(s.nodes[id].def)
<1> DEFINE D == DOMAIN s.nodes
           above == EffectiveParent(s.nodes[id].def)
           held == \E p \in D : id \in Range(s.controls[p])
           h == Holders(s)[id]
<1>1. DOMAIN s.controls = D /\ None \notin D
  BY NodeStoreAssumption DEF Graph, GraphNodes
<1>2. h = IF held THEN CHOOSE p \in D : id \in Range(s.controls[p]) ELSE None
  BY <1>1 DEF Holders
<1>3. \A p \in D : id \in Range(s.controls[p]) => above = p
  BY ListedBelow
<1>4. s.nodes[id].def.controlParent # None =>
        s.nodes[id].def.controlParent \in D /\ id \in Range(s.controls[s.nodes[id].def.controlParent])
  BY DEF Graph, GraphIndexes
<1> HIDE DEF h
<1>5. CASE held
  <2>1. h \in D /\ id \in Range(s.controls[h])
    BY <1>2, <1>5
  <2>2. above = h
    BY <1>3, <2>1
  <2> QED BY <1>1, <2>1, <2>2 DEF Placed, h
<1>6. CASE ~held
  <2>1. h = None
    BY <1>2, <1>6
  <2>2. id \in Placed(s) => above = None
    BY <1>6 DEF Placed
  <2>3. s.nodes[id].def.parent = None => above = None
    BY <1>4, <1>6 DEF EffectiveParent
  <2> QED BY <2>1, <2>2, <2>3 DEF Placed, h
<1> QED BY <1>5, <1>6

\* In a graph of such definitions, whoever holds controls is placed.
LEMMA RootedGraph ==
  ASSUME RootedControls, NEW s, Graph(s)
  PROVE  Rooted(s)
<1> SUFFICES ASSUME NEW p \in DOMAIN s.nodes, s.controls[p] # << >>
             PROVE  p \in Placed(s)
  BY DEF Rooted
<1> DEFINE D == DOMAIN s.nodes
           d == s.nodes[p].def
<1>1. d.id = p /\ d \in Definitions /\ None \notin D
  BY NodeStoreAssumption DEF Graph, GraphNodes
<1>2. PICK c : c \in Range(s.controls[p])
  <2>1. s.controls[p] \in Seq(D)
    BY DEF Graph, GraphIndexes
  <2>2. Len(s.controls[p]) \in Nat /\ Len(s.controls[p]) # 0
    BY <2>1
  <2>3. 1 \in DOMAIN s.controls[p]
    BY <2>1, <2>2
  <2> QED BY <2>3 DEF Range
<1>3. c \in D /\ LogicalParent(s.nodes[c].def) = p /\ s.nodes[c].def \in Members
  BY <1>2, ListedBelow DEF Graph, GraphIndexes, GraphLists
<1>4. d.id \in Holding
  BY <1>1, <1>3 DEF Holding
<1>5. /\ d.parent \in D \cup {None}
      /\ d.controlParent # None =>
           d.controlParent \in D /\ p \in Range(s.controls[d.controlParent])
  BY DEF Graph, GraphIndexes
<1>6. CASE d.controlParent # None
  <2>1. EffectiveParent(d) = d.controlParent
    BY <1>6 DEF EffectiveParent
  <2> QED BY <1>5, <1>6, <2>1 DEF Placed
<1>7. CASE d.controlParent = None /\ d.parent = None
  <2>1. EffectiveParent(d) = None
    BY <1>7 DEF EffectiveParent
  <2> QED BY <2>1 DEF Placed
<1>8. CASE d.controlParent = None /\ d.parent # None
  <2>1. ~Explicit(d) /\ \A e \in Definitions : e.id = d.parent => ~e.lists
    BY <1>1, <1>4, <1>8 DEF RootedControls
  <2>2. d.parent \in D
    BY <1>5, <1>8
  <2>3. s.nodes[d.parent].def.id = d.parent /\ s.nodes[d.parent].def \in Definitions
    BY <2>2 DEF Graph, GraphNodes
  <2>4. p \in Range(s.controls[d.parent])
    BY <1>8, <2>1, <2>3 DEF Graph, GraphLists
  <2>5. EffectiveParent(d) = d.parent
    BY <1>8 DEF EffectiveParent
  <2> QED BY <2>2, <2>4, <2>5 DEF Placed
<1> QED BY <1>6, <1>7, <1>8

\* What is below some nodes holds them, and is closed under the lists.
LEMMA BelowClosed ==
  ASSUME NEW s, Graph(s), NEW roots
  PROVE  /\ roots \cap DOMAIN s.nodes \subseteq Below(s, roots)
         /\ \A p \in Below(s, roots) : Range(s.controls[p]) \subseteq Below(s, roots)
<1> DEFINE D == DOMAIN s.nodes
           R(id) == Reach(Lists(s), id)
<1>1. Below(s, roots) = UNION {R(id) : id \in roots \cap D}
  BY BelowIsReach
<1>2. \A id \in D : id \in R(id) /\ Closed(Lists(s), R(id)) /\ R(id) \subseteq D
  BY ListsType, ReachLeast
<1>3. \A p \in D : Lists(s)[p] = Range(s.controls[p])
  BY DEF Lists
<1> HIDE DEF R
<1>4. ASSUME NEW p \in Below(s, roots) PROVE Range(s.controls[p]) \subseteq Below(s, roots)
  <2>1. PICK id \in roots \cap D : p \in R(id)
    BY <1>1, <1>4
  <2>2. Lists(s)[p] \subseteq R(id) /\ p \in D
    BY <1>2, <2>1 DEF Closed
  <2> QED BY <1>1, <1>3, <2>1, <2>2
<1> QED BY <1>1, <1>2, <1>4

\* No placed candidate is left out by the walk down the lists.
LEMMA CandidatesVisited ==
  ASSUME NEW s, Graph(s), Rooted(s), NEW roots
  PROVE  Below(s, roots) \cap Placed(s) \subseteq VisitedBelow(s, roots)
<1> DEFINE D == DOMAIN s.nodes
           C == Below(s, roots)
           V == VisitedBelow(s, roots)
           T == OrderedRoots(NamedParents(s), C)
           S == {id \in D : id \in C \cap Placed(s) => id \in V}
<1>1. PICK K \in Nat : \E rank : Ranks(s, K, rank)
  BY DEF Graph, GraphRanked
<1>2. PICK rank : Ranks(s, K, rank)
  BY <1>1
<1>3. rank \in [D -> Nat]
  BY <1>2 DEF Ranks
<1>4. V = C \cap Below(s, T)
  BY DEF VisitedBelow
<1>5. C \subseteq D
  BY BelowInside
<1>6. ASSUME NEW id \in D, \A y \in D : rank[y] < rank[id] => y \in S
      PROVE  id \in S
  <2> SUFFICES ASSUME id \in C, id \in Placed(s) PROVE id \in V
    OBVIOUS
  <2> DEFINE above == EffectiveParent(s.nodes[id].def)
  <2>1. NamedParents(s)[id] = above
    BY DEF NamedParents
  <2>2. CASE above \notin C
    <3>1. id \in T
      BY <2>1, <2>2 DEF OrderedRoots
    <3> HIDE DEF T, C, V
    <3>2. id \in Below(s, T)
      BY <3>1, BelowClosed
    <3> QED BY <1>4, <3>2
  <2>3. CASE above \in C
    <3>1. above \in D /\ above # None
      BY <1>5, <2>3, NodeStoreAssumption DEF Graph, GraphNodes
    <3>2. id \in Range(s.controls[above])
      BY <3>1 DEF Placed
    <3>3. above \in Placed(s)
      <4>1. s.controls[above] # << >>
        BY <3>2 DEF Range
      <4> QED BY <3>1, <4>1 DEF Rooted
    <3>4. rank[above] < rank[id]
      BY <1>2, <3>1 DEF Ranks
    <3>5. above \in V
      BY <1>6, <2>3, <3>1, <3>3, <3>4
    <3> HIDE DEF T, C, V
    <3>6. id \in Below(s, T)
      BY <1>4, <3>2, <3>5, BelowClosed
    <3> QED BY <1>4, <3>6
  <2> QED BY <2>2, <2>3
<1>7. D \subseteq S
  <2> HIDE DEF S
  <2> QED BY <1>3, <1>6, RankInduction
<1> QED BY <1>5, <1>7

\* A node is disabled exactly when it is meant to be or its parent is disabled.
AboveDisabled(s, id) ==
  LET above == EffectiveParent(s.nodes[id].def)
  IN  above \in DOMAIN s.nodes /\ s.nodes[above].disabled

Follows(s, id) == s.nodes[id].disabled <=> s.nodes[id].own \/ AboveDisabled(s, id)

\* A disabled control shows nothing and awaits nothing.
Quiet(n) == n.disabled /\ HasControl(n.def) => Silent(n.control)

\* A node that is disabled is, and falls silent.
LEMMA DisabledNodeQuiet ==
  ASSUME NEW n, NodeRecord(n), NEW b \in BOOLEAN
  PROVE  DisabledNode(n, b).disabled = b /\ Quiet(DisabledNode(n, b))
<1> DEFINE next == [n EXCEPT !.disabled = b]
           retained == ~n.disabled /\ n.control.status # "disabled"
<1>1. NodeRecord(next) /\ next.control = n.control /\ next.disabled = b /\ next.def = n.def
  BY DEF NodeRecord
<1>2. Silent(Silenced(n.control))
  BY SilencedFacts DEF NodeRecord
<1>3. DisabledNode(n, b) = CASE ~HasControl(n.def) -> next
        [] HasControl(n.def) /\ b -> [next EXCEPT !.control = Silenced(@)]
        [] HasControl(n.def) /\ ~b /\ retained -> next
        [] HasControl(n.def) /\ ~b /\ ~retained -> [next EXCEPT !.control = Revalidated(next)]
  BY DEF DisabledNode, retained
<1> HIDE DEF next, retained
<1>4. CASE ~HasControl(n.def)
  BY <1>1, <1>3, <1>4 DEF Quiet
<1>5. CASE HasControl(n.def) /\ b
  <2>1. DisabledNode(n, b) = [next EXCEPT !.control = Silenced(n.control)]
    BY <1>1, <1>3, <1>5
  <2> QED BY <1>1, <1>2, <1>5, <2>1 DEF Quiet, NodeRecord
<1>6. CASE HasControl(n.def) /\ ~b
  <2>1. DisabledNode(n, b) \in {next, [next EXCEPT !.control = Revalidated(next)]}
    <3>1. retained \in BOOLEAN
      BY DEF retained
    <3> QED BY <1>3, <1>6, <3>1
  <2>2. DisabledNode(n, b).disabled = b
    BY <1>1, <2>1 DEF NodeRecord
  <2> QED BY <1>6, <2>2 DEF Quiet
<1> QED BY <1>4, <1>5, <1>6 DEF HasControl

\* The nodes that are visited follow those above them, and are quiet when they are disabled.
LEMMA ReconcileDisabledFollows ==
  ASSUME NEW s, Graph(s), NEW roots
  PROVE  LET u == ReconcileDisabled(s, roots)
             V == VisitedBelow(s, roots)
         IN  /\ \A id \in DOMAIN s.nodes \ V : u.nodes[id] = s.nodes[id]
             /\ \A id \in V : Follows(u, id) /\ Quiet(u.nodes[id])
<1> DEFINE D == DOMAIN s.nodes
           V == VisitedBelow(s, roots)
           u == ReconcileDisabled(s, roots)
           f == CHOOSE f : IsDisablement(s, V, f)
<1>1. V \subseteq D
  BY BelowInside DEF VisitedBelow
<1>2. IsDisablement(s, V, f)
  BY <1>1, DisablementExists
<1>3. u = [s EXCEPT !.nodes = Over([id \in V |-> DisabledNode(s.nodes[id], f[id])], s.nodes)]
  BY DEF ReconcileDisabled, VisitedBelow, IsDisablement, DisabledBy
<1>4. /\ SameTopology(s, u)
      /\ \A id \in D : Keeps(s.nodes[id], u.nodes[id])
  BY ReconcileDisabledKeeps
<1> HIDE DEF f, V, u
<1>5. /\ D \subseteq AllIds /\ None \notin D /\ GraphRecord(s)
      /\ \A id \in D : NodeRecord(s.nodes[id])
  BY NodeStoreAssumption DEF Graph, GraphNodes
<1>6. \A id \in AllIds \cup {None} : f[id] = DisabledBy(s, V, f, id)
  BY <1>2 DEF IsDisablement
<1>7. \A id \in D : f[id] \in BOOLEAN
  BY <1>5, <1>6 DEF DisabledBy
<1>8. u.nodes = Over([id \in V |-> DisabledNode(s.nodes[id], f[id])], s.nodes)
  BY <1>3, <1>5 DEF GraphRecord
<1>9. /\ \A id \in D \ V : u.nodes[id] = s.nodes[id]
      /\ \A id \in V : u.nodes[id] = DisabledNode(s.nodes[id], f[id])
  BY <1>1, <1>8 DEF Over
<1>10. \A id \in V : u.nodes[id].disabled = f[id] /\ Quiet(u.nodes[id])
  BY <1>1, <1>5, <1>7, <1>9, DisabledNodeQuiet
<1>11. \A id \in D \ V : f[id] = s.nodes[id].disabled
  <2> TAKE id \in D \ V
  <2>1. f[id] = DisabledBy(s, V, f, id) /\ s.nodes[id].disabled \in BOOLEAN
    BY <1>5, <1>6 DEF NodeRecord
  <2>2. f[id] <=> s.nodes[id].disabled
    BY <2>1, Zenon DEF DisabledBy
  <2> QED BY <1>7, <2>1, <2>2
<1>12. \A id \in D : u.nodes[id].disabled = f[id]
  BY <1>9, <1>10, <1>11
<1>13. ASSUME NEW id \in V PROVE Follows(u, id)
  <2> DEFINE above == EffectiveParent(s.nodes[id].def)
  <2>1. above \in D \cup {None} /\ id \in D
    BY <1>1, ParentsKnown
  <2>2. f[id] = (s.nodes[id].own \/ f[above])
    BY <1>5, <1>6, <2>1 DEF DisabledBy, NamedParents
  <2>3. f[None] = FALSE
    BY <1>5, <1>6 DEF DisabledBy
  <2>4. /\ DOMAIN u.nodes = D /\ u.nodes[id].def = s.nodes[id].def
        /\ u.nodes[id].own = s.nodes[id].own /\ u.nodes[id].own \in BOOLEAN
    BY <1>4, <1>5, <2>1 DEF SameTopology, Keeps, NodeRecord
  <2> HIDE DEF above
  <2>5. AboveDisabled(u, id) <=> above \in D /\ u.nodes[above].disabled
    BY <2>4 DEF AboveDisabled, above
  <2>6. CASE above \in D
    <3>1. u.nodes[above].disabled = f[above] /\ f[above] \in BOOLEAN
      BY <1>7, <1>12, <2>6
    <3>2. u.nodes[id].disabled = f[id] /\ f[id] \in BOOLEAN
      BY <1>7, <1>12, <2>1
    <3> QED BY <2>2, <2>4, <2>5, <2>6, <3>1, <3>2 DEF Follows
  <2>7. CASE above = None
    <3>1. u.nodes[id].disabled = f[id] /\ f[id] = u.nodes[id].own
      BY <1>12, <2>1, <2>2, <2>3, <2>4, <2>7
    <3>2. ~AboveDisabled(u, id)
      BY <1>5, <2>5, <2>7
    <3> QED BY <3>1, <3>2 DEF Follows
  <2> QED BY <2>1, <2>6, <2>7
<1> QED BY <1>9, <1>10, <1>13 DEF V, u

\* The nodes in the list of a node.
Listed(s, a) == [i \in DOMAIN s.controls[a] |-> s.nodes[s.controls[a][i]]]

\* An affected aggregate is computed from the nodes in its list as they are then.
LEMMA RecomputedNodes ==
  ASSUME NEW s, Graph(s), NEW affected \in SUBSET DOMAIN s.nodes
  PROVE  LET t == RecomputeAggregates(s, affected)
         IN  \A id \in DOMAIN s.nodes :
               t.nodes[id] = IF id \in affected /\ Aggregate(s.nodes[id].def)
                             THEN [s.nodes[id] EXCEPT !.control = Recomputed(s.nodes[id], Listed(t, id))]
                             ELSE s.nodes[id]
<1> DEFINE D == DOMAIN s.nodes
           t == RecomputeAggregates(s, affected)
           f == CHOOSE f : IsRecomputation(s, affected, f)
<1>1. IsRecomputation(s, affected, f)
  BY RecomputationExists
<1>2. t = [s EXCEPT !.nodes = Over([id \in affected |-> f[id]], s.nodes)]
  BY DEF RecomputeAggregates, IsRecomputation, RecomputedNode
<1> HIDE DEF t, f
<1>3. GraphRecord(s)
  BY DEF Graph, GraphNodes
<1>4. t.controls = s.controls /\ t.nodes = Over([id \in affected |-> f[id]], s.nodes)
  BY <1>2, <1>3 DEF GraphRecord
<1>5. \A id \in D : t.nodes[id] = IF id \in affected THEN f[id] ELSE s.nodes[id]
  BY <1>4 DEF Over
<1>6. \A id \in D : f[id] = RecomputedNode(s, affected, f, id)
  BY <1>1 DEF IsRecomputation
<1>7. \A id \in D \ affected : f[id] = s.nodes[id]
  BY <1>6 DEF RecomputedNode
<1>8. \A id \in D : t.nodes[id] = f[id]
  BY <1>5, <1>7
<1>9. ASSUME NEW id \in D
      PROVE  [i \in DOMAIN s.controls[id] |-> f[s.controls[id][i]]] = Listed(t, id)
  <2>1. \A c \in Range(s.controls[id]) : c \in D
    BY ListedBelow
  <2>2. \A i \in DOMAIN s.controls[id] : s.controls[id][i] \in D
    BY <2>1 DEF Range
  <2> QED BY <1>4, <1>8, <2>2 DEF Listed
<1> QED BY <1>6, <1>8, <1>9 DEF RecomputedNode, t

\* Affected are the changed nodes, and with a node its parent.
LEMMA AffectedClosed ==
  ASSUME NEW s, Graph(s), NEW changed, changed \subseteq AllIds
  PROVE  LET A == AffectedNodes(NamedParents(s), changed)
         IN  /\ changed \cap DOMAIN s.nodes \subseteq A
             /\ \A p \in DOMAIN s.nodes : \A c \in Range(s.controls[p]) : c \in A => p \in A
             /\ \A more \in SUBSET changed : AffectedNodes(NamedParents(s), more) \subseteq A
<1> DEFINE D == DOMAIN s.nodes
           up == NamedParents(s)
           A == AffectedNodes(up, changed)
<1>1. PICK K \in Nat : \E rank : Ranks(s, K, rank)
  BY DEF Graph, GraphRanked
<1>2. PICK rank : Ranks(s, K, rank)
  BY <1>1
<1>3. /\ D \subseteq AllIds /\ DOMAIN up = D /\ \A id \in D : up[id] \in D \cup {None}
      /\ rank \in [D -> Nat] /\ \A id \in D : up[id] \in D => rank[up[id]] < rank[id]
  BY <1>2, ParentsKnown DEF Graph, GraphNodes, Ranks, NamedParents
<1>4. \A p \in D : \A c \in Range(s.controls[p]) : c \in D /\ up[c] = p
  BY ListedBelow DEF NamedParents
<1> HIDE DEF up, D, A
<1>5. Up(up, D) \in [D -> SUBSET D]
  BY DEF Up
<1>6. \A id \in changed : Path(up, id) = IF id \in D THEN Reach(Up(up, D), id) ELSE {}
  <2> TAKE id \in changed
  <2>1. id \in AllIds \cup {None}
    OBVIOUS
  <2> QED BY <1>3, <2>1, PathIsReach
<1>7. \A id \in D : id \in Reach(Up(up, D), id) /\ Closed(Up(up, D), Reach(Up(up, D), id))
  BY <1>5, ReachLeast
<1>8. changed \cap D \subseteq A
  BY <1>3, <1>6, <1>7 DEF AffectedNodes, A
<1>9. ASSUME NEW p \in D, NEW c \in Range(s.controls[p]), c \in A PROVE p \in A
  <2>1. PICK id \in changed : c \in Path(up, id)
    BY <1>9 DEF AffectedNodes, A
  <2>2. id \in D /\ c \in Reach(Up(up, D), id)
    BY <1>6, <2>1
  <2>3. Up(up, D)[c] = {p}
    BY <1>4, <1>9 DEF Up
  <2>4. p \in Reach(Up(up, D), id)
    BY <1>7, <2>2, <2>3 DEF Closed
  <2> QED BY <1>6, <2>1, <2>2, <2>4 DEF AffectedNodes, A
<1>10. \A more \in SUBSET changed : AffectedNodes(up, more) \subseteq A
  BY DEF AffectedNodes, A
<1> QED BY <1>8, <1>9, <1>10 DEF up, D, A

\* What is derived: the nodes after the disablement, the affected aggregates computed anew.
ChangedNodes(s, direct) ==
  direct \cup {id \in DOMAIN s.nodes : ReconcileDisabled(s, direct).nodes[id] # s.nodes[id]}

LEMMA DerivedNodes ==
  ASSUME NEW s, Graph(s), NEW direct, direct \subseteq AllIds
  PROVE  LET t == Derived(s, direct).graph
             u == ReconcileDisabled(s, direct)
             affected == AffectedNodes(NamedParents(s), ChangedNodes(s, direct))
         IN  /\ SameTopology(s, t) /\ SameTopology(s, u)
             /\ ChangedNodes(s, direct) \subseteq AllIds
             /\ \A id \in DOMAIN s.nodes :
                  /\ u.nodes[id].own = s.nodes[id].own
                  /\ t.nodes[id] = IF id \in affected /\ Aggregate(s.nodes[id].def)
                                   THEN [u.nodes[id] EXCEPT !.control = Recomputed(u.nodes[id], Listed(t, id))]
                                   ELSE u.nodes[id]
<1> DEFINE u == ReconcileDisabled(s, direct)
           affected == AffectedNodes(NamedParents(s), ChangedNodes(s, direct))
           w == RecomputeAggregates(u, affected)
           owners == ChangedNodes(s, direct) \cup {id \in affected : Aggregate(s.nodes[id].def)}
           t == Derived(s, direct).graph
<1>1. t = ReconcileRoutes(w, owners)
  BY DEF Derived, ChangedNodes
<1>2. SameTopology(s, t)
  BY DerivedKeeps
<1>3. SameTopology(s, u) /\ \A id \in DOMAIN s.nodes : Keeps(s.nodes[id], u.nodes[id])
  BY ReconcileDisabledKeeps
<1> HIDE DEF u, t, w, owners
<1>4. Graph(u)
  BY <1>3, SameTopologyGraph
<1>5. ChangedNodes(s, direct) \subseteq AllIds
  BY DEF ChangedNodes, Graph, GraphNodes
<1>6. affected \in SUBSET DOMAIN u.nodes
  BY <1>3, <1>5, AffectedInside DEF SameTopology
<1> HIDE DEF affected
<1>7. \A id \in DOMAIN u.nodes :
        w.nodes[id] = IF id \in affected /\ Aggregate(u.nodes[id].def)
                      THEN [u.nodes[id] EXCEPT !.control = Recomputed(u.nodes[id], Listed(w, id))]
                      ELSE u.nodes[id]
  BY <1>4, <1>6, RecomputedNodes DEF w
<1>8. SameTopology(u, w)
  BY <1>4, <1>6, RecomputeAggregatesKeeps DEF w
<1>9. t.nodes = w.nodes /\ t.controls = w.controls
  BY <1>1, <1>8, ReconcileRoutesFacts DEF SameTopology
<1>10. \A id : Listed(t, id) = Listed(w, id)
  BY <1>9 DEF Listed
<1>11. /\ DOMAIN u.nodes = DOMAIN s.nodes
       /\ \A id \in DOMAIN s.nodes : u.nodes[id].def = s.nodes[id].def /\ u.nodes[id].own = s.nodes[id].own
  BY <1>3 DEF SameTopology, Keeps
<1> QED BY <1>2, <1>3, <1>5, <1>7, <1>9, <1>10, <1>11 DEF t, u, affected

\* Every placed node follows those above it, and is quiet when it is disabled.
Disables(s) == \A id \in Placed(s) : Follows(s, id) /\ Quiet(s.nodes[id])

\* What is computed of a disabled aggregate stays quiet if all in its list are disabled.
LEMMA RecomputedQuiet ==
  ASSUME NEW n, NodeRecord(n), n.disabled, Silent(n.control),
         NEW listed, \A i \in DOMAIN listed : listed[i].disabled
  PROVE  Silent(Recomputed(n, listed))
<1>1. EnabledControls(listed) = {}
  BY DEF EnabledControls, Controls, Range
<1> DEFINE c == Recomputed(n, listed)
<1>2. c.errors = {} /\ c.status = "disabled" /\ ~c.pending /\ c.request = None
  BY <1>1 DEF Recomputed, Silent, NodeRecord, ControlRecord
<1> QED BY <1>2 DEF Silent

\* Deriving makes every placed node follow, if those do that it does not reach.
LEMMA DerivedDisables ==
  ASSUME NEW s, Graph(s), Rooted(s), NEW direct, direct \subseteq AllIds,
         \A id \in Placed(s) \ Below(s, direct) : Follows(s, id) /\ Quiet(s.nodes[id])
  PROVE  Disables(Derived(s, direct).graph)
<1> DEFINE D == DOMAIN s.nodes
           t == Derived(s, direct).graph
           u == ReconcileDisabled(s, direct)
           affected == AffectedNodes(NamedParents(s), ChangedNodes(s, direct))
           C == Below(s, direct)
           V == VisitedBelow(s, direct)
           above(id) == EffectiveParent(s.nodes[id].def)
<1>1. /\ SameTopology(s, t) /\ SameTopology(s, u)
      /\ \A id \in D :
           /\ u.nodes[id].own = s.nodes[id].own
           /\ t.nodes[id] = IF id \in affected /\ Aggregate(s.nodes[id].def)
                            THEN [u.nodes[id] EXCEPT !.control = Recomputed(u.nodes[id], Listed(t, id))]
                            ELSE u.nodes[id]
  BY DerivedNodes
<1>2. /\ \A id \in D \ V : u.nodes[id] = s.nodes[id]
      /\ \A id \in V : Follows(u, id) /\ Quiet(u.nodes[id])
  BY ReconcileDisabledFollows
<1>3. C \cap Placed(s) \subseteq V /\ V \subseteq C
  BY CandidatesVisited DEF VisitedBelow
<1>4. Placed(s) \subseteq D
  BY DEF Placed
<1>5. \A id \in Placed(s) : above(id) \in D => id \in Range(s.controls[above(id)])
  BY NodeStoreAssumption DEF Placed, Graph, GraphNodes
<1>6. \A p \in C : Range(s.controls[p]) \subseteq C
  BY BelowClosed
<1> HIDE DEF t, u, affected, C, V
<1>7. /\ DOMAIN t.nodes = D /\ DOMAIN u.nodes = D /\ t.controls = s.controls
      /\ \A id \in D : /\ NodeRecord(u.nodes[id]) /\ NodeRecord(t.nodes[id])
                       /\ t.nodes[id].def = s.nodes[id].def /\ u.nodes[id].def = s.nodes[id].def
  BY <1>1 DEF SameTopology
<1>8. ASSUME NEW id \in Placed(s) PROVE Follows(u, id) /\ Quiet(u.nodes[id])
  <2>1. CASE id \in C
    BY <1>2, <1>3, <2>1
  <2>2. CASE id \notin C
    <3>1. id \in D /\ u.nodes[id] = s.nodes[id] /\ Follows(s, id) /\ Quiet(s.nodes[id])
      BY <1>2, <1>3, <1>4, <2>2 DEF C
    <3>2. above(id) \in D => u.nodes[above(id)] = s.nodes[above(id)]
      BY <1>2, <1>3, <1>5, <1>6, <2>2
    <3>3. AboveDisabled(u, id) <=> AboveDisabled(s, id)
      BY <1>7, <3>1, <3>2 DEF AboveDisabled
    <3> QED BY <3>1, <3>3 DEF Follows
  <2> QED BY <2>1, <2>2
<1>9. ASSUME NEW id \in D
      PROVE t.nodes[id].disabled = u.nodes[id].disabled /\ t.nodes[id].own = u.nodes[id].own
  <2>1. CASE id \in affected /\ Aggregate(s.nodes[id].def)
    <3>1. t.nodes[id] = [u.nodes[id] EXCEPT !.control = Recomputed(u.nodes[id], Listed(t, id))]
      BY <1>1, <2>1
    <3> QED BY <1>7, <3>1 DEF NodeRecord
  <2>2. CASE ~(id \in affected /\ Aggregate(s.nodes[id].def))
    BY <1>1, <2>2
  <2> QED BY <2>1, <2>2
<1>10. Placed(t) = Placed(s)
  BY <1>7 DEF Placed
<1>11. ASSUME NEW id \in Placed(s) PROVE Follows(t, id)
  <2>1. id \in D /\ Follows(u, id)
    BY <1>4, <1>8
  <2>2. AboveDisabled(t, id) <=> AboveDisabled(u, id)
    BY <1>7, <1>9, <2>1 DEF AboveDisabled
  <2> QED BY <1>9, <2>1, <2>2 DEF Follows
<1>12. ASSUME NEW id \in Placed(s) PROVE Quiet(t.nodes[id])
  <2>1. id \in D /\ Quiet(u.nodes[id])
    BY <1>4, <1>8
  <2>2. CASE id \in affected /\ Aggregate(s.nodes[id].def)
    <3> SUFFICES ASSUME t.nodes[id].disabled, HasControl(t.nodes[id].def)
                 PROVE  Silent(t.nodes[id].control)
      BY DEF Quiet
    <3>1. u.nodes[id].disabled /\ Silent(u.nodes[id].control)
      BY <1>7, <1>9, <2>1 DEF Quiet
    <3>2. \A c \in Range(s.controls[id]) : t.nodes[c].disabled
      <4> TAKE c \in Range(s.controls[id])
      <4>1. c \in D /\ above(c) = id
        BY <2>1, ListedBelow
      <4>2. c \in Placed(s)
        BY <2>1, <4>1 DEF Placed
      <4>3. AboveDisabled(t, c)
        BY <1>7, <2>1, <4>1 DEF AboveDisabled
      <4> QED BY <1>11, <4>2, <4>3 DEF Follows
    <3>3. \A i \in DOMAIN Listed(t, id) : Listed(t, id)[i].disabled
      BY <1>7, <3>2 DEF Listed, Range
    <3>4. Silent(Recomputed(u.nodes[id], Listed(t, id)))
      BY <1>7, <2>1, <3>1, <3>3, RecomputedQuiet
    <3>5. t.nodes[id] = [u.nodes[id] EXCEPT !.control = Recomputed(u.nodes[id], Listed(t, id))]
      BY <1>1, <2>1, <2>2
    <3> HIDE DEF Silent
    <3> QED BY <1>7, <2>1, <3>4, <3>5 DEF NodeRecord
  <2>3. CASE ~(id \in affected /\ Aggregate(s.nodes[id].def))
    BY <1>1, <2>1, <2>3
  <2> QED BY <2>2, <2>3
<1> QED BY <1>10, <1>11, <1>12 DEF Disables, t

\* A draft is as the graph is, but for the nodes it differs in.
LEMMA NotDiffering ==
  ASSUME Graph(state), NEW s, Graph(s), NEW id \in DOMAIN s.nodes, id \notin Differing(s)
  PROVE  /\ id \in DOMAIN state.nodes
         /\ s.nodes[id] = state.nodes[id] /\ s.controls[id] = state.controls[id]
<1>1. id \in AllIds /\ DOMAIN s.controls = DOMAIN s.nodes /\ DOMAIN state.controls = DOMAIN state.nodes
  BY DEF Graph, GraphNodes
<1> QED BY <1>1 DEF Differing

\* So committing a draft keeps disablement.
LEMMA CommitsDisables ==
  ASSUME RootedControls, NEW X, Commits(X), Graph(state), Disables(state)
  PROVE  Disables(state')
<1>1. PICK s, fresh : Draft(s, X) /\ fresh \subseteq AllIds /\ Transact(s, fresh)
  BY DEF Commits
<1> DEFINE direct == Differing(s) \cup fresh
           D == DOMAIN s.nodes
<1>2. direct \subseteq AllIds
  BY <1>1 DEF Differing
<1>3. state' = Derived(s, direct).graph
  BY <1>1 DEF Transact
<1>4. Graph(s) /\ Rooted(s)
  BY <1>1, RootedGraph DEF Draft
<1>5. /\ direct \cap D \subseteq Below(s, direct)
      /\ \A p \in Below(s, direct) : Range(s.controls[p]) \subseteq Below(s, direct)
  BY <1>4, BelowClosed
<1>6. ASSUME NEW id \in Placed(s) \ Below(s, direct)
      PROVE  Follows(s, id) /\ Quiet(s.nodes[id])
  <2> DEFINE above == EffectiveParent(s.nodes[id].def)
  <2>1. id \in D /\ id \notin Differing(s)
    BY <1>5 DEF Placed
  <2>2. id \in DOMAIN state.nodes /\ s.nodes[id] = state.nodes[id]
    BY <1>4, <2>1, NotDiffering
  <2>3. above \in D \cup {None} /\ None \notin D /\ None \notin DOMAIN state.nodes
    BY <1>4, <2>1, ParentsKnown, NodeStoreAssumption DEF Graph, GraphNodes
  <2>4. CASE above = None
    <3>1. id \in Placed(state)
      BY <2>2, <2>4 DEF Placed
    <3>2. ~AboveDisabled(s, id) /\ ~AboveDisabled(state, id)
      BY <2>2, <2>3, <2>4 DEF AboveDisabled
    <3> QED BY <2>2, <3>1, <3>2 DEF Disables, Follows
  <2>5. CASE above \in D
    <3>1. id \in Range(s.controls[above])
      BY <2>3, <2>5 DEF Placed
    <3>2. above \notin Differing(s)
      BY <1>5, <2>5, <3>1
    <3>3. /\ above \in DOMAIN state.nodes
          /\ s.nodes[above] = state.nodes[above] /\ s.controls[above] = state.controls[above]
      BY <1>4, <2>5, <3>2, NotDiffering
    <3>4. id \in Placed(state)
      BY <2>2, <3>1, <3>3 DEF Placed
    <3>5. AboveDisabled(s, id) <=> AboveDisabled(state, id)
      BY <2>2, <2>5, <3>3 DEF AboveDisabled
    <3> QED BY <2>2, <3>4, <3>5 DEF Disables, Follows
  <2> QED BY <2>3, <2>4, <2>5
<1> HIDE DEF direct
<1> QED BY <1>2, <1>3, <1>4, <1>6, DerivedDisables

\* It holds of a mount.
LEMMA InitDerives ==
  ASSUME Init
  PROVE  \E s, direct : /\ Graph(s) /\ direct = DOMAIN s.nodes /\ direct \subseteq AllIds
                        /\ state = Derived(s, direct).graph
<1>1. PICK doc \in Documents \cap ValidDocuments :
        LET s == [nodes |-> [id \in DOMAIN doc |-> WithValidated(Snapshot(doc[id]))],
                  children |-> BuildChildren(doc),
                  controls |-> BuildControls(doc),
                  routes |-> << >>]
        IN  state = Derived(s, DOMAIN doc).graph
  BY DEF Init
<1> DEFINE nodes == [id \in DOMAIN doc |-> WithValidated(Snapshot(doc[id]))]
           s == [nodes |-> nodes, children |-> BuildChildren(doc),
                 controls |-> BuildControls(doc), routes |-> << >>]
<1>2. state = Derived(s, DOMAIN doc).graph
  BY <1>1
<1>3. ASSUME NEW id \in DOMAIN doc
      PROVE  NodeRecord(nodes[id]) /\ OwnsErrors(nodes[id]) /\ nodes[id].def = doc[id]
  <2>1. doc[id].own \in BOOLEAN
    BY DefinitionsOfDocuments
  <2> QED BY <2>1, SnapshotFacts, ValidatedKeeps DEF Keeps
<1>4. /\ GraphRecord(s) /\ s.nodes = nodes /\ s.children = BuildChildren(doc)
      /\ s.controls = BuildControls(doc) /\ DOMAIN nodes = DOMAIN doc
  BY DEF GraphRecord
<1> HIDE DEF nodes, s
<1>5. Graph(s)
  BY <1>3, <1>4, BuiltGraph
<1>6. DOMAIN doc \subseteq AllIds
  BY IdsOfDefinitions DEF ValidDocuments
<1> QED BY <1>2, <1>4, <1>5, <1>6

LEMMA InitDisables ==
  ASSUME RootedControls, Init
  PROVE  Disables(state)
<1>1. PICK s, direct : /\ Graph(s) /\ direct = DOMAIN s.nodes /\ direct \subseteq AllIds
                       /\ state = Derived(s, direct).graph
  BY InitDerives
<1>2. DOMAIN s.nodes \subseteq Below(s, direct)
  BY <1>1, BelowClosed
<1>3. Placed(s) \subseteq Below(s, direct)
  BY <1>2 DEF Placed
<1> QED BY <1>1, <1>3, RootedGraph, DerivedDisables

\* What is on the path of a node to the top of its lists.
LEMMA PathOfHolders ==
  ASSUME NEW s, Graph(s), NEW id \in DOMAIN s.nodes
  PROVE  Path(Holders(s), id) =
           {id} \cup (IF Holders(s)[id] = None THEN {} ELSE Path(Holders(s), Holders(s)[id]))
<1> DEFINE D == DOMAIN s.nodes
           up == Holders(s)
<1>1. PICK K \in Nat : \E rank : Ranks(s, K, rank)
  BY DEF Graph, GraphRanked
<1>2. PICK rank : Ranks(s, K, rank)
  BY <1>1
<1>3. /\ D \subseteq AllIds /\ DOMAIN up = D /\ \A x \in D : up[x] \in D \cup {None}
      /\ rank \in [D -> Nat] /\ \A x \in D : up[x] \in D => rank[up[x]] < rank[x]
  <2>1. \A x \in D : up[x] \in D \cup {None} /\ (up[x] # None => up[x] = EffectiveParent(s.nodes[x].def))
    BY PlacedHolders
  <2>2. DOMAIN up = D
    BY DEF Holders
  <2>3. D \subseteq AllIds /\ None \notin D
    BY NodeStoreAssumption DEF Graph, GraphNodes
  <2> HIDE DEF up
  <2> QED BY <1>2, <2>1, <2>2, <2>3 DEF Ranks
<1>4. None \notin D
  BY NodeStoreAssumption DEF Graph, GraphNodes
<1> HIDE DEF up, D
<1>5. Up(up, D) \in [D -> SUBSET D]
  BY DEF Up
<1>6. \A x \in D : Path(up, x) = Reach(Up(up, D), x)
  <2> TAKE x \in D
  <2>1. x \in AllIds \cup {None}
    BY <1>3
  <2>2. Path(up, x) = IF x \in D THEN Reach(Up(up, D), x) ELSE {}
    BY <1>3, <2>1, PathIsReach
  <2> QED BY <2>2
<1>7. id \in D
  BY DEF D
<1>8. Reach(Up(up, D), id) = {id} \cup UNION {Reach(Up(up, D), c) : c \in Up(up, D)[id]}
  BY <1>5, <1>7, ReachUnfolds
<1>9. CASE up[id] = None
  <2>1. Up(up, D)[id] = {}
    BY <1>4, <1>7, <1>9 DEF Up
  <2> QED BY <1>6, <1>7, <1>8, <1>9, <2>1 DEF up
<1>10. CASE up[id] \in D
  <2>1. Up(up, D)[id] = {up[id]}
    BY <1>7, <1>10 DEF Up
  <2>2. up[id] # None
    BY <1>4, <1>10
  <2> QED BY <1>6, <1>7, <1>8, <1>10, <2>1, <2>2 DEF up
<1> QED BY <1>3, <1>7, <1>9, <1>10

\* A placed node is disabled exactly when a node on its path is meant to be.
LEMMA DisabledByPath ==
  ASSUME NEW s, Graph(s), Rooted(s), Disables(s)
  PROVE  \A id \in Placed(s) :
           s.nodes[id].disabled <=> \E above \in Path(Holders(s), id) : s.nodes[above].own
<1> DEFINE D == DOMAIN s.nodes
           Meant(id) == \E above \in Path(Holders(s), id) : s.nodes[above].own
           S == {id \in D : id \in Placed(s) => (s.nodes[id].disabled <=> Meant(id))}
<1>1. PICK K \in Nat : \E rank : Ranks(s, K, rank)
  BY DEF Graph, GraphRanked
<1>2. PICK rank : Ranks(s, K, rank)
  BY <1>1
<1>3. rank \in [D -> Nat]
  BY <1>2 DEF Ranks
<1>4. ASSUME NEW id \in D, \A y \in D : rank[y] < rank[id] => y \in S
      PROVE  id \in S
  <2> SUFFICES ASSUME id \in Placed(s) PROVE s.nodes[id].disabled <=> Meant(id)
    OBVIOUS
  <2> DEFINE h == Holders(s)[id]
  <2>1. h = EffectiveParent(s.nodes[id].def) /\ h \in D \cup {None} /\ None \notin D
    BY PlacedHolders, NodeStoreAssumption DEF Graph, GraphNodes
  <2>2. Path(Holders(s), id) = {id} \cup (IF h = None THEN {} ELSE Path(Holders(s), h))
    BY PathOfHolders
  <2>3. Follows(s, id)
    BY DEF Disables
  <2> HIDE DEF h
  <2>4. CASE h = None
    <3>1. Meant(id) <=> s.nodes[id].own
      BY <2>2, <2>4
    <3>2. ~AboveDisabled(s, id)
      BY <2>1, <2>4 DEF AboveDisabled
    <3> QED BY <2>3, <3>1, <3>2 DEF Follows
  <2>5. CASE h \in D
    <3>1. id \in Range(s.controls[h])
      BY <2>1, <2>5 DEF Placed
    <3>2. h \in Placed(s)
      <4>1. s.controls[h] # << >>
        BY <3>1 DEF Range
      <4> QED BY <2>5, <4>1 DEF Rooted
    <3>3. rank[h] < rank[id]
      BY <1>2, <2>1, <2>5 DEF Ranks
    <3>4. s.nodes[h].disabled <=> Meant(h)
      BY <1>4, <2>5, <3>2, <3>3
    <3>5. Meant(id) <=> s.nodes[id].own \/ Meant(h)
      BY <2>1, <2>2, <2>5
    <3>6. AboveDisabled(s, id) <=> s.nodes[h].disabled
      BY <2>1, <2>5 DEF AboveDisabled
    <3> HIDE DEF Meant
    <3> QED BY <2>3, <3>4, <3>5, <3>6 DEF Follows
  <2> QED BY <2>1, <2>4, <2>5
<1>5. D \subseteq S
  <2> HIDE DEF S
  <2> QED BY <1>3, <1>4, RankInduction
<1> QED BY <1>5 DEF Placed

\* The invariant of documents whose controls are rooted.
DisableInv == StoreInv /\ Disables(state)

LEMMA DisableInvNext ==
  ASSUME RootedControls
  PROVE  DisableInv /\ [Next]_vars => DisableInv'
<1> SUFFICES ASSUME DisableInv, [Next]_vars PROVE DisableInv'
  OBVIOUS
<1>1. StoreInv'
  BY StoreInvNext DEF DisableInv
<1>2. Disables(state')
  <2>1. CASE UNCHANGED vars
    <3>1. state' = state
      BY <2>1 DEF vars
    <3> QED BY <3>1 DEF DisableInv
  <2>2. CASE Next
    <3>1. \E X : Commits(X)
      BY <2>2, NextCommits DEF DisableInv, StoreInv
    <3> QED BY <3>1, CommitsDisables DEF DisableInv, StoreInv
  <2> QED BY <2>1, <2>2
<1> QED BY <1>1, <1>2 DEF DisableInv

\* No order of commands leaves a control disabled that should be restored, or
\* enabled below one that is disabled, and a disabled control is silent, in all
\* documents whose controls are rooted.
THEOREM DisablementEffective ==
  ASSUME RootedControls
  PROVE  Spec => []EffectiveDisabled
<1>1. Init => DisableInv
  BY StoreInvInit, InitDisables DEF DisableInv
<1>2. DisableInv /\ [Next]_vars => DisableInv'
  BY DisableInvNext
<1>3. DisableInv => EffectiveDisabled
  <2> SUFFICES ASSUME DisableInv,
                      NEW id \in Present, Holders(state)[id] # None \/ Node(id).def.parent = None
               PROVE  /\ Node(id).disabled <=> \E above \in Path(Holders(state), id) : Node(above).own
                      /\ Node(id).disabled /\ IsControl(id) => Silent(Node(id).control)
    BY DEF EffectiveDisabled
  <2>1. Graph(state) /\ Disables(state) /\ id \in DOMAIN state.nodes
    BY DEF DisableInv, StoreInv, Present
  <2>2. id \in Placed(state)
    BY <2>1, PlacedHolders DEF Node
  <2>3. Rooted(state)
    BY <2>1, RootedGraph
  <2>4. state.nodes[id].disabled <=> \E above \in Path(Holders(state), id) : state.nodes[above].own
    BY <2>1, <2>2, <2>3, DisabledByPath
  <2>5. Quiet(state.nodes[id])
    BY <2>1, <2>2 DEF Disables
  <2> QED BY <2>4, <2>5 DEF Node, Quiet, IsControl
<1> QED BY <1>1, <1>2, <1>3, PTL DEF Spec

-----------------------------------------------------------------------------
(* What aggregates hold.                                                   *)

\* The control c of an aggregate is computed from the nodes in its list.
Summary(id, c, listed) ==
  LET children == ControlChildren(listed)
      active == ActiveChildren(children)
      enabled == EnabledControls(listed)
  IN  /\ [i \in DOMAIN c.raw |-> c.raw[i][2]] = [i \in DOMAIN children |-> children[i].control.raw]
      /\ [i \in DOMAIN c.value |-> c.value[i][2]] = [i \in DOMAIN active |-> active[i].control.value]
      /\ c.errors = (UNION {child.control.errors : child \in enabled}) \cup {e \in c.errors : e.owner = id}
      /\ c.pending <=> (\E child \in enabled : child.control.pending) \/ c.request # None
      /\ c.dirty <=> \E child \in Controls(listed) : child.control.dirty

Summarises(s) ==
  \A a \in DOMAIN s.nodes :
    Aggregate(s.nodes[a].def) => Summary(a, s.nodes[a].control, Listed(s, a))

\* What is computed anew is such a control.
LEMMA RecomputedSummary ==
  ASSUME NEW n, NodeRecord(n), NEW listed
  PROVE  Summary(n.def.id, Recomputed(n, listed), listed)
<1> DEFINE children == ControlChildren(listed)
           active == ActiveChildren(children)
           entry(child, v) == << IF n.def.kind = "array" THEN None ELSE Key(child.def), v >>
           value == [i \in DOMAIN active |-> entry(active[i], active[i].control.value)]
           raw == [i \in DOMAIN children |-> entry(children[i], children[i].control.raw)]
           silent == n.disabled \/ (children # << >> /\ active = << >>)
           enabled == EnabledControls(listed)
           pending == (\E child \in enabled : child.control.pending) \/ n.control.request # None
           sync == IF silent THEN {} ELSE SyncErrors(n.def, value)
           errors == (UNION {child.control.errors : child \in enabled})
                     \cup {e \in n.control.errors : e.owner = n.def.id /\ e.async} \cup sync
           dirty == \E child \in Controls(listed) : child.control.dirty
           status == CASE silent -> "disabled"
                       [] ~silent /\ pending -> "pending"
                       [] ~silent /\ ~pending -> Verdict(errors)
           c == Recomputed(n, listed)
<1>1. c = [n.control EXCEPT !.value = value, !.raw = raw, !.errors = errors, !.pending = pending,
                            !.dirty = dirty, !.status = status]
  BY DEF Recomputed
<1>2. \A e \in sync : e.owner = n.def.id
  BY DEF SyncErrors, Error
<1>3. [i \in DOMAIN raw |-> raw[i][2]] = [i \in DOMAIN children |-> children[i].control.raw]
  <2> HIDE DEF children
  <2> QED OBVIOUS
<1>4. [i \in DOMAIN value |-> value[i][2]] = [i \in DOMAIN active |-> active[i].control.value]
  <2> HIDE DEF active
  <2> QED OBVIOUS
<1>5. errors = (UNION {child.control.errors : child \in enabled}) \cup {e \in errors : e.owner = n.def.id}
  <2> HIDE DEF sync, enabled
  <2> QED BY <1>2
<1> HIDE DEF value, raw, errors, pending, dirty, status, c
<1>6. /\ c.value = value /\ c.raw = raw /\ c.errors = errors /\ c.pending = pending
      /\ c.dirty = dirty /\ c.request = n.control.request
  BY <1>1 DEF NodeRecord, ControlRecord
<1>7. c.pending <=> (\E child \in enabled : child.control.pending) \/ c.request # None
  BY <1>6 DEF pending
<1>8. c.dirty <=> \E child \in Controls(listed) : child.control.dirty
  BY <1>6 DEF dirty
<1> HIDE DEF children, active, enabled
<1>9. /\ [i \in DOMAIN c.raw |-> c.raw[i][2]] = [i \in DOMAIN children |-> children[i].control.raw]
      /\ [i \in DOMAIN c.value |-> c.value[i][2]] = [i \in DOMAIN active |-> active[i].control.value]
      /\ c.errors = (UNION {child.control.errors : child \in enabled}) \cup {e \in c.errors : e.owner = n.def.id}
  BY <1>3, <1>4, <1>5, <1>6
<1> QED BY <1>7, <1>8, <1>9 DEF Summary, c, children, active, enabled

\* Deriving makes every aggregate one, if those are that it does not reach.
LEMMA DerivedSummarises ==
  ASSUME NEW s, Graph(s), NEW direct, direct \subseteq AllIds,
         \A a \in DOMAIN s.nodes \ AffectedNodes(NamedParents(s), direct) :
           Aggregate(s.nodes[a].def) => Summary(a, s.nodes[a].control, Listed(s, a))
  PROVE  Summarises(Derived(s, direct).graph)
<1> DEFINE D == DOMAIN s.nodes
           t == Derived(s, direct).graph
           u == ReconcileDisabled(s, direct)
           changed == ChangedNodes(s, direct)
           affected == AffectedNodes(NamedParents(s), changed)
<1>1. /\ SameTopology(s, t) /\ SameTopology(s, u)
      /\ changed \subseteq AllIds
      /\ \A id \in D :
           t.nodes[id] = IF id \in affected /\ Aggregate(s.nodes[id].def)
                         THEN [u.nodes[id] EXCEPT !.control = Recomputed(u.nodes[id], Listed(t, id))]
                         ELSE u.nodes[id]
  BY DerivedNodes
<1>2. /\ direct \subseteq changed
      /\ \A id \in D \ changed : u.nodes[id] = s.nodes[id]
  BY DEF ChangedNodes
<1> HIDE DEF t, u, changed
<1>3. /\ changed \cap D \subseteq affected
      /\ \A p \in D : \A c \in Range(s.controls[p]) : c \in affected => p \in affected
      /\ AffectedNodes(NamedParents(s), direct) \subseteq affected
  BY <1>1, <1>2, AffectedClosed
<1> HIDE DEF affected
<1>4. /\ DOMAIN t.nodes = D /\ t.controls = s.controls
      /\ \A id \in D : /\ NodeRecord(u.nodes[id]) /\ t.nodes[id].def = s.nodes[id].def
                       /\ u.nodes[id].def = s.nodes[id].def /\ s.nodes[id].def.id = id
  BY <1>1 DEF SameTopology, Graph, GraphNodes
<1>5. ASSUME NEW a \in D, Aggregate(s.nodes[a].def)
      PROVE  Summary(a, t.nodes[a].control, Listed(t, a))
  <2>1. CASE a \in affected
    <3>1. t.nodes[a] = [u.nodes[a] EXCEPT !.control = Recomputed(u.nodes[a], Listed(t, a))]
      BY <1>1, <1>5, <2>1
    <3>2. t.nodes[a].control = Recomputed(u.nodes[a], Listed(t, a))
      BY <1>4, <3>1 DEF NodeRecord
    <3>3. Summary(u.nodes[a].def.id, Recomputed(u.nodes[a], Listed(t, a)), Listed(t, a))
      BY <1>4, RecomputedSummary
    <3> QED BY <1>4, <3>2, <3>3
  <2>2. CASE a \notin affected
    <3>1. \A id \in D \ affected : t.nodes[id] = s.nodes[id]
      BY <1>1, <1>2, <1>3
    <3>2. \A c \in Range(s.controls[a]) : c \in D \ affected
      BY <1>3, <2>2, ListedBelow
    <3>3. Listed(t, a) = Listed(s, a)
      <4>1. \A i \in DOMAIN s.controls[a] : t.nodes[s.controls[a][i]] = s.nodes[s.controls[a][i]]
        BY <3>1, <3>2 DEF Range
      <4> QED BY <1>4, <4>1 DEF Listed
    <3>4. Summary(a, s.nodes[a].control, Listed(s, a))
      BY <1>3, <1>5, <2>2
    <3> QED BY <2>2, <3>1, <3>3, <3>4
  <2> QED BY <2>1, <2>2
<1> QED BY <1>4, <1>5 DEF Summarises, t

\* So committing a draft keeps the summaries.
LEMMA CommitsSummarises ==
  ASSUME NEW X, Commits(X), Graph(state), Summarises(state)
  PROVE  Summarises(state')
<1>1. PICK s, fresh : Draft(s, X) /\ fresh \subseteq AllIds /\ Transact(s, fresh)
  BY DEF Commits
<1> DEFINE direct == Differing(s) \cup fresh
           D == DOMAIN s.nodes
           A == AffectedNodes(NamedParents(s), direct)
<1>2. direct \subseteq AllIds
  BY <1>1 DEF Differing
<1>3. state' = Derived(s, direct).graph
  BY <1>1 DEF Transact
<1>4. Graph(s)
  BY <1>1 DEF Draft
<1>5. Differing(s) \subseteq direct
  OBVIOUS
<1> HIDE DEF direct
<1>6. /\ direct \cap D \subseteq A
      /\ \A p \in D : \A c \in Range(s.controls[p]) : c \in A => p \in A
  BY <1>2, <1>4, AffectedClosed
<1> HIDE DEF A
<1>7. \A id \in D \ A : /\ id \in DOMAIN state.nodes
                        /\ s.nodes[id] = state.nodes[id] /\ s.controls[id] = state.controls[id]
  BY <1>4, <1>5, <1>6, NotDiffering
<1>8. ASSUME NEW a \in D \ A, Aggregate(s.nodes[a].def)
      PROVE  Summary(a, s.nodes[a].control, Listed(s, a))
  <2>1. \A c \in Range(s.controls[a]) : c \in D \ A
    BY <1>4, <1>6, ListedBelow
  <2>2. \A i \in DOMAIN s.controls[a] : s.nodes[s.controls[a][i]] = state.nodes[s.controls[a][i]]
    BY <1>7, <2>1 DEF Range
  <2>3. Listed(s, a) = Listed(state, a)
    BY <1>7, <2>2 DEF Listed
  <2>4. Summary(a, state.nodes[a].control, Listed(state, a))
    BY <1>7, <1>8 DEF Summarises
  <2> QED BY <1>7, <2>3, <2>4
<1> QED BY <1>2, <1>3, <1>4, <1>8, DerivedSummarises DEF A

\* They hold of a mount.
LEMMA InitSummarises ==
  ASSUME Init
  PROVE  Summarises(state)
<1>1. PICK s, direct : /\ Graph(s) /\ direct = DOMAIN s.nodes /\ direct \subseteq AllIds
                       /\ state = Derived(s, direct).graph
  BY InitDerives
<1>2. DOMAIN s.nodes \subseteq AffectedNodes(NamedParents(s), direct)
  BY <1>1, AffectedClosed
<1> QED BY <1>1, <1>2, DerivedSummarises

\* Along next there is an end.
Stratified(D, next) ==
  \E K \in Nat : \E rank \in [D -> 0..K] : \A x \in D : \A c \in next[x] : rank[x] < rank[c]

\* A node of T gathers its own and what the next ones in good gather.  Under a
\* node outside good there is none of good.
Gathers(D, next, T, good, own, all) ==
  /\ T \in SUBSET D /\ good \in SUBSET D
  /\ \A x \in T : next[x] \subseteq T
  /\ \A x \in T \ good : next[x] \cap good = {}
  /\ \A x \in T : all[x] = own[x] \cup UNION {all[c] : c \in next[x] \cap good}

\* What is gathered step by step is what all of good that is reached has of its own.
LEMMA GatheredBelow ==
  ASSUME NEW D, NEW next \in [D -> SUBSET D], Stratified(D, next),
         NEW T, NEW good, NEW own, NEW all, Gathers(D, next, T, good, own, all)
  PROVE  \A x \in T : all[x] = own[x] \cup UNION {own[y] : y \in (Reach(next, x) \ {x}) \cap good}
<1>0. PICK K \in Nat : \E rank \in [D -> 0..K] : \A x \in D : \A c \in next[x] : rank[x] < rank[c]
  BY DEF Stratified
<1>11. PICK rank \in [D -> 0..K] : \A x \in D : \A c \in next[x] : rank[x] < rank[c]
  BY <1>0
<1>12. /\ T \in SUBSET D /\ good \in SUBSET D
       /\ \A x \in T : next[x] \subseteq T
       /\ \A x \in T \ good : next[x] \cap good = {}
       /\ \A x \in T : all[x] = own[x] \cup UNION {all[c] : c \in next[x] \cap good}
  BY DEF Gathers
<1> DEFINE Gathered(x) == own[x] \cup UNION {own[y] : y \in (Reach(next, x) \ {x}) \cap good}
           S == {x \in D : x \in T => all[x] = Gathered(x)}
           low == [x \in D |-> K - rank[x]]
<1>1. low \in [D -> Nat]
  BY <1>11
<1>2. \A x \in D : \A c \in next[x] : c \in D /\ low[c] < low[x]
  BY <1>11
<1>3. \A x \in D : /\ x \in Reach(next, x) /\ Reach(next, x) \subseteq D
                   /\ \A R \in SUBSET D : x \in R /\ Closed(next, R) => Reach(next, x) \subseteq R
  BY ReachLeast
<1>4. \A x \in D : Reach(next, x) = {x} \cup UNION {Reach(next, c) : c \in next[x]}
  BY ReachUnfolds
<1>5. ASSUME NEW x \in D, NEW c \in next[x] PROVE x \notin Reach(next, c)
  <2> DEFINE R == {y \in D : rank[x] < rank[y]}
  <2>1. R \in SUBSET D /\ c \in R /\ x \notin R
    BY <1>5, <1>11
  <2>2. Closed(next, R)
    <3> SUFFICES ASSUME NEW y \in R, NEW z \in next[y] PROVE z \in R
      BY DEF Closed
    <3>1. y \in D /\ z \in D /\ rank[y] < rank[z] /\ rank[x] < rank[y]
      BY <1>11
    <3> QED BY <1>11, <3>1
  <2> HIDE DEF R
  <2> QED BY <1>3, <2>1, <2>2
<1>6. ASSUME NEW c \in T \ good PROVE Reach(next, c) \cap good = {}
  <2>1. T \ good \in SUBSET D /\ Closed(next, T \ good)
    BY <1>12 DEF Closed
  <2> QED BY <1>3, <1>12, <2>1
<1>7. ASSUME NEW x \in D, \A y \in D : low[y] < low[x] => y \in S
      PROVE  x \in S
  <2> SUFFICES ASSUME x \in T PROVE all[x] = Gathered(x)
    OBVIOUS
  <2>1. \A c \in next[x] : c \in T /\ all[c] = Gathered(c)
    BY <1>2, <1>7, <1>12
  <2>2. \A c \in next[x] \cap good : Gathered(c) = UNION {own[y] : y \in Reach(next, c) \cap good}
    <3> TAKE c \in next[x] \cap good
    <3>1. Reach(next, c) \cap good = {c} \cup ((Reach(next, c) \ {c}) \cap good)
      BY <1>3, <1>12
    <3> QED BY <3>1
  <2>3. (Reach(next, x) \ {x}) \cap good = UNION {Reach(next, c) \cap good : c \in next[x] \cap good}
    <3>1. Reach(next, x) \ {x} = UNION {Reach(next, c) : c \in next[x]}
      BY <1>4, <1>5
    <3>2. \A c \in next[x] \ good : Reach(next, c) \cap good = {}
      BY <1>6, <1>12
    <3> QED BY <3>1, <3>2
  <2> HIDE DEF Gathered, S, low
  <2>4. UNION {all[c] : c \in next[x] \cap good} =
          UNION {UNION {own[y] : y \in Reach(next, c) \cap good} : c \in next[x] \cap good}
    BY <2>1, <2>2
  <2>5. UNION {UNION {own[y] : y \in Reach(next, c) \cap good} : c \in next[x] \cap good} =
          UNION {own[y] : y \in (Reach(next, x) \ {x}) \cap good}
    BY <2>3
  <2> QED BY <1>12, <2>4, <2>5 DEF Gathered
<1>8. D \subseteq S
  <2> HIDE DEF S, low
  <2> QED BY <1>1, <1>7, RankInduction
<1> QED BY <1>8, <1>12

\* The controls below aggregates: fields, which hold nothing, and aggregates.
Summed(s) ==
  {id \in DOMAIN s.nodes : \/ Aggregate(s.nodes[id].def)
                           \/ Leaf(s.nodes[id].def) /\ s.controls[id] = << >>}

\* In a graph of such documents an aggregate holds only these.
LEMMA SummedClosed ==
  ASSUME ControlMembers, NEW s, Graph(s), NEW x \in Summed(s)
  PROVE  Lists(s)[x] \subseteq Summed(s)
<1> DEFINE D == DOMAIN s.nodes
<1>1. x \in D /\ Lists(s)[x] = Range(s.controls[x])
  BY DEF Summed, Lists
<1>2. \A p \in D : \A c \in Range(s.controls[p]) :
        /\ c \in D /\ s.nodes[c].def \in Members /\ LogicalParent(s.nodes[c].def) = p
        /\ s.nodes[p].def \in Definitions /\ s.nodes[p].def.id = p
  BY ListedBelow DEF Graph, GraphNodes, GraphIndexes, GraphLists
<1>3. \A p \in D : Leaf(s.nodes[p].def) => s.controls[p] = << >>
  <2> SUFFICES ASSUME NEW p \in D, Leaf(s.nodes[p].def), s.controls[p] # << >> PROVE FALSE
    OBVIOUS
  <2>1. s.controls[p] \in Seq(D)
    BY DEF Graph, GraphIndexes
  <2>2. Len(s.controls[p]) \in Nat /\ Len(s.controls[p]) # 0
    BY <2>1
  <2>3. s.controls[p][1] \in Range(s.controls[p])
    BY <2>1, <2>2 DEF Range
  <2> QED BY <1>2, <2>3 DEF ControlMembers
<1>4. ASSUME NEW c \in Range(s.controls[x]) PROVE c \in Summed(s)
  <2>1. Aggregate(s.nodes[x].def)
    BY <1>4 DEF Summed, Range
  <2>2. c \in D /\ (Leaf(s.nodes[c].def) \/ Aggregate(s.nodes[c].def))
    BY <1>1, <1>2, <1>4, <2>1 DEF ControlMembers
  <2> QED BY <1>3, <2>2 DEF Summed
<1> QED BY <1>1, <1>4

\* The enabled nodes of a graph.
Enabled(s) == {id \in DOMAIN s.nodes : ~s.nodes[id].disabled}

\* Under a disabled node of a list nothing is enabled.
LEMMA NoneEnabledBelow ==
  ASSUME NEW s, Graph(s), Disables(s), NEW x \in DOMAIN s.nodes \ Enabled(s)
  PROVE  Lists(s)[x] \cap Enabled(s) = {}
<1> SUFFICES ASSUME NEW c \in Lists(s)[x] PROVE c \notin Enabled(s)
  OBVIOUS
<1>1. x \in DOMAIN s.nodes /\ s.nodes[x].disabled /\ c \in Range(s.controls[x])
  BY DEF Enabled, Lists
<1>2. c \in DOMAIN s.nodes /\ EffectiveParent(s.nodes[c].def) = x
  BY <1>1, ListedBelow
<1>3. c \in Placed(s)
  BY <1>1, <1>2 DEF Placed
<1>4. AboveDisabled(s, c) /\ Follows(s, c)
  BY <1>1, <1>2, <1>3 DEF AboveDisabled, Disables
<1> QED BY <1>4 DEF Follows, Enabled

\* The controls that an aggregate sees are the nodes in its list.
LEMMA ControlsListed ==
  ASSUME ControlMembers, NEW s, Graph(s), NEW x \in Summed(s)
  PROVE  /\ Controls(Listed(s, x)) = {s.nodes[c] : c \in Lists(s)[x]}
         /\ EnabledControls(Listed(s, x)) = {s.nodes[c] : c \in Lists(s)[x] \cap Enabled(s)}
<1>1. /\ x \in DOMAIN s.nodes /\ Lists(s)[x] = Range(s.controls[x])
      /\ \A c \in Range(s.controls[x]) : c \in DOMAIN s.nodes
  BY ListedBelow DEF Summed, Lists
<1>2. \A c \in Lists(s)[x] : HasControl(s.nodes[c].def)
  BY SummedClosed DEF Summed, HasControl, Leaf, Aggregate
<1>3. Range(Listed(s, x)) = {s.nodes[c] : c \in Lists(s)[x]}
  <2> DEFINE list == s.controls[x]
             listed == Listed(s, x)
  <2>1. DOMAIN listed = DOMAIN list /\ \A i \in DOMAIN list : listed[i] = s.nodes[list[i]]
    BY DEF Listed
  <2>2. Lists(s)[x] = {list[i] : i \in DOMAIN list} /\ Range(listed) = {listed[i] : i \in DOMAIN listed}
    BY <1>1 DEF Range
  <2> HIDE DEF list, listed
  <2>3. Range(listed) = {s.nodes[c] : c \in Lists(s)[x]}
    BY <2>1, <2>2
  <2> QED BY <2>3 DEF listed
<1>4. Controls(Listed(s, x)) = {s.nodes[c] : c \in Lists(s)[x]}
  BY <1>2, <1>3 DEF Controls
<1>5. EnabledControls(Listed(s, x)) = {s.nodes[c] : c \in Lists(s)[x] \cap Enabled(s)}
  BY <1>1, <1>4 DEF EnabledControls, Enabled
<1> QED BY <1>4, <1>5

\* A control awaits a validation of its own.
Awaits(n) == \/ Leaf(n.def) /\ n.control.pending
             \/ Aggregate(n.def) /\ n.control.request # None

Edited(n) == Leaf(n.def) /\ n.control.dirty

\* The enabled nodes below an aggregate that are reached in its lists.
EnabledReach(s, a) == (Reach(Lists(s), a) \ {a}) \cap Enabled(s)

\* What an aggregate gathers from its list it gathers from all that is below it.
LEMMA SummariesGather ==
  ASSUME ControlMembers, NEW s, Graph(s), Disables(s), Summarises(s),
         NEW a \in DOMAIN s.nodes, Aggregate(s.nodes[a].def)
  PROVE  LET control == s.nodes[a].control
             below == EnabledReach(s, a)
         IN  /\ control.errors = UNION {OwnErrors(s, id) : id \in below \cup {a}}
             /\ control.pending <=> control.request # None \/ \E id \in below : Awaits(s.nodes[id])
             /\ control.dirty <=> \E id \in Reach(Lists(s), a) : Edited(s.nodes[id])
<1> DEFINE D == DOMAIN s.nodes
           next == Lists(s)
           T == Summed(s)
           good == Enabled(s)
           Is(b) == IF b THEN {1} ELSE {}
           E(x) == s.nodes[x].control.errors
           Own(x) == OwnErrors(s, x)
<1>1. next \in [D -> SUBSET D] /\ T \in SUBSET D /\ good \in SUBSET D
  BY ListsType DEF Summed, Enabled
<1>2. PICK K \in Nat : \E rank : Ranks(s, K, rank)
  BY DEF Graph, GraphRanked
<1>3. PICK rank : Ranks(s, K, rank)
  BY <1>2
<1>4. Stratified(D, next)
  <2>1. rank \in [D -> 0..K] /\ \A x \in D : \A c \in next[x] : rank[x] < rank[c]
    BY <1>3, ListedBelow DEF Ranks, Lists
  <2> QED BY <2>1 DEF Stratified
<1>5. \A x \in T : next[x] \subseteq T
  BY SummedClosed
<1>6. \A x \in T \ good : next[x] \cap good = {}
  BY <1>1, NoneEnabledBelow
<1>7. \A x \in T : ~Aggregate(s.nodes[x].def) => Leaf(s.nodes[x].def) /\ next[x] = {}
  BY DEF Summed, Lists, Range
<1>8. \A x \in T : Aggregate(s.nodes[x].def) =>
        LET c == s.nodes[x].control
        IN  /\ c.errors = (UNION {child.control.errors : child \in EnabledControls(Listed(s, x))})
                          \cup {e \in c.errors : e.owner = x}
            /\ c.pending <=> (\E child \in EnabledControls(Listed(s, x)) : child.control.pending)
                             \/ c.request # None
            /\ c.dirty <=> \E child \in Controls(Listed(s, x)) : child.control.dirty
  BY <1>1 DEF Summarises, Summary
<1>9. \A x \in T : /\ Controls(Listed(s, x)) = {s.nodes[c] : c \in next[x]}
                   /\ EnabledControls(Listed(s, x)) = {s.nodes[c] : c \in next[x] \cap good}
  BY ControlsListed
<1>10. \A x \in T : Aggregate(s.nodes[x].def) =>
         LET c == s.nodes[x].control
         IN  /\ c.errors = (UNION {E(k) : k \in next[x] \cap good}) \cup Own(x)
             /\ c.pending <=> (\E k \in next[x] \cap good : s.nodes[k].control.pending) \/ c.request # None
             /\ c.dirty <=> \E k \in next[x] : s.nodes[k].control.dirty
  <2> SUFFICES ASSUME NEW x \in T, Aggregate(s.nodes[x].def)
               PROVE  LET c == s.nodes[x].control
                      IN  /\ c.errors = (UNION {E(k) : k \in next[x] \cap good}) \cup Own(x)
                          /\ c.pending <=> (\E k \in next[x] \cap good : s.nodes[k].control.pending)
                                           \/ c.request # None
                          /\ c.dirty <=> \E k \in next[x] : s.nodes[k].control.dirty
    OBVIOUS
  <2>1. Own(x) = {e \in E(x) : e.owner = x}
    BY <1>1 DEF OwnErrors
  <2>2. UNION {child.control.errors : child \in EnabledControls(Listed(s, x))} =
          UNION {E(k) : k \in next[x] \cap good}
    BY <1>9
  <2>3. (\E child \in EnabledControls(Listed(s, x)) : child.control.pending) <=>
          \E k \in next[x] \cap good : s.nodes[k].control.pending
    BY <1>9
  <2>4. (\E child \in Controls(Listed(s, x)) : child.control.dirty) <=>
          \E k \in next[x] : s.nodes[k].control.dirty
    BY <1>9
  <2> QED BY <1>8, <2>1, <2>2, <2>3, <2>4
<1>11. \A x \in T : Leaf(s.nodes[x].def) => E(x) = Own(x)
  BY <1>1 DEF OwnErrors, OwnsErrors, Graph, GraphNodes
<1>12. a \in T /\ ~Leaf(s.nodes[a].def)
  BY DEF Summed, Leaf, Aggregate
<1>13. \A x \in T : ~(Leaf(s.nodes[x].def) /\ Aggregate(s.nodes[x].def))
  BY DEF Leaf, Aggregate
<1>14. Reach(next, a) \subseteq T /\ Reach(next, a) \subseteq D
  BY <1>1, <1>5, <1>12, ReachLeast DEF Closed
<1> HIDE DEF D, next, T, good, E, Own
<1>15. E(a) = UNION {Own(y) : y \in EnabledReach(s, a) \cup {a}}
  <2> DEFINE own == [x \in D |-> Own(x)]
             all == [x \in D |-> E(x)]
  <2>1. \A x \in T : all[x] = own[x] \cup UNION {all[c] : c \in next[x] \cap good}
    <3> TAKE x \in T
    <3>1. x \in D /\ next[x] \cap good \subseteq D
      BY <1>1
    <3>2. all[x] = E(x) /\ own[x] = Own(x)
      BY <3>1
    <3>3. {all[c] : c \in next[x] \cap good} = {E(c) : c \in next[x] \cap good}
      BY <3>1
    <3> HIDE DEF all, own
    <3>4. CASE Aggregate(s.nodes[x].def)
      BY <1>10, <3>2, <3>3, <3>4 DEF E
    <3>5. CASE ~Aggregate(s.nodes[x].def)
      BY <1>7, <1>11, <3>2, <3>5
    <3> QED BY <3>4, <3>5
  <2> HIDE DEF all, own
  <2>2. all[a] = own[a] \cup UNION {own[y] : y \in (Reach(next, a) \ {a}) \cap good}
    <3>1. Gathers(D, next, T, good, own, all)
      BY <1>1, <1>5, <1>6, <2>1 DEF Gathers
    <3>2. \A x \in T : all[x] = own[x] \cup UNION {own[y] : y \in (Reach(next, x) \ {x}) \cap good}
      BY <1>1, <1>4, <3>1, GatheredBelow
    <3> QED BY <1>12, <3>2
  <2>3. \A x \in D : all[x] = E(x) /\ own[x] = Own(x)
    BY DEF all, own
  <2>4. a \in D /\ (Reach(next, a) \ {a}) \cap good \subseteq D
    BY <1>1, <1>12
  <2>5. {own[y] : y \in (Reach(next, a) \ {a}) \cap good} =
          {Own(y) : y \in (Reach(next, a) \ {a}) \cap good}
    BY <2>3, <2>4
  <2>6. E(a) = Own(a) \cup UNION {Own(y) : y \in (Reach(next, a) \ {a}) \cap good}
    BY <2>2, <2>3, <2>4, <2>5
  <2> QED BY <2>6 DEF EnabledReach, next, good
<1>16. s.nodes[a].control.pending <=>
         s.nodes[a].control.request # None \/ \E id \in EnabledReach(s, a) : Awaits(s.nodes[id])
  <2> DEFINE own == [x \in D |-> Is(Awaits(s.nodes[x]))]
             all == [x \in D |-> Is(s.nodes[x].control.pending)]
  <2>1. \A x \in T : all[x] = own[x] \cup UNION {all[c] : c \in next[x] \cap good}
    <3> TAKE x \in T
    <3>1. x \in D /\ next[x] \cap good \subseteq D
      BY <1>1
    <3>2. all[x] = Is(s.nodes[x].control.pending) /\ own[x] = Is(Awaits(s.nodes[x]))
      BY <3>1
    <3>3. UNION {all[c] : c \in next[x] \cap good} =
            Is(\E c \in next[x] \cap good : s.nodes[c].control.pending)
      BY <3>1
    <3> HIDE DEF all, own
    <3>4. CASE Aggregate(s.nodes[x].def)
      <4>1. Awaits(s.nodes[x]) <=> s.nodes[x].control.request # None
        BY <1>13, <3>4 DEF Awaits
      <4>2. s.nodes[x].control.pending <=>
              (\E k \in next[x] \cap good : s.nodes[k].control.pending) \/ s.nodes[x].control.request # None
        BY <1>10, <3>4
      <4> QED BY <3>2, <3>3, <4>1, <4>2
    <3>5. CASE ~Aggregate(s.nodes[x].def)
      <4>1. Awaits(s.nodes[x]) <=> s.nodes[x].control.pending
        BY <1>7, <3>5 DEF Awaits
      <4>2. next[x] = {}
        BY <1>7, <3>5
      <4> QED BY <3>2, <3>3, <4>1, <4>2
    <3> QED BY <3>4, <3>5
  <2> HIDE DEF all, own
  <2>2. all[a] = own[a] \cup UNION {own[y] : y \in (Reach(next, a) \ {a}) \cap good}
    <3>1. Gathers(D, next, T, good, own, all)
      BY <1>1, <1>5, <1>6, <2>1 DEF Gathers
    <3>2. \A x \in T : all[x] = own[x] \cup UNION {own[y] : y \in (Reach(next, x) \ {x}) \cap good}
      BY <1>1, <1>4, <3>1, GatheredBelow
    <3> QED BY <1>12, <3>2
  <2>3. \A x \in D : all[x] = Is(s.nodes[x].control.pending) /\ own[x] = Is(Awaits(s.nodes[x]))
    BY DEF all, own
  <2>4. a \in D /\ (Reach(next, a) \ {a}) \cap good \subseteq D
    BY <1>1, <1>12
  <2>5. UNION {own[y] : y \in (Reach(next, a) \ {a}) \cap good} =
          Is(\E y \in (Reach(next, a) \ {a}) \cap good : Awaits(s.nodes[y]))
    BY <2>3, <2>4
  <2>6. s.nodes[a].control.pending <=>
          Awaits(s.nodes[a]) \/ \E y \in (Reach(next, a) \ {a}) \cap good : Awaits(s.nodes[y])
    BY <2>2, <2>3, <2>4, <2>5
  <2>7. Awaits(s.nodes[a]) <=> s.nodes[a].control.request # None
    BY <1>12 DEF Awaits
  <2> QED BY <2>6, <2>7 DEF EnabledReach, next, good
<1>17. s.nodes[a].control.dirty <=> \E id \in Reach(Lists(s), a) : Edited(s.nodes[id])
  <2> DEFINE own == [x \in D |-> Is(Edited(s.nodes[x]))]
             all == [x \in D |-> Is(s.nodes[x].control.dirty)]
  <2>1. \A x \in T : all[x] = own[x] \cup UNION {all[c] : c \in next[x] \cap D}
    <3> TAKE x \in T
    <3>1. x \in D /\ next[x] \cap D = next[x] /\ next[x] \subseteq D
      BY <1>1
    <3>2. all[x] = Is(s.nodes[x].control.dirty) /\ own[x] = Is(Edited(s.nodes[x]))
      BY <3>1
    <3>3. UNION {all[c] : c \in next[x] \cap D} = Is(\E c \in next[x] : s.nodes[c].control.dirty)
      BY <3>1
    <3> HIDE DEF all, own
    <3>4. CASE Aggregate(s.nodes[x].def)
      <4>1. ~Edited(s.nodes[x])
        BY <1>13, <3>4 DEF Edited
      <4>2. s.nodes[x].control.dirty <=> \E k \in next[x] : s.nodes[k].control.dirty
        BY <1>10, <3>4
      <4> QED BY <3>2, <3>3, <4>1, <4>2
    <3>5. CASE ~Aggregate(s.nodes[x].def)
      <4>1. Edited(s.nodes[x]) <=> s.nodes[x].control.dirty
        BY <1>7, <3>5 DEF Edited
      <4>2. next[x] = {}
        BY <1>7, <3>5
      <4> QED BY <3>2, <3>3, <4>1, <4>2
    <3> QED BY <3>4, <3>5
  <2>8. D \in SUBSET D /\ \A x \in T \ D : next[x] \cap D = {}
    BY <1>1
  <2> HIDE DEF all, own
  <2>2. all[a] = own[a] \cup UNION {own[y] : y \in (Reach(next, a) \ {a}) \cap D}
    <3>1. Gathers(D, next, T, D, own, all)
      BY <1>1, <1>5, <2>8, <2>1 DEF Gathers
    <3>2. \A x \in T : all[x] = own[x] \cup UNION {own[y] : y \in (Reach(next, x) \ {x}) \cap D}
      BY <1>1, <1>4, <3>1, GatheredBelow
    <3> QED BY <1>12, <3>2
  <2>3. \A x \in D : all[x] = Is(s.nodes[x].control.dirty) /\ own[x] = Is(Edited(s.nodes[x]))
    BY DEF all, own
  <2>4. a \in D /\ (Reach(next, a) \ {a}) \cap D = Reach(next, a) \ {a}
    BY <1>1, <1>12, <1>14
  <2>5. UNION {own[y] : y \in (Reach(next, a) \ {a}) \cap D} =
          Is(\E y \in Reach(next, a) \ {a} : Edited(s.nodes[y]))
    BY <1>14, <2>3, <2>4
  <2>6. s.nodes[a].control.dirty <=>
          Edited(s.nodes[a]) \/ \E y \in Reach(next, a) \ {a} : Edited(s.nodes[y])
    BY <2>2, <2>3, <2>4, <2>5
  <2>7. ~Edited(s.nodes[a])
    BY <1>12 DEF Edited
  <2> QED BY <2>6, <2>7 DEF next
<1> QED BY <1>15, <1>16, <1>17 DEF E, Own

\* The invariant of documents whose members are controls.
SummaryInv == DisableInv /\ Summarises(state)

LEMMA SummaryInvNext ==
  ASSUME RootedControls
  PROVE  SummaryInv /\ [Next]_vars => SummaryInv'
<1> SUFFICES ASSUME SummaryInv, [Next]_vars PROVE SummaryInv'
  OBVIOUS
<1>1. DisableInv'
  BY DisableInvNext DEF SummaryInv
<1>2. Summarises(state')
  <2>1. CASE UNCHANGED vars
    <3>1. state' = state
      BY <2>1 DEF vars
    <3> QED BY <3>1 DEF SummaryInv
  <2>2. CASE Next
    <3>1. \E X : Commits(X)
      BY <2>2, NextCommits DEF SummaryInv, DisableInv, StoreInv
    <3> QED BY <3>1, CommitsSummarises DEF SummaryInv, DisableInv, StoreInv
  <2> QED BY <2>1, <2>2
<1> QED BY <1>1, <1>2 DEF SummaryInv

\* What is below an aggregate, as the property and as these lemmas have it.
LEMMA BelowOfAggregate ==
  ASSUME ControlMembers, Graph(state), NEW a \in Present, Aggregate(Node(a).def)
  PROVE  /\ Below(state, {a}) = Reach(Lists(state), a)
         /\ EnabledBelow(a) = EnabledReach(state, a)
         /\ \A id \in Reach(Lists(state), a) : id \in Summed(state) /\ IsControl(id)
<1>1. {a} \cap DOMAIN state.nodes = {a} /\ a \in Summed(state)
  BY DEF Present, Summed, Node
<1>2. Below(state, {a}) = Reach(Lists(state), a)
  BY <1>1, BelowIsReach
<1>3. Summed(state) \in SUBSET DOMAIN state.nodes /\ Closed(Lists(state), Summed(state))
  BY SummedClosed DEF Summed, Closed
<1>4. Reach(Lists(state), a) \subseteq Summed(state)
  BY <1>1, <1>3, ListsType, ReachLeast
<1>5. \A id \in Summed(state) : IsControl(id) /\ id \in DOMAIN state.nodes
  BY DEF Summed, IsControl, Has, Node, HasControl, Leaf, Aggregate
<1>6. EnabledBelow(a) = EnabledReach(state, a)
  BY <1>2, <1>4, <1>5 DEF EnabledBelow, EnabledReach, Enabled, Node
<1> QED BY <1>2, <1>4, <1>5, <1>6

\* However few nodes a command touches, every form, group and array holds what
\* the controls below it hold now, in all documents whose controls are rooted and
\* whose members are controls.
THEOREM AggregatesCurrent ==
  ASSUME RootedControls, ControlMembers
  PROVE  Spec => []AggregatesSummarise
<1>1. Init => SummaryInv
  BY StoreInvInit, InitDisables, InitSummarises DEF SummaryInv, DisableInv
<1>2. SummaryInv /\ [Next]_vars => SummaryInv'
  BY SummaryInvNext
<1>3. SummaryInv => AggregatesSummarise
  <2> SUFFICES ASSUME SummaryInv, NEW a \in Present, Aggregate(Node(a).def)
               PROVE  LET control == Node(a).control
                          children == ControlChildren([i \in DOMAIN state.controls[a] |-> Node(state.controls[a][i])])
                          enabled == ActiveChildren(children)
                          below == EnabledBelow(a)
                      IN  /\ [i \in DOMAIN control.raw |-> control.raw[i][2]] =
                               [i \in DOMAIN children |-> children[i].control.raw]
                          /\ [i \in DOMAIN control.value |-> control.value[i][2]] =
                               [i \in DOMAIN enabled |-> enabled[i].control.value]
                          /\ control.errors = UNION {OwnErrors(state, id) : id \in below \cup {a}}
                          /\ control.pending <=>
                               \/ control.request # None
                               \/ \E id \in below : Leaf(Node(id).def) /\ Node(id).control.pending
                               \/ \E id \in below : Aggregate(Node(id).def) /\ Node(id).control.request # None
                          /\ control.dirty <=>
                               \E id \in Below(state, {a}) :
                                 IsControl(id) /\ Leaf(Node(id).def) /\ Node(id).control.dirty
    BY Zenon DEF AggregatesSummarise
  <2>1. Graph(state) /\ Disables(state) /\ Summarises(state) /\ a \in DOMAIN state.nodes
    BY DEF SummaryInv, DisableInv, StoreInv, Present
  <2>2. /\ Node(a) = state.nodes[a]
        /\ [i \in DOMAIN state.controls[a] |-> Node(state.controls[a][i])] = Listed(state, a)
    BY DEF Node, Listed
  <2>3. Summary(a, Node(a).control, Listed(state, a))
    BY <2>1, <2>2 DEF Summarises
  <2>4. /\ Below(state, {a}) = Reach(Lists(state), a)
        /\ EnabledBelow(a) = EnabledReach(state, a)
        /\ \A id \in Reach(Lists(state), a) : IsControl(id)
    BY <2>1, BelowOfAggregate
  <2>5. /\ Node(a).control.errors = UNION {OwnErrors(state, id) : id \in EnabledBelow(a) \cup {a}}
        /\ Node(a).control.pending <=>
             Node(a).control.request # None \/ \E id \in EnabledBelow(a) : Awaits(Node(id))
        /\ Node(a).control.dirty <=> \E id \in Below(state, {a}) : Edited(Node(id))
    BY <2>1, <2>2, <2>4, SummariesGather DEF Node
  <2>6. (\E id \in EnabledBelow(a) : Awaits(Node(id))) <=>
          \/ \E id \in EnabledBelow(a) : Leaf(Node(id).def) /\ Node(id).control.pending
          \/ \E id \in EnabledBelow(a) : Aggregate(Node(id).def) /\ Node(id).control.request # None
    BY DEF Awaits
  <2>7. (\E id \in Below(state, {a}) : Edited(Node(id))) <=>
          \E id \in Below(state, {a}) : IsControl(id) /\ Leaf(Node(id).def) /\ Node(id).control.dirty
    BY <2>4 DEF Edited
  <2>8. LET control == Node(a).control
            children == ControlChildren(Listed(state, a))
            enabled == ActiveChildren(children)
        IN  /\ [i \in DOMAIN control.raw |-> control.raw[i][2]] =
                 [i \in DOMAIN children |-> children[i].control.raw]
            /\ [i \in DOMAIN control.value |-> control.value[i][2]] =
                 [i \in DOMAIN enabled |-> enabled[i].control.value]
    BY <2>3, Zenon DEF Summary
  <2> QED BY <2>2, <2>5, <2>6, <2>7, <2>8
<1> QED BY <1>1, <1>2, <1>3, PTL DEF Spec
=============================================================================
