------------------------ MODULE ApplicationProofs ------------------------
(***************************************************************************)
(* Theorems about Application: facts reach observers in the order of their *)
(* numbers, and whenever the thread is at rest the surfaces of an          *)
(* available application agree and an unavailable one is quarantined.      *)
(*                                                                         *)
(* Both depend on what the agenda may hold and in which order: the tasks   *)
(* that end an update, hand out held back facts or finish a disposal must  *)
(* survive every exception.  Ordered says which task may be right above    *)
(* which; from it follows that such a task has a handler above it whenever *)
(* the next task may throw.                                                *)
(*                                                                         *)
(* A second layer, Verdicts, is about validations: a control whose value   *)
(* changed while a validator works for it is owed a new validation.        *)
(***************************************************************************)
EXTENDS Application, SequenceTheorems, FiniteSetTheorems, WellFoundedInduction, TLAPS

(* Sets of natural numbers have a least element.                           *)
LEMMA LeastNumber ==
  ASSUME NEW S \in SUBSET Nat, S # {}
  PROVE  \E n \in S : \A m \in S : n <= m
<1> DEFINE R == OpToRel(<, Nat)
<1>1. R = {ss \in Nat \X Nat : ss[1] < ss[2]}
  BY DEF OpToRel
<1>2. IsWellFoundedOn(R, Nat)
  BY NatLessThanWellFounded
<1> HIDE DEF R
<1>3. \E x \in S : \A y \in S : ~(<<y, x>> \in R)
  BY <1>2, WFMin
<1>4. \A x, y \in Nat : y < x => <<y, x>> \in R
  BY <1>1
<1>5. PICK n \in S : \A y \in S : ~(<<y, n>> \in R)
  BY <1>3
<1>6. \A m \in S : ~(m < n)
  BY <1>4, <1>5
<1> QED
  BY <1>6

(* The operator Min of a set of natural numbers.                            *)
LEMMA MinFacts ==
  ASSUME NEW S \in SUBSET Nat, S # {}
  PROVE  Min(S) \in S /\ \A m \in S : Min(S) <= m
<1>1. \E n \in S : \A m \in S : n <= m
  BY LeastNumber
<1>2. Min(S) = CHOOSE n \in S : \A m \in S : n <= m
  BY DEF Min
<1> QED
  BY <1>1, <1>2

-----------------------------------------------------------------------------
(* Stacks of tasks.                                                        *)

IsStack(s) == \E S : s \in Seq(S)

\* The tasks of t below its first k are those of s below its first h.
Rest(s, t, h, k) ==
  /\ h \in 0..Len(s) /\ k \in Nat /\ Len(t) = k + (Len(s) - h)
  /\ \A i \in (h + 1)..Len(s) : t[(i - h) + k] = s[i]
  /\ \A j \in (k + 1)..Len(t) : t[j] = s[(j - k) + h]

LEMMA StackFacts ==
  ASSUME NEW s, IsStack(s)
  PROVE  /\ Len(s) \in Nat /\ DOMAIN s = 1..Len(s)
         /\ s = << >> <=> Len(s) = 0
         /\ s # << >> => /\ Head(s) = s[1] /\ IsStack(Tail(s)) /\ Len(Tail(s)) = Len(s) - 1
                         /\ \A i \in 1..(Len(s) - 1) : Tail(s)[i] = s[i + 1]
<1>1. PICK S : s \in Seq(S)
  BY DEF IsStack
<1>2. Len(s) \in Nat /\ DOMAIN s = 1..Len(s)
  BY <1>1, LenProperties
<1>3. s = << >> <=> Len(s) = 0
  BY <1>1, EmptySeq
<1>4. ASSUME s # << >>
      PROVE  /\ Head(s) = s[1] /\ IsStack(Tail(s)) /\ Len(Tail(s)) = Len(s) - 1
             /\ \A i \in 1..(Len(s) - 1) : Tail(s)[i] = s[i + 1]
  <2>1. Tail(s) \in Seq(S) /\ Len(Tail(s)) = Len(s) - 1
    BY <1>1, <1>4, HeadTailProperties
  <2>2. \A i \in 1..Len(Tail(s)) : Tail(s)[i] = s[i + 1]
    BY <1>1, <1>4, HeadTailProperties
  <2>3. Head(s) = s[1]
    BY <1>1, <1>4
  <2> QED
    BY <2>1, <2>2, <2>3 DEF IsStack
<1> QED
  BY <1>2, <1>3, <1>4

LEMMA JoinedStack ==
  ASSUME NEW p, NEW q, IsStack(p), IsStack(q)
  PROVE  /\ IsStack(p \o q) /\ Len(p \o q) = Len(p) + Len(q)
         /\ \A i \in 1..Len(p) : (p \o q)[i] = p[i]
         /\ \A i \in 1..Len(q) : (p \o q)[Len(p) + i] = q[i]
<1>1. PICK S : p \in Seq(S)
  BY DEF IsStack
<1>2. PICK T : q \in Seq(T)
  BY DEF IsStack
<1> DEFINE U == S \cup T
<1>3. p \in Seq(U) /\ q \in Seq(U)
  BY <1>1, <1>2, SeqMonotonic
<1> HIDE DEF U
<1>4. /\ p \o q \in Seq(U)
      /\ Len(p \o q) = Len(p) + Len(q)
      /\ \A i \in 1 .. Len(p) + Len(q) : (p \o q)[i] = IF i <= Len(p) THEN p[i] ELSE q[i - Len(p)]
  BY <1>3, ConcatProperties
<1>5. Len(p) \in Nat /\ Len(q) \in Nat
  BY <1>3, LenProperties
<1> QED
  BY <1>4, <1>5 DEF IsStack

LEMMA EmptyStack == IsStack(<< >>) /\ Len(<< >>) = 0
BY EmptySeq DEF IsStack

LEMMA StackOfOne ==
  ASSUME NEW x
  PROVE  IsStack(<<x>>) /\ Len(<<x>>) = 1 /\ <<x>>[1] = x
<1>1. <<x>> \in Seq({x})
  OBVIOUS
<1> QED
  BY <1>1 DEF IsStack

LEMMA StackOfTwo ==
  ASSUME NEW x, NEW y
  PROVE  /\ IsStack(<<x, y>>) /\ Len(<<x, y>>) = 2
         /\ <<x, y>>[1] = x /\ <<x, y>>[2] = y
<1>1. <<x, y>> \in Seq({x, y})
  OBVIOUS
<1> QED
  BY <1>1 DEF IsStack

LEMMA StackOfThree ==
  ASSUME NEW x, NEW y, NEW z
  PROVE  /\ IsStack(<<x, y, z>>) /\ Len(<<x, y, z>>) = 3
         /\ <<x, y, z>>[1] = x /\ <<x, y, z>>[2] = y /\ <<x, y, z>>[3] = z
<1>1. <<x, y, z>> \in Seq({x, y, z})
  OBVIOUS
<1> QED
  BY <1>1 DEF IsStack

(* Tasks put before those of the caller (Do).                               *)
LEMMA Pushing ==
  ASSUME NEW s, NEW p, IsStack(s), IsStack(p), s # << >>
  PROVE  /\ IsStack(p \o Tail(s)) /\ Rest(s, p \o Tail(s), 1, Len(p))
         /\ \A i \in 1..Len(p) : (p \o Tail(s))[i] = p[i]
<1>1. /\ Len(s) \in Nat /\ Len(p) \in Nat /\ Len(s) # 0
      /\ IsStack(Tail(s)) /\ Len(Tail(s)) = Len(s) - 1
      /\ \A i \in 1..(Len(s) - 1) : Tail(s)[i] = s[i + 1]
  BY StackFacts
<1> DEFINE t == p \o Tail(s)
<1>2. /\ IsStack(t) /\ Len(t) = Len(p) + (Len(s) - 1)
      /\ \A i \in 1..Len(p) : t[i] = p[i]
      /\ \A i \in 1..(Len(s) - 1) : t[Len(p) + i] = Tail(s)[i]
  BY <1>1, JoinedStack
<1> HIDE DEF t
<1>3. \A i \in 2..Len(s) : t[(i - 1) + Len(p)] = s[i]
  <2> SUFFICES ASSUME NEW i \in 2..Len(s) PROVE t[(i - 1) + Len(p)] = s[i]
    OBVIOUS
  <2>1. i - 1 \in 1..(Len(s) - 1) /\ (i - 1) + 1 = i /\ (i - 1) + Len(p) = Len(p) + (i - 1)
    BY <1>1
  <2>2. t[Len(p) + (i - 1)] = Tail(s)[i - 1]
    BY <1>2, <2>1
  <2>3. Tail(s)[i - 1] = s[(i - 1) + 1]
    BY <1>1, <2>1
  <2> QED
    BY <2>1, <2>2, <2>3
<1>4. \A j \in (Len(p) + 1)..Len(t) : t[j] = s[(j - Len(p)) + 1]
  <2> SUFFICES ASSUME NEW j \in (Len(p) + 1)..Len(t) PROVE t[j] = s[(j - Len(p)) + 1]
    OBVIOUS
  <2>1. j - Len(p) \in 1..(Len(s) - 1) /\ Len(p) + (j - Len(p)) = j
    BY <1>1, <1>2
  <2>2. t[Len(p) + (j - Len(p))] = Tail(s)[j - Len(p)]
    BY <1>2, <2>1
  <2>3. Tail(s)[j - Len(p)] = s[(j - Len(p)) + 1]
    BY <1>1, <2>1
  <2> QED
    BY <2>1, <2>2, <2>3
<1>5. IsStack(t) /\ Rest(s, t, 1, Len(p)) /\ \A i \in 1..Len(p) : t[i] = p[i]
  BY <1>1, <1>2, <1>3, <1>4 DEF Rest
<1> QED
  BY <1>5 DEF t

(* The nodes of a set, each with a task (Each).                             *)
LEMMA EachFacts ==
  ASSUME NEW op, NEW set, IsFiniteSet(set)
  PROVE  /\ IsStack(Each(op, set))
         /\ \A i \in 1..Len(Each(op, set)) :
              \E n \in set : Each(op, set)[i] = [op |-> op, node |-> n]
<1> DEFINE f == [n \in set |-> [op |-> op, node |-> n]]
           S == {[op |-> op, node |-> n] : n \in set}
<1>1. f \in Surjection(set, S)
  BY DEF Surjection
<1>2. IsFiniteSet(S)
  BY <1>1, FS_Surjection
<1>3. Cardinality(S) \in Nat /\ ExistsBijection(1..Cardinality(S), S)
  BY <1>2, FS_CardinalityType
<1> HIDE DEF f, S
<1>4. \E g \in [1..Cardinality(S) -> S] : IsInjective(g)
  BY <1>3 DEF ExistsBijection, Bijection, Injection
<1>5. SetToSeq(S) \in [1..Cardinality(S) -> S]
  BY <1>4, Zenon DEF SetToSeq
<1>6. SetToSeq(S) \in Seq(S) /\ Len(SetToSeq(S)) = Cardinality(S)
  BY <1>3, <1>5
<1>7. Each(op, set) = SetToSeq(S)
  BY DEF Each, S
<1>8. \A i \in 1..Len(Each(op, set)) : Each(op, set)[i] \in S
  BY <1>5, <1>6, <1>7
<1> QED
  BY <1>6, <1>7, <1>8 DEF IsStack, S

-----------------------------------------------------------------------------
(* The order of the agenda.                                                *)

\* The outcome of the open coordination is decided by the next task.
Preparing == {"render", "commit", "giveUp", "restore"}

\* The task that ends the update in progress.
Phases == Preparing \cup {"finish", "quarantined"}

\* Tasks that no exception may drop.
Protected == {"finish", "quarantined", "drain", "disposed"}

Tracked == Preparing \cup Protected

\* Tasks that are never below another one.
HeadOnly == Preparing \cup {"update", "dispose", "project"}

LastFact(task) == task.op = "emit" /\ task.kind = "disposed"

\* The second task may be right below the first: what is protected has a handler
\* above it, or tasks that do not throw.
Above(upper, lower) ==
  /\ lower.op \notin HeadOnly /\ ~LastFact(lower)
  /\ lower.op \in {"drain", "finish"} => upper.op = "contained"
  /\ lower.op = "observe" => upper.op = "project"
  /\ lower.op = "disposed" => upper.op \in {"observe", "contained"} \/ LastFact(upper)
  /\ lower.op = "quarantined" => upper.op \in {"dispose", "disposed"}

\* May be below any task.
Free(task) == task.op \notin HeadOnly \cup Protected \cup {"observe"} /\ ~LastFact(task)

OnlyOne(s, ops) == \A i, j \in 1..Len(s) : s[i].op \in ops /\ s[j].op \in ops => i = j

Ordered(s) ==
  /\ \A i \in 1..(Len(s) - 1) : Above(s[i], s[i + 1])
  /\ OnlyOne(s, Phases) /\ OnlyOne(s, {"drain"}) /\ OnlyOne(s, {"disposed"})
  /\ \A i \in 1..Len(s) : s[i].op = "drain" => \E j \in (i + 1)..Len(s) : s[j].op = "finish"

Has(s, op) == \E i \in 1..Len(s) : s[i].op = op

LEMMA FreeBelowAll ==
  ASSUME NEW upper, NEW lower, Free(lower)
  PROVE  Above(upper, lower)
BY DEF Free, Above, HeadOnly, Protected, Preparing

(* Below a task that shelters nothing is a task that needs no shelter.     *)
LEMMA BelowOthers ==
  ASSUME NEW upper, NEW lower, Above(upper, lower), ~LastFact(upper),
         upper.op \notin {"contained", "project", "observe", "dispose", "disposed"}
  PROVE  Free(lower)
BY DEF Free, Above, HeadOnly, Protected, Preparing

LEMMA OnlyOneAfter ==
  ASSUME NEW s, NEW t, NEW h, NEW k, Rest(s, t, h, k), Len(s) \in Nat, NEW ops, OnlyOne(s, ops),
         \A i \in 1..k : t[i].op \in ops =>
           /\ \A j \in 1..k : t[j].op \in ops => j = i
           /\ \A j \in (h + 1)..Len(s) : s[j].op \notin ops
  PROVE  OnlyOne(t, ops)
<1> SUFFICES ASSUME NEW i \in 1..Len(t), NEW j \in 1..Len(t), t[i].op \in ops, t[j].op \in ops
             PROVE  i = j
  BY DEF OnlyOne
<1>1. h \in 0..Len(s) /\ k \in Nat /\ Len(t) = k + (Len(s) - h)
  BY DEF Rest
<1>2. \A x \in (k + 1)..Len(t) :
        t[x] = s[(x - k) + h] /\ (x - k) + h \in (h + 1)..Len(s) /\ (x - k) + h \in 1..Len(s)
  BY <1>1 DEF Rest
<1>3. CASE i <= k \/ j <= k
  <2>1. \A x \in 1..Len(t) : x <= k => x \in 1..k
    BY <1>1
  <2>2. \A x \in 1..Len(t) : ~(x <= k) => x \in (k + 1)..Len(t)
    BY <1>1
  <2>3. CASE i <= k /\ j <= k
    BY <2>1, <2>3
  <2>4. CASE i <= k /\ ~(j <= k)
    BY <2>1, <2>2, <2>4, <1>2
  <2>5. CASE j <= k /\ ~(i <= k)
    BY <2>1, <2>2, <2>5, <1>2
  <2> QED
    BY <1>3, <2>3, <2>4, <2>5
<1>4. CASE ~(i <= k) /\ ~(j <= k)
  <2>1. i \in (k + 1)..Len(t) /\ j \in (k + 1)..Len(t)
    BY <1>1, <1>4
  <2>2. (i - k) + h = (j - k) + h
    BY <2>1, <1>2 DEF OnlyOne
  <2> QED
    BY <1>1, <2>1, <2>2
<1> QED
  BY <1>3, <1>4

(* Tasks put in the place of the first ones of an agenda keep its order.   *)
LEMMA Rebase ==
  ASSUME NEW s, NEW t, NEW h, NEW k, IsStack(s), IsStack(t), Ordered(s), Rest(s, t, h, k),
         \A i \in 1..(k - 1) : Above(t[i], t[i + 1]),
         k >= 1 /\ h < Len(s) => Above(t[k], s[h + 1]),
         \A ops \in {Phases, {"drain"}, {"disposed"}} : \A i \in 1..k : t[i].op \in ops =>
           /\ \A j \in 1..k : t[j].op \in ops => j = i
           /\ \A j \in (h + 1)..Len(s) : s[j].op \notin ops,
         \A i \in 1..k : t[i].op = "drain" => \E j \in (i + 1)..Len(t) : t[j].op = "finish"
  PROVE  Ordered(t)
<1>1. h \in 0..Len(s) /\ k \in Nat /\ Len(t) = k + (Len(s) - h) /\ Len(s) \in Nat
  BY StackFacts DEF Rest
<1>2. \A j \in (k + 1)..Len(t) :
        t[j] = s[(j - k) + h] /\ (j - k) + h \in (h + 1)..Len(s) /\ (j - k) + h \in 1..Len(s)
  BY <1>1 DEF Rest
<1>3. \A i \in 1..(Len(t) - 1) : Above(t[i], t[i + 1])
  <2> SUFFICES ASSUME NEW i \in 1..(Len(t) - 1) PROVE Above(t[i], t[i + 1])
    OBVIOUS
  <2>1. CASE i < k
    <3>1. i \in 1..(k - 1)
      BY <2>1, <1>1
    <3> QED
      BY <3>1
  <2>2. CASE i = k
    <3>1. k >= 1 /\ h < Len(s) /\ k + 1 \in (k + 1)..Len(t) /\ ((k + 1) - k) + h = h + 1
      BY <2>2, <1>1
    <3>2. t[k + 1] = s[h + 1]
      BY <3>1, <1>2
    <3> QED
      BY <3>1, <3>2, <2>2
  <2>3. CASE i > k
    <3>1. /\ i \in (k + 1)..Len(t) /\ i + 1 \in (k + 1)..Len(t)
          /\ ((i + 1) - k) + h = ((i - k) + h) + 1
      BY <2>3, <1>1
    <3>2. (i - k) + h \in 1..(Len(s) - 1)
      BY <3>1, <1>1
    <3>3. Above(s[(i - k) + h], s[((i - k) + h) + 1])
      BY <3>2 DEF Ordered
    <3> QED
      BY <3>1, <3>3, <1>2
  <2> QED
    BY <2>1, <2>2, <2>3, <1>1
<1>4. OnlyOne(t, Phases) /\ OnlyOne(t, {"drain"}) /\ OnlyOne(t, {"disposed"})
  <2>1. \A ops \in {Phases, {"drain"}, {"disposed"}} : OnlyOne(s, ops)
    BY DEF Ordered
  <2>2. \A ops \in {Phases, {"drain"}, {"disposed"}} : OnlyOne(t, ops)
    BY <2>1, <1>1, OnlyOneAfter
  <2> QED
    BY <2>2
<1>5. \A i \in 1..Len(t) : t[i].op = "drain" => \E j \in (i + 1)..Len(t) : t[j].op = "finish"
  <2> SUFFICES ASSUME NEW i \in 1..Len(t), t[i].op = "drain"
               PROVE  \E j \in (i + 1)..Len(t) : t[j].op = "finish"
    OBVIOUS
  <2>1. CASE i <= k
    BY <2>1, <1>1
  <2>2. CASE ~(i <= k)
    <3>1. i \in (k + 1)..Len(t)
      BY <2>2, <1>1
    <3>2. (i - k) + h \in 1..Len(s) /\ s[(i - k) + h].op = "drain"
      BY <3>1, <1>2
    <3>3. PICK x \in ((i - k) + h + 1)..Len(s) : s[x].op = "finish"
      BY <3>2 DEF Ordered
    <3>4. /\ x \in (h + 1)..Len(s)
          /\ (x - h) + k \in (i + 1)..Len(t)
      <4>1. i \in Int /\ i > k /\ i <= Len(t)
        BY <3>1, <1>1
      <4>2. x \in Int /\ (i - k) + h + 1 <= x /\ x <= Len(s)
        BY <3>3, <4>1, <1>1
      <4> QED
        BY <4>1, <4>2, <1>1
    <3>5. t[(x - h) + k] = s[x]
      BY <3>4 DEF Rest
    <3> QED
      BY <3>3, <3>4, <3>5
  <2> QED
    BY <2>1, <2>2
<1> QED
  BY <1>3, <1>4, <1>5 DEF Ordered

(* What an agenda has after some of its tasks were replaced.                *)
LEMMA HasRest ==
  ASSUME NEW s, NEW t, NEW h, NEW k, IsStack(s), IsStack(t), Rest(s, t, h, k), NEW op
  PROVE  Has(t, op) <=> \/ \E i \in 1..k : t[i].op = op
                        \/ \E j \in (h + 1)..Len(s) : s[j].op = op
<1>1. h \in 0..Len(s) /\ k \in Nat /\ Len(t) = k + (Len(s) - h) /\ Len(s) \in Nat
  BY StackFacts DEF Rest
<1>2. ASSUME Has(t, op)
      PROVE  \/ \E i \in 1..k : t[i].op = op
             \/ \E j \in (h + 1)..Len(s) : s[j].op = op
  <2>1. PICK i \in 1..Len(t) : t[i].op = op
    BY <1>2 DEF Has
  <2>2. CASE i <= k
    BY <2>1, <2>2, <1>1
  <2>3. CASE ~(i <= k)
    <3>1. i \in (k + 1)..Len(t) /\ (i - k) + h \in (h + 1)..Len(s)
      BY <2>3, <1>1
    <3>2. t[i] = s[(i - k) + h]
      BY <3>1 DEF Rest
    <3> QED
      BY <2>1, <3>1, <3>2
  <2> QED
    BY <2>2, <2>3
<1>3. ASSUME NEW i \in 1..k, t[i].op = op
      PROVE  Has(t, op)
  BY <1>1, <1>3 DEF Has
<1>4. ASSUME NEW j \in (h + 1)..Len(s), s[j].op = op
      PROVE  Has(t, op)
  <2>1. (j - h) + k \in 1..Len(t) /\ t[(j - h) + k] = s[j]
    BY <1>1 DEF Rest
  <2> QED
    BY <1>4, <2>1 DEF Has
<1> QED
  BY <1>2, <1>3, <1>4

-----------------------------------------------------------------------------
(* The types of tasks.                                                     *)

Command(command, r) ==
  /\ command.node \in Nodes
  /\ command.type \in {"value", "start", "resolve", "cancel"}
  /\ command.type = "value" => command.value \in Values
  /\ command.type # "value" => command.request \in 0..r
  /\ command.type = "resolve" => command.verdict \in Values \cup {NoVerdict}

Writing(op, task) ==
  /\ task.op = op /\ task = [op |-> op, node |-> task.node, value |-> task.value]
  /\ task.node \in Nodes /\ task.value \in Values

Scheduling(task) == task.op = "schedule" /\ task.node \in Nodes

TaskOK(task, r) ==
  /\ task.op = "execute" => Command(task.command, r)
  /\ task.op \in {"schedule", "start", "launch"} => task.node \in Nodes
  /\ \A op \in {"write", "perform"} : task.op = op => Writing(op, task)
  /\ task.op = "launch" => task.request \in 1..r
  /\ task.op = "settle" =>
       /\ IsStack(task.work)
       /\ \A i \in 1..Len(task.work) : Writing("write", task.work[i]) \/ Scheduling(task.work[i])
  /\ task.op = "update" => task.document \in Documents
  /\ task.op \in Preparing => task.previous \in Documents

Typed(s, r) == IsStack(s) /\ \A i \in 1..Len(s) : TaskOK(s[i], r)

LEMMA TypedLater ==
  ASSUME NEW s, NEW r \in Nat, NEW q \in Nat, Typed(s, r), r <= q
  PROVE  Typed(s, q)
<1>1. ASSUME NEW task, TaskOK(task, r)
      PROVE  TaskOK(task, q)
  <2>1. 0..r \subseteq 0..q /\ 1..r \subseteq 1..q
    OBVIOUS
  <2>2. ASSUME NEW command, Command(command, r)
        PROVE  Command(command, q)
    BY <2>1, <2>2 DEF Command
  <2> QED
    BY <1>1, <2>1, <2>2 DEF TaskOK
<1> QED
  BY <1>1 DEF Typed

LEMMA TypedRest ==
  ASSUME NEW s, NEW t, NEW h, NEW k, NEW r, IsStack(t), Typed(s, r), Rest(s, t, h, k),
         \A i \in 1..k : TaskOK(t[i], r)
  PROVE  Typed(t, r)
<1>1. h \in 0..Len(s) /\ k \in Nat /\ Len(t) = k + (Len(s) - h) /\ Len(s) \in Nat
  BY StackFacts DEF Rest, Typed
<1>2. \A j \in (k + 1)..Len(t) : t[j] = s[(j - k) + h] /\ (j - k) + h \in 1..Len(s)
  BY <1>1 DEF Rest
<1>3. \A i \in 1..Len(t) : i \in 1..k \/ i \in (k + 1)..Len(t)
  BY <1>1
<1> QED
  BY <1>2, <1>3 DEF Typed

-----------------------------------------------------------------------------
(* Steps that neither end an update nor hand out facts.                    *)

\* Tasks of commands, effects and validations, and their handlers.
Plain(task) ==
  /\ task.op \in {"execute", "emit", "contained", "rejecting", "throw", "settle", "write",
                  "perform", "schedule", "start", "launch"}
  /\ ~LastFact(task)

\* The agenda t is in order and has of what is tracked what s has.
Calm(s, t, r) ==
  Typed(t, r) /\ Ordered(t) /\ \A op \in Tracked : Has(t, op) <=> Has(s, op)

LEMMA PlainFacts ==
  ASSUME NEW task, Plain(task)
  PROVE  Free(task) /\ task.op \notin Tracked
BY DEF Plain, Free, HeadOnly, Protected, Preparing, Tracked

LEMMA OrderedNext ==
  ASSUME NEW s, Ordered(s), IsStack(s), Len(s) >= 2
  PROVE  Above(s[1], s[2])
<1>1. 1 \in 1..(Len(s) - 1) /\ 1 + 1 = 2
  BY StackFacts
<1> QED
  BY <1>1 DEF Ordered

(* The first task is done and makes way for others that are not tracked.   *)
LEMMA CalmPush ==
  ASSUME NEW s, NEW p, NEW r, Typed(s, r), Ordered(s), s # << >>, s[1].op \notin Tracked,
         Typed(p, r), \A i \in 1..Len(p) : p[i].op \notin Tracked,
         \A i \in 1..(Len(p) - 1) : Above(p[i], p[i + 1]),
         Len(p) >= 1 /\ Len(s) >= 2 => Above(p[Len(p)], s[2])
  PROVE  Calm(s, p \o Tail(s), r)
<1> DEFINE t == p \o Tail(s)
           k == Len(p)
<1>1. IsStack(t) /\ Rest(s, t, 1, k) /\ \A i \in 1..k : t[i] = p[i]
  BY Pushing DEF Typed
<1>2. k \in Nat /\ Len(s) \in Nat /\ Len(s) # 0
  BY StackFacts DEF Typed
<1> HIDE DEF t, k
<1>3. Typed(t, r)
  <2>1. \A i \in 1..k : TaskOK(t[i], r)
    BY <1>1 DEF Typed, k
  <2> QED
    BY <1>1, <2>1, TypedRest
<1>4. \A i \in 1..k : t[i].op \notin Tracked
  BY <1>1 DEF k
<1>5. Ordered(t)
  <2>1. \A i \in 1..(k - 1) : Above(t[i], t[i + 1])
    <3>1. \A i \in 1..(k - 1) : i \in 1..k /\ i + 1 \in 1..k
      BY <1>2
    <3> QED
      BY <3>1, <1>1 DEF k
  <2>2. k >= 1 /\ 1 < Len(s) => Above(t[k], s[1 + 1])
    BY <1>1, <1>2 DEF k
  <2>3. \A ops \in {Phases, {"drain"}, {"disposed"}} : ops \subseteq Tracked
    BY DEF Phases, Tracked, Protected
  <2>4. \A ops \in {Phases, {"drain"}, {"disposed"}} : \A i \in 1..k : t[i].op \in ops =>
           /\ \A j \in 1..k : t[j].op \in ops => j = i
           /\ \A j \in (1 + 1)..Len(s) : s[j].op \notin ops
    BY <2>3, <1>4
  <2>5. \A i \in 1..k : t[i].op = "drain" => \E j \in (i + 1)..Len(t) : t[j].op = "finish"
    BY <1>4 DEF Tracked, Protected
  <2> QED
    BY <1>1, <2>1, <2>2, <2>4, <2>5, Rebase DEF Typed
<1>6. \A op \in Tracked : Has(t, op) <=> Has(s, op)
  <2> SUFFICES ASSUME NEW op \in Tracked PROVE Has(t, op) <=> Has(s, op)
    OBVIOUS
  <2>1. Has(t, op) <=> \/ \E i \in 1..k : t[i].op = op
                       \/ \E j \in (1 + 1)..Len(s) : s[j].op = op
    BY <1>1, HasRest DEF Typed
  <2>2. Has(s, op) <=> \E j \in (1 + 1)..Len(s) : s[j].op = op
    BY <1>2 DEF Has
  <2> QED
    BY <2>1, <2>2, <1>4
<1> QED
  BY <1>3, <1>5, <1>6 DEF Calm, t

LEMMA PlainPush ==
  ASSUME NEW s, NEW p, NEW r, Typed(s, r), Ordered(s), s # << >>, Plain(s[1]),
         s[1].op # "contained", Typed(p, r), \A i \in 1..Len(p) : Plain(p[i])
  PROVE  Calm(s, p \o Tail(s), r)
<1>1. Len(p) \in Nat
  BY StackFacts DEF Typed
<1>2. \A i \in 1..(Len(p) - 1) : i + 1 \in 1..Len(p)
  BY <1>1
<1>3. \A i \in 1..(Len(p) - 1) : Above(p[i], p[i + 1])
  BY <1>2, PlainFacts, FreeBelowAll
<1>4. ASSUME Len(p) >= 1, Len(s) >= 2
      PROVE  Above(p[Len(p)], s[2])
  <2>1. Above(s[1], s[2])
    BY <1>4, OrderedNext DEF Typed
  <2>2. Free(s[2])
    BY <2>1, BelowOthers DEF Plain
  <2> QED
    BY <2>2, FreeBelowAll
<1>5. s[1].op \notin Tracked /\ \A i \in 1..Len(p) : p[i].op \notin Tracked
  BY PlainFacts
<1> QED
  BY <1>3, <1>4, <1>5, CalmPush

LEMMA CalmPop ==
  ASSUME NEW s, NEW r, Typed(s, r), Ordered(s), s # << >>, s[1].op \notin Tracked
  PROVE  Calm(s, << >> \o Tail(s), r)
<1> DEFINE p == << >>
<1>1. Typed(p, r) /\ Len(p) = 0
  BY EmptyStack DEF Typed
<1> HIDE DEF p
<1>2. /\ \A i \in 1..Len(p) : p[i].op \notin Tracked
      /\ \A i \in 1..(Len(p) - 1) : Above(p[i], p[i + 1])
      /\ Len(p) >= 1 /\ Len(s) >= 2 => Above(p[Len(p)], s[2])
  BY <1>1
<1>3. Calm(s, p \o Tail(s), r)
  BY <1>1, <1>2, CalmPush
<1> QED
  BY <1>3 DEF p

-----------------------------------------------------------------------------
(* Exceptions.  What is protected lies below the nearest handler.          *)

LEMMA Sheltered ==
  ASSUME NEW s, IsStack(s), Ordered(s), Len(s) >= 2 => Free(s[2]),
         NEW i \in 2..Len(s), s[i].op \in Protected
  PROVE  \E j \in 2..(i - 1) : s[j].op = "contained"
<1>1. Len(s) \in Nat /\ i >= 3 /\ i - 1 \in 2..Len(s) /\ i - 1 \in 2..(i - 1)
  <2>1. Len(s) \in Nat
    BY StackFacts
  <2>2. i # 2
    BY <2>1 DEF Free
  <2> QED
    BY <2>1, <2>2
<1>2. \A n \in 2..Len(s) : Above(s[n - 1], s[n])
  <2>1. \A n \in 2..Len(s) : n - 1 \in 1..(Len(s) - 1) /\ (n - 1) + 1 = n
    BY <1>1
  <2> QED
    BY <2>1 DEF Ordered
<1>3. \A n \in 2..Len(s) : s[n].op \notin HeadOnly /\ ~LastFact(s[n])
  BY <1>2 DEF Above
<1>4. ASSUME NEW n \in 3..i, s[n].op = "disposed"
      PROVE  s[n - 1].op = "contained"
  <2>1. /\ n \in 2..Len(s) /\ n - 1 \in 2..Len(s)
    BY <1>1, <1>4
  <2>2. s[n - 1].op \in {"observe", "contained"}
    BY <1>2, <1>3, <1>4, <2>1 DEF Above
  <2>3. ASSUME s[n - 1].op = "observe"
        PROVE  FALSE
    <3>1. n - 1 # 2
      BY <2>1, <2>3 DEF Free
    <3>2. (n - 1) - 1 \in 2..Len(s)
      BY <3>1, <2>1, <1>1
    <3>3. s[(n - 1) - 1].op = "project"
      BY <1>2, <2>1, <2>3 DEF Above
    <3> QED
      BY <3>2, <3>3, <1>3 DEF HeadOnly
  <2> QED
    BY <2>2, <2>3
<1>5. CASE s[i].op \in {"finish", "drain"}
  <2>1. s[i - 1].op = "contained"
    BY <1>2, <1>5 DEF Above
  <2> QED
    BY <2>1, <1>1
<1>6. CASE s[i].op = "disposed"
  <2>1. i \in 3..i
    BY <1>1
  <2> QED
    BY <1>4, <1>6, <1>1, <2>1
<1>7. CASE s[i].op = "quarantined"
  <2>1. s[i - 1].op = "disposed"
    BY <1>1, <1>2, <1>3, <1>7 DEF Above, HeadOnly
  <2>2. i - 1 # 2
    BY <1>1, <2>1 DEF Free, Protected
  <2>3. i - 1 \in 3..i /\ (i - 1) - 1 \in 2..(i - 1)
    BY <1>1, <2>2
  <2>4. s[(i - 1) - 1].op = "contained"
    BY <1>4, <2>1, <2>3
  <2> QED
    BY <2>3, <2>4
<1> QED
  BY <1>5, <1>6, <1>7 DEF Protected

(* Nothing tracked is dropped together with the tasks above a handler.      *)
LEMMA NothingDropped ==
  ASSUME NEW s, IsStack(s), Ordered(s), s[1].op \notin Tracked, Len(s) >= 2 => Free(s[2]),
         NEW h \in 1..Len(s), \A j \in 2..(h - 1) : s[j].op # "contained",
         h >= 2 => s[h].op \notin Tracked
  PROVE  \A op \in Tracked : Has(s, op) <=> \E j \in (h + 1)..Len(s) : s[j].op = op
<1>1. Len(s) \in Nat
  BY StackFacts
<1>2. ASSUME NEW i \in 2..h
      PROVE  s[i].op \notin Tracked
  <2>1. Above(s[i - 1], s[i])
    <3>1. i - 1 \in 1..(Len(s) - 1) /\ (i - 1) + 1 = i
      BY <1>1
    <3> QED
      BY <3>1 DEF Ordered
  <2>2. s[i].op \notin Preparing
    BY <2>1 DEF Above, HeadOnly
  <2>3. ASSUME s[i].op \in Protected
        PROVE  FALSE
    <3>1. i \in 2..Len(s) /\ i # h
      BY <1>1, <2>3 DEF Tracked
    <3>2. PICK j \in 2..(i - 1) : s[j].op = "contained"
      BY <2>3, <3>1, Sheltered
    <3>3. j \in 2..(h - 1)
      BY <3>1, <1>1
    <3> QED
      BY <3>2, <3>3
  <2> QED
    BY <2>2, <2>3 DEF Tracked
<1>3. \A i \in 1..h : s[i].op \notin Tracked
  BY <1>2
<1>4. \A i \in 1..Len(s) : i \in 1..h \/ i \in (h + 1)..Len(s)
  BY <1>1
<1>5. \A i \in (h + 1)..Len(s) : i \in 1..Len(s)
  BY <1>1
<1> QED
  BY <1>3, <1>4, <1>5 DEF Has

(* The exception is kept by a shield or turned into a rejection.            *)
LEMMA Dropped ==
  ASSUME NEW s, NEW t, NEW h, NEW k, NEW r, Typed(s, r), Ordered(s), s[1].op \notin Tracked,
         Len(s) >= 2 => Free(s[2]), IsStack(t), Rest(s, t, h, k), h >= 1,
         \A j \in 2..(h - 1) : s[j].op # "contained", h >= 2 => s[h].op \notin Tracked,
         \A i \in 1..k : Plain(t[i]) /\ TaskOK(t[i], r),
         k >= 1 /\ h < Len(s) => Free(s[h + 1])
  PROVE  Calm(s, t, r)
<1>1. h \in 1..Len(s) /\ k \in Nat /\ Len(t) = k + (Len(s) - h) /\ Len(s) \in Nat
  BY StackFacts DEF Rest, Typed
<1>2. Typed(t, r)
  BY TypedRest
<1>3. \A i \in 1..k : t[i].op \notin Tracked /\ Free(t[i])
  BY PlainFacts
<1>4. Ordered(t)
  <2>1. \A i \in 1..(k - 1) : Above(t[i], t[i + 1])
    <3>1. \A i \in 1..(k - 1) : i + 1 \in 1..k
      BY <1>1
    <3> QED
      BY <3>1, <1>3, FreeBelowAll
  <2>2. k >= 1 /\ h < Len(s) => Above(t[k], s[h + 1])
    BY FreeBelowAll
  <2>3. \A ops \in {Phases, {"drain"}, {"disposed"}} : ops \subseteq Tracked
    BY DEF Phases, Tracked, Protected
  <2>4. \A ops \in {Phases, {"drain"}, {"disposed"}} : \A i \in 1..k : t[i].op \in ops =>
           /\ \A j \in 1..k : t[j].op \in ops => j = i
           /\ \A j \in (h + 1)..Len(s) : s[j].op \notin ops
    BY <2>3, <1>3
  <2>5. \A i \in 1..k : t[i].op = "drain" => \E j \in (i + 1)..Len(t) : t[j].op = "finish"
    BY <1>3 DEF Tracked, Protected
  <2> QED
    BY <2>1, <2>2, <2>4, <2>5, Rebase DEF Typed
<1>5. \A op \in Tracked : Has(s, op) <=> \E j \in (h + 1)..Len(s) : s[j].op = op
  BY <1>1, NothingDropped DEF Typed
<1>6. \A op \in Tracked : Has(t, op) <=> Has(s, op)
  <2> SUFFICES ASSUME NEW op \in Tracked PROVE Has(t, op) <=> Has(s, op)
    OBVIOUS
  <2>1. Has(t, op) <=> \/ \E i \in 1..k : t[i].op = op
                       \/ \E j \in (h + 1)..Len(s) : s[j].op = op
    BY HasRest DEF Typed
  <2> QED
    BY <2>1, <1>5, <1>3
<1> QED
  BY <1>2, <1>4, <1>6 DEF Calm

LEMMA RejectionFacts ==
  ASSUME NEW r
  PROVE  LET p == <<Emit("rejected", {}, revision), [op |-> "throw"]>>
         IN  Typed(p, r) /\ Len(p) = 2 /\ \A i \in 1..2 : Plain(p[i])
<1> DEFINE x == Emit("rejected", {}, revision)
           y == [op |-> "throw"]
<1>1. /\ IsStack(<<x, y>>) /\ Len(<<x, y>>) = 2
      /\ <<x, y>>[1] = x /\ <<x, y>>[2] = y
  BY StackOfTwo
<1>2. Plain(x) /\ Plain(y)
  BY DEF Plain, LastFact, Emit
<1>3. TaskOK(x, r) /\ TaskOK(y, r)
  BY DEF TaskOK, Emit, Preparing
<1> HIDE DEF x, y
<1>4. \A i \in 1..2 : i = 1 \/ i = 2
  OBVIOUS
<1>5. Typed(<<x, y>>, r) /\ \A i \in 1..2 : Plain(<<x, y>>[i])
  BY <1>1, <1>2, <1>3, <1>4 DEF Typed
<1> QED
  BY <1>1, <1>5 DEF x, y

\* The nearest handler below the first task of s is the h-th; t begins with what
\* it publishes, k tasks.
UnwoundTo(s, t, h, k) ==
  /\ IsStack(t) /\ Rest(s, t, h, k) /\ h \in 1..Len(s)
  /\ \A j \in 2..(h - 1) : s[j].op \notin {"contained", "rejecting"}
  /\ \/ k = 0 /\ h = Len(s) /\ (\A j \in 2..h : s[j].op \notin {"contained", "rejecting"})
     \/ k = 0 /\ h >= 2 /\ s[h].op = "contained"
     \/ /\ k = 2 /\ h >= 2 /\ s[h].op = "rejecting"
        /\ t[1] = Emit("rejected", {}, revision) /\ t[2] = [op |-> "throw"]

(* What an exception leaves of the agenda.                                  *)
LEMMA UnwoundShape ==
  ASSUME NEW s, IsStack(s), s # << >>
  PROVE  \E h, k \in Nat : UnwoundTo(s, Unwound(Tail(s)), h, k)
<1> DEFINE q == Tail(s)
           handlers == {i \in DOMAIN q : q[i].op \in {"contained", "rejecting"}}
           m == Min(handlers)
           rest == SubSeq(q, m + 1, Len(q))
           p == <<Emit("rejected", {}, revision), [op |-> "throw"]>>
<1>1. /\ Len(s) \in Nat /\ Len(s) # 0 /\ IsStack(q) /\ Len(q) = Len(s) - 1
      /\ \A i \in 1..(Len(s) - 1) : q[i] = s[i + 1]
      /\ DOMAIN q = 1..Len(q)
  <2>1. IsStack(q)
    BY StackFacts
  <2> QED
    BY <2>1, StackFacts
<1>2. Unwound(q) = IF handlers = {} THEN << >>
                   ELSE IF q[m].op = "contained" THEN rest
                   ELSE p \o rest
  BY DEF Unwound
<1>3. handlers \subseteq 1..Len(q)
  BY <1>1
<1>4. CASE handlers = {}
  <2> DEFINE t == << >>
  <2>1. IsStack(t) /\ Len(t) = 0
    BY EmptyStack
  <2> HIDE DEF t
  <2>2. Rest(s, t, Len(s), 0)
    BY <2>1, <1>1 DEF Rest
  <2>3. \A j \in 2..Len(s) : s[j].op \notin {"contained", "rejecting"}
    <3> SUFFICES ASSUME NEW j \in 2..Len(s) PROVE s[j].op \notin {"contained", "rejecting"}
      OBVIOUS
    <3>1. j - 1 \in 1..(Len(s) - 1) /\ (j - 1) + 1 = j /\ j - 1 \in DOMAIN q
      BY <1>1
    <3>2. q[j - 1] = s[j]
      BY <3>1, <1>1
    <3> QED
      BY <1>4, <3>1, <3>2
  <2>4. Len(s) \in 1..Len(s) /\ \A j \in 2..(Len(s) - 1) : j \in 2..Len(s)
    BY <1>1
  <2>5. UnwoundTo(s, t, Len(s), 0)
    BY <2>1, <2>2, <2>3, <2>4 DEF UnwoundTo
  <2> QED
    BY <1>1, <1>2, <1>4, <2>5 DEF t
<1>5. CASE handlers # {}
  <2> HIDE DEF q, handlers, m, rest, p
  <2>1. m \in handlers /\ \A i \in handlers : m <= i
    <3>1. handlers \in SUBSET Nat
      BY <1>1, <1>3
    <3> QED
      BY <1>5, <3>1, MinFacts DEF m
  <2>2. m \in 1..Len(q) /\ q[m].op \in {"contained", "rejecting"}
    BY <2>1, <1>3 DEF handlers
  <2>3. s[m + 1] = q[m] /\ m + 1 \in 2..Len(s)
    BY <2>2, <1>1
  <2>4. /\ IsStack(rest) /\ Len(rest) = Len(s) - (m + 1)
        /\ \A i \in 1..(Len(s) - (m + 1)) : rest[i] = s[(m + 1) + i]
    <3>1. PICK S : q \in Seq(S)
      BY <1>1 DEF IsStack
    <3>2. \A i \in (m + 1)..Len(q) : q[i] \in S
      BY <3>1, <2>2, <1>1, ElementOfSeq
    <3>3. m + 1 \in Int /\ Len(q) \in Int
      BY <2>2, <1>1
    <3>4. /\ rest \in Seq(S)
          /\ Len(rest) = IF m + 1 <= Len(q) THEN Len(q) - (m + 1) + 1 ELSE 0
          /\ \A i \in 1..(Len(q) - (m + 1) + 1) : rest[i] = q[(m + 1) + i - 1]
      BY <3>2, <3>3, SubSeqProperties DEF rest
    <3>5. \A i \in 1..(Len(s) - (m + 1)) :
            /\ i \in 1..(Len(q) - (m + 1) + 1) /\ (m + 1) + i - 1 \in 1..(Len(s) - 1)
            /\ ((m + 1) + i - 1) + 1 = (m + 1) + i
      BY <1>1, <2>2
    <3> QED
      BY <3>4, <3>5, <1>1, <2>2 DEF IsStack
  <2>5. \A j \in 2..m : s[j].op \notin {"contained", "rejecting"}
    <3> SUFFICES ASSUME NEW j \in 2..m, s[j].op \in {"contained", "rejecting"} PROVE FALSE
      OBVIOUS
    <3>1. j - 1 \in 1..(Len(s) - 1) /\ (j - 1) + 1 = j /\ j - 1 \in DOMAIN q /\ ~(m <= j - 1)
      BY <1>1, <2>2
    <3>2. q[j - 1] = s[j]
      BY <3>1, <1>1
    <3> QED
      BY <2>1, <3>1, <3>2 DEF handlers
  <2>6. (m + 1) - 1 = m /\ m + 1 >= 2 /\ m + 1 \in 1..Len(s) /\ m + 1 \in Nat
    BY <2>2, <1>1
  <2>7. CASE q[m].op = "contained"
    <3>1. Rest(s, rest, m + 1, 0)
      <4>1. \A i \in ((m + 1) + 1)..Len(s) :
              i - (m + 1) \in 1..(Len(s) - (m + 1)) /\ (m + 1) + (i - (m + 1)) = i
        BY <1>1, <2>2
      <4>2. \A i \in ((m + 1) + 1)..Len(s) : rest[(i - (m + 1)) + 0] = s[i]
        BY <4>1, <2>4
      <4>3. \A j \in 1..Len(rest) : rest[j] = s[(m + 1) + j]
        BY <2>4
      <4>4. \A j \in (0 + 1)..Len(rest) : rest[j] = s[(j - 0) + (m + 1)]
        BY <4>3, <2>2, <1>1, <2>4
      <4> QED
        BY <4>2, <4>4, <2>3, <2>4, <1>1 DEF Rest
    <3>2. UnwoundTo(s, rest, m + 1, 0)
      BY <3>1, <2>3, <2>4, <2>5, <2>6, <2>7 DEF UnwoundTo
    <3> QED
      BY <3>2, <1>2, <1>5, <2>6, <2>7 DEF q
  <2>8. CASE q[m].op = "rejecting"
    <3> DEFINE t == p \o rest
    <3>1. IsStack(p) /\ Len(p) = 2 /\ p[1] = Emit("rejected", {}, revision) /\ p[2] = [op |-> "throw"]
      BY StackOfTwo DEF p
    <3>2. /\ IsStack(t) /\ Len(t) = 2 + Len(rest)
          /\ \A i \in 1..2 : t[i] = p[i]
          /\ \A i \in 1..Len(rest) : t[2 + i] = rest[i]
      <4>1. IsStack(p)
        BY <3>1
      <4>2. /\ IsStack(t) /\ Len(t) = Len(p) + Len(rest)
            /\ \A i \in 1..Len(p) : t[i] = p[i]
            /\ \A i \in 1..Len(rest) : t[Len(p) + i] = rest[i]
        BY <4>1, <2>4, JoinedStack
      <4> QED
        BY <4>2, <3>1
    <3> HIDE DEF t
    <3>3. Rest(s, t, m + 1, 2)
      <4> DEFINE d(i) == i - (m + 1)
      <4>1. ASSUME NEW i \in ((m + 1) + 1)..Len(s)
            PROVE  d(i) \in 1..(Len(s) - (m + 1)) /\ (m + 1) + d(i) = i /\ d(i) + 2 = 2 + d(i)
        BY <1>1, <2>2
      <4>5. ASSUME NEW i \in ((m + 1) + 1)..Len(s)
            PROVE  t[d(i) + 2] = s[i]
        <5> HIDE DEF d
        <5>1. t[2 + d(i)] = rest[d(i)] /\ rest[d(i)] = s[(m + 1) + d(i)]
          BY <4>1, <2>4, <3>2
        <5> QED
          BY <4>1, <5>1
      <4>2. \A i \in ((m + 1) + 1)..Len(s) : t[(i - (m + 1)) + 2] = s[i]
        BY <4>5
      <4>3. \A j \in (2 + 1)..Len(t) :
              j - 2 \in 1..Len(rest) /\ 2 + (j - 2) = j /\ (j - 2) + (m + 1) = (m + 1) + (j - 2)
        BY <2>4, <3>2, <2>2, <1>1
      <4>4. \A j \in (2 + 1)..Len(t) : t[j] = s[(j - 2) + (m + 1)]
        BY <4>3, <2>4, <3>2
      <4> QED
        BY <4>2, <4>4, <2>3, <2>4, <3>2, <1>1 DEF Rest
    <3>4. t[1] = Emit("rejected", {}, revision) /\ t[2] = [op |-> "throw"]
      BY <3>1, <3>2
    <3>5. UnwoundTo(s, t, m + 1, 2)
      BY <3>2, <3>3, <3>4, <2>3, <2>5, <2>6, <2>8 DEF UnwoundTo
    <3>6. q[m].op # "contained"
      BY <2>8
    <3>7. Unwound(Tail(s)) = t
      BY <1>2, <1>5, <3>6 DEF t, q
    <3> QED
      BY <3>5, <3>7, <2>6
  <2> QED
    BY <2>2, <2>7, <2>8
<1> QED
  BY <1>4, <1>5

(* A task throws (Throw).                                                   *)
LEMMA UnwoundCalm ==
  ASSUME NEW s, NEW r, Typed(s, r), Ordered(s), s # << >>, s[1].op \notin Tracked,
         Len(s) >= 2 => Free(s[2])
  PROVE  Calm(s, Unwound(Tail(s)), r)
<1> DEFINE t == Unwound(Tail(s))
<1>1. IsStack(s)
  BY DEF Typed
<1>2. PICK h \in Nat, k \in Nat : UnwoundTo(s, t, h, k)
  BY <1>1, UnwoundShape
<1>3. Len(s) \in Nat
  BY <1>1, StackFacts
<1> HIDE DEF t
<1>4. /\ IsStack(t) /\ Rest(s, t, h, k) /\ h \in 1..Len(s)
      /\ \A j \in 2..(h - 1) : s[j].op \notin {"contained", "rejecting"}
  BY <1>2 DEF UnwoundTo
<1>5. CASE k = 0 /\ h = Len(s) /\ (\A j \in 2..h : s[j].op \notin {"contained", "rejecting"})
  <2>1. h >= 2 => s[h].op \notin Tracked
    <3> SUFFICES ASSUME h >= 2, s[h].op \in Tracked PROVE FALSE
      OBVIOUS
    <3>1. h \in 2..Len(s) /\ h - 1 \in 1..(Len(s) - 1) /\ (h - 1) + 1 = h
      BY <1>3, <1>5
    <3>2. Above(s[h - 1], s[h])
      BY <3>1 DEF Ordered
    <3>3. s[h].op \in Protected
      BY <3>2 DEF Above, HeadOnly, Tracked
    <3>4. PICK j \in 2..(h - 1) : s[j].op = "contained"
      BY <1>1, <3>1, <3>3, Sheltered
    <3> QED
      BY <1>4, <3>4
  <2>2. \A i \in 1..k : Plain(t[i]) /\ TaskOK(t[i], r)
    BY <1>5
  <2>3. h >= 1 /\ ~(k >= 1)
    BY <1>4, <1>5
  <2> QED
    BY <1>4, <2>1, <2>2, <2>3, Dropped DEF t
<1>6. CASE k = 0 /\ h >= 2 /\ s[h].op = "contained"
  <2>1. s[h].op \notin Tracked
    BY <1>6 DEF Tracked, Preparing, Protected
  <2>2. \A i \in 1..k : Plain(t[i]) /\ TaskOK(t[i], r)
    BY <1>6
  <2>3. h >= 1 /\ ~(k >= 1)
    BY <1>4, <1>6
  <2> QED
    BY <1>4, <2>1, <2>2, <2>3, Dropped DEF t
<1>7. CASE /\ k = 2 /\ h >= 2 /\ s[h].op = "rejecting"
           /\ t[1] = Emit("rejected", {}, revision) /\ t[2] = [op |-> "throw"]
  <2>1. s[h].op \notin Tracked
    BY <1>7 DEF Tracked, Preparing, Protected
  <2>2. \A i \in 1..k : i = 1 \/ i = 2
    BY <1>7
  <2>3. /\ Plain(t[1]) /\ TaskOK(t[1], r)
        /\ Plain(t[2]) /\ TaskOK(t[2], r)
    BY <1>7 DEF Emit, Plain, LastFact, TaskOK, Preparing
  <2>4. h >= 1
    BY <1>4
  <2>5. ASSUME h < Len(s)
        PROVE  Free(s[h + 1])
    <3>1. h \in 1..(Len(s) - 1)
      BY <1>3, <1>4, <2>5
    <3>2. Above(s[h], s[h + 1])
      BY <3>1 DEF Ordered
    <3> QED
      BY <3>2, <1>7, BelowOthers DEF LastFact
  <2>6. \A i \in 1..k : Plain(t[i]) /\ TaskOK(t[i], r)
    BY <2>2, <2>3
  <2> QED
    BY <1>4, <2>1, <2>4, <2>5, <2>6, Dropped DEF t
<1> QED
  BY <1>2, <1>5, <1>6, <1>7 DEF UnwoundTo

-----------------------------------------------------------------------------
(* The node store.                                                         *)

ControlOf(r) ==
  [value : Values, dirty : BOOLEAN, request : 0..r, verdict : Values \cup {NoVerdict}]

(* The newest records are at most Retention.                                *)
LEMMA RetainFacts ==
  ASSUME NEW kept, NEW at \in Nat, NEW changed, IsFiniteSet(DOMAIN kept), DOMAIN kept \subseteq Nat
  PROVE  /\ IsFiniteSet(DOMAIN Retain(kept, at, changed))
         /\ Cardinality(DOMAIN Retain(kept, at, changed)) <= Retention
         /\ DOMAIN Retain(kept, at, changed) \subseteq DOMAIN kept \cup {at}
<1> DEFINE D == DOMAIN kept \cup {at}
           newer(r) == {s \in D : s > r}
           K == {r \in D : ~(Cardinality(newer(r)) >= Retention)}
<1>1. DOMAIN Retain(kept, at, changed) = K
  BY DEF Retain
<1>2. IsFiniteSet(D) /\ D \subseteq Nat
  BY FS_AddElement
<1>3. IsFiniteSet(K) /\ K \subseteq D
  BY <1>2, FS_Subset
<1>4. Retention \in Nat \ {0}
  BY RuntimeAssumption
<1>5. CASE K = {}
  <2>1. Cardinality(K) = 0
    BY <1>5, FS_EmptySet
  <2> HIDE DEF K
  <2> QED
    BY <1>1, <1>3, <1>4, <2>1
<1>6. CASE K # {}
  <2>1. PICK m \in K : \A n \in K : m <= n
    BY <1>2, <1>3, <1>6, LeastNumber
  <2>2. IsFiniteSet(newer(m)) /\ Cardinality(newer(m)) \in Nat
    <3>1. newer(m) \in SUBSET D
      OBVIOUS
    <3> QED
      BY <1>2, <3>1, FS_Subset, FS_CardinalityType
  <2>3. K \ {m} \in SUBSET newer(m)
    BY <1>2, <1>3, <2>1
  <2>4. Cardinality(K \ {m}) <= Cardinality(newer(m))
    BY <2>2, <2>3, FS_Subset
  <2>5. Cardinality(newer(m)) < Retention
    <3>1. ~(Cardinality(newer(m)) >= Retention)
      BY <2>1
    <3> QED
      BY <3>1, <2>2, <1>4
  <2>6. Cardinality(K \ {m}) = Cardinality(K) - 1 /\ Cardinality(K) \in Nat
    BY <1>3, <2>1, FS_RemoveElement, FS_CardinalityType
  <2> HIDE DEF K, D, newer
  <2>7. Cardinality(K) <= Retention
    BY <2>2, <2>4, <2>5, <2>6, <1>4
  <2> QED
    BY <1>1, <1>3, <2>7 DEF D
<1> QED
  BY <1>5, <1>6

-----------------------------------------------------------------------------
(* The inductive invariant.                                                *)

AgendaOK == Typed(agenda, requests) /\ Ordered(agenda)

Pending(op) == \E i \in 1..Len(agenda) : agenda[i].op = op

GraphTypes ==
  /\ requests \in Nat /\ revision \in Nat
  /\ DOMAIN nodes \subseteq Nodes /\ nodes \in [DOMAIN nodes -> ControlOf(requests)]
  /\ IsFiniteSet(DOMAIN records) /\ Cardinality(DOMAIN records) <= Retention
  /\ DOMAIN records \subseteq 1..revision
  /\ active \in [Nodes -> 0..requests] /\ contexts \subseteq 1..requests
  /\ adapter \in [Nodes -> Values]
  /\ \A answer \in answers :
       answer.node \in Nodes /\ answer.request \in 1..requests /\ answer.value \in Values
  /\ DOMAIN rendered \subseteq Nodes

ControlTypes ==
  /\ lifecycle \in {"active", "disposed"}
  /\ document \in Documents /\ bindings \in Documents
  /\ throws \in Nat

\* Facts held back are the next to be delivered, and no number is missing.
Publication ==
  /\ sequence \in Nat /\ delivered \in Nat /\ delivered <= sequence
  /\ outbox = [open |-> outbox.open, facts |-> outbox.facts] /\ IsStack(outbox.facts)
  /\ lifecycle = "active" =>
       /\ sequence = delivered + Len(outbox.facts)
       /\ \A i \in 1..Len(outbox.facts) : outbox.facts[i].sequence = delivered + i

HeldBack ==
  /\ ~HoldsBack => outbox = Closed
  /\ HoldsBack <=> savepoint # None \/ Pending("drain")
  /\ savepoint # None => ~Pending("drain")

\* The task that ends an update is there while it is in progress, the one that
\* ends a disposal until the runtime is disposed of.
Phase ==
  /\ updating <=> \E op \in Phases : Pending(op)
  /\ Pending("disposed") => unavailable /\ lifecycle = "active"
  /\ lifecycle = "disposed" => unavailable
  /\ Pending("quarantined") => unavailable \/ At("dispose")
  /\ unavailable /\ savepoint = None => lifecycle = "disposed" \/ Pending("disposed")

\* A coordination is open while its outcome is undecided; a broken one remains
\* open and its application is disposed of at once.
Coordinated ==
  /\ (\E op \in Preparing : At(op)) => savepoint # None /\ ~unavailable
  /\ savepoint # None =>
       /\ "settled" \in DOMAIN savepoint
       /\ IF savepoint.settled
          THEN throws > 0 /\ (unavailable \/ At("restore") \/ At("dispose"))
          ELSE \E op \in Preparing : At(op)

\* What the open coordination restores is the document before.
Tentative ==
  savepoint # None /\ ~savepoint.settled =>
    /\ lifecycle = "active"
    /\ savepoint.bindings = Task.previous
    /\ savepoint.nodes \in [NodesOf[Task.previous] -> ControlOf(requests)]
    /\ savepoint.routes = {MachineOf[Task.previous]}
    /\ savepoint.sequence = delivered
    /\ savepoint.revision \in Nat /\ savepoint.revision <= revision
    /\ DOMAIN records \subseteq 1..savepoint.revision
    /\ machine = MachineOf[Task.previous] /\ routes = {machine}
    /\ bindings = document
    /\ ~At("giveUp") =>
         /\ DOMAIN nodes = NodesOf[document]
         /\ Changed(savepoint.nodes, nodes) # {} => savepoint.revision < revision
    /\ At("commit") => DOMAIN rendered = NodesOf[document]
    /\ At("giveUp") => DOMAIN rendered = NodesOf[Task.previous]

Agreed ==
  ~unavailable /\ savepoint = None /\ ~Pending("quarantined") =>
    /\ DOMAIN nodes = NodesOf[document] /\ DOMAIN rendered = NodesOf[document]
    /\ bindings = document
    /\ machine = MachineOf[document] /\ routes = {machine}

Control == Phase /\ Coordinated /\ Agreed

IInv == AgendaOK /\ GraphTypes /\ ControlTypes /\ Publication /\ HeldBack /\ Control /\ Tentative

LEMMA AgendaNext ==
  ASSUME NEW t, NEW r, agenda' = t, requests' = r, Typed(t, r), Ordered(t)
  PROVE  AgendaOK'
BY DEF AgendaOK

LEMMA PendingFacts ==
  /\ \A op : Pending(op) <=> Has(agenda, op)
  /\ \A op : Pending(op)' <=> Has(agenda', op)
BY DEF Pending, Has

-----------------------------------------------------------------------------
(* The next task.                                                          *)

LEMMA HeadFacts ==
  ASSUME NEW s, IsStack(s), Ordered(s)
  PROVE  /\ \A op : s # << >> /\ Head(s).op = op => Has(s, op)
         /\ \A op \in HeadOnly : Has(s, op) => s # << >> /\ Head(s).op = op
<1>1. /\ Len(s) \in Nat /\ (s = << >> <=> Len(s) = 0)
      /\ s # << >> => Head(s) = s[1]
  BY StackFacts
<1>2. ASSUME NEW op, s # << >>, Head(s).op = op
      PROVE  Has(s, op)
  <2>1. 1 \in 1..Len(s) /\ s[1].op = op
    BY <1>1, <1>2
  <2> QED
    BY <2>1 DEF Has
<1>3. ASSUME NEW op \in HeadOnly, Has(s, op)
      PROVE  s # << >> /\ Head(s).op = op
  <2>1. PICK i \in 1..Len(s) : s[i].op = op
    BY <1>3 DEF Has
  <2>2. i = 1
    <3> SUFFICES ASSUME i # 1 PROVE FALSE
      OBVIOUS
    <3>1. i - 1 \in 1..(Len(s) - 1) /\ (i - 1) + 1 = i
      BY <1>1
    <3>2. Above(s[i - 1], s[i])
      BY <3>1 DEF Ordered
    <3> QED
      BY <2>1, <3>2 DEF Above
  <2> QED
    BY <1>1, <2>1, <2>2
<1> QED
  BY <1>2, <1>3

LEMMA AtFacts ==
  ASSUME AgendaOK
  PROVE  /\ \A op : At(op) => Pending(op)
         /\ \A op \in HeadOnly : Pending(op) => At(op)
         /\ agenda # << >> => /\ Task = agenda[1] /\ Len(agenda) \in Nat /\ Len(agenda) >= 1
                              /\ TaskOK(Task, requests)
<1>1. IsStack(agenda) /\ Ordered(agenda) /\ \A i \in 1..Len(agenda) : TaskOK(agenda[i], requests)
  BY DEF AgendaOK, Typed
<1>2. \A op : At(op) => Has(agenda, op)
  BY <1>1, HeadFacts DEF At, Task
<1>3. \A op \in HeadOnly : Has(agenda, op) => At(op)
  BY <1>1, HeadFacts DEF At, Task
<1>4. agenda # << >> => Task = agenda[1] /\ Len(agenda) \in Nat /\ Len(agenda) >= 1
  BY <1>1, StackFacts DEF Task
<1>5. agenda # << >> => TaskOK(Task, requests)
  <2>1. agenda # << >> => 1 \in 1..Len(agenda)
    BY <1>4
  <2> QED
    BY <1>1, <1>4, <2>1
<1> QED
  BY <1>2, <1>3, <1>4, <1>5, PendingFacts

LEMMA AtNext ==
  ASSUME AgendaOK'
  PROVE  /\ \A op : At(op)' => Pending(op)'
         /\ \A op \in HeadOnly : Pending(op)' => At(op)'
<1>1. IsStack(agenda') /\ Ordered(agenda')
  BY DEF AgendaOK, Typed
<1>2. \A op : At(op)' => Has(agenda', op)
  BY <1>1, HeadFacts DEF At, Task
<1>3. \A op \in HeadOnly : Has(agenda', op) => At(op)'
  BY <1>1, HeadFacts DEF At, Task
<1> QED
  BY <1>2, <1>3, PendingFacts

-----------------------------------------------------------------------------
(* Steps that change neither what is pending nor the state of an update.   *)

LEMMA SameGraph ==
  ASSUME GraphTypes, UNCHANGED <<storeVars, validationVars, adapter, rendered>>
  PROVE  GraphTypes'
BY DEF GraphTypes, storeVars, validationVars

LEMMA SamePublication ==
  ASSUME Publication, UNCHANGED <<lifecycle, publisherVars>>
  PROVE  Publication'
BY DEF Publication, publisherVars

LEMMA SameHeldBack ==
  ASSUME HeldBack, UNCHANGED <<outbox, savepoint>>, Pending("drain")' <=> Pending("drain")
  PROVE  HeldBack'
BY DEF HeldBack, HoldsBack, Closed

LEMMA CalmNext ==
  ASSUME NEW r, Calm(agenda, agenda', r), requests' = r
  PROVE  AgendaOK' /\ \A op \in Tracked : Pending(op)' <=> Pending(op)
<1>1. AgendaOK'
  BY AgendaNext DEF Calm
<1> QED
  BY <1>1, PendingFacts DEF Calm

\* The next task decides nothing about an update or a disposal.
Undecided == (\A op \in Preparing : ~At(op)) /\ (At("dispose") => unavailable)

SameControl ==
  /\ UNCHANGED <<lifecycle, savepoint, routes, bindings, document, machine, updating, unavailable>>
  /\ DOMAIN nodes' = DOMAIN nodes /\ DOMAIN rendered' = DOMAIN rendered
  /\ throws' \in Nat /\ throws <= throws'

LEMMA QuietControl ==
  ASSUME AgendaOK, AgendaOK', ControlTypes, Control, Undecided, SameControl,
         \A op \in Tracked \ {"drain"} : Pending(op)' <=> Pending(op)
  PROVE  ControlTypes' /\ Control' /\ Tentative'
<1>1. ControlTypes'
  BY DEF ControlTypes, SameControl
<1>2. \A op \in Preparing : ~Pending(op) /\ ~Pending(op)' /\ ~At(op) /\ ~At(op)'
  <2>1. \A op \in Preparing : op \in Tracked \ {"drain"} /\ op \in HeadOnly
    BY DEF Tracked, HeadOnly, Preparing
  <2>2. \A op \in Preparing : ~At(op)
    BY DEF Undecided
  <2>3. \A op \in Preparing : ~Pending(op)
    BY <2>1, <2>2, AtFacts
  <2>4. \A op \in Preparing : ~Pending(op)'
    BY <2>1, <2>3
  <2>5. \A op \in Preparing : ~At(op)'
    BY <2>4, AtNext
  <2> QED
    BY <2>2, <2>3, <2>4, <2>5
<1>3. /\ Pending("disposed")' <=> Pending("disposed")
      /\ Pending("quarantined")' <=> Pending("quarantined")
      /\ \A op \in Phases : Pending(op)' <=> Pending(op)
  <2>1. \A op \in Phases \cup {"disposed", "quarantined"} : op \in Tracked \ {"drain"}
    BY DEF Phases, Tracked, Protected, Preparing
  <2> QED
    BY <2>1
<1>4. At("dispose") => unavailable
  BY DEF Undecided
<1>5. Phase'
  <2>1. (\E op \in Phases : Pending(op)') <=> (\E op \in Phases : Pending(op))
    BY <1>3
  <2>2. updating' <=> \E op \in Phases : Pending(op)'
    BY <2>1 DEF Control, Phase, SameControl
  <2>3. /\ Pending("disposed")' => unavailable' /\ lifecycle' = "active"
        /\ lifecycle' = "disposed" => unavailable'
        /\ Pending("quarantined")' => unavailable'
        /\ unavailable' /\ savepoint' = None => lifecycle' = "disposed" \/ Pending("disposed")'
    BY <1>3, <1>4 DEF Control, Phase, SameControl, None
  <2> QED
    BY <2>2, <2>3 DEF Phase
<1>6. /\ savepoint # None => "settled" \in DOMAIN savepoint /\ savepoint.settled
                             /\ throws > 0 /\ unavailable
  <2>1. ~At("restore")
    BY <1>2 DEF Preparing
  <2> QED
    BY <1>2, <1>4, <2>1 DEF Control, Coordinated
<1>7. Coordinated'
  <2>1. savepoint' = savepoint /\ unavailable' = unavailable
    BY DEF SameControl
  <2>2. throws > 0 => throws' > 0
    BY DEF ControlTypes, SameControl
  <2> QED
    BY <1>2, <1>6, <2>1, <2>2 DEF Coordinated, None
<1>8. Agreed'
  BY <1>3 DEF Control, Agreed, SameControl, None
<1>9. Tentative'
  <2>1. savepoint' = savepoint
    BY DEF SameControl
  <2> QED
    BY <1>6, <2>1 DEF Tentative, None
<1> QED
  BY <1>1, <1>5, <1>7, <1>8, <1>9 DEF Control

LEMMA QuietStep ==
  ASSUME IInv, NEW r, Calm(agenda, agenda', r), requests' = r, Undecided, SameControl,
         GraphTypes', UNCHANGED publisherVars
  PROVE  IInv'
<1>1. AgendaOK' /\ \A op \in Tracked : Pending(op)' <=> Pending(op)
  BY CalmNext
<1>2. ControlTypes' /\ Control' /\ Tentative'
  BY <1>1, QuietControl DEF IInv
<1>3. Publication'
  BY SamePublication DEF IInv, SameControl
<1>4. HeldBack'
  <2>1. "drain" \in Tracked
    BY DEF Tracked, Protected
  <2>2. Pending("drain")' <=> Pending("drain")
    BY <1>1, <2>1
  <2> QED
    BY <2>2, SameHeldBack DEF IInv, SameControl, publisherVars
<1> QED
  BY <1>1, <1>2, <1>3, <1>4 DEF IInv

-----------------------------------------------------------------------------
(* Commands, effects and validations.                                      *)

PlainOps == {"execute", "rejecting", "throw", "settle", "write", "perform", "schedule", "start",
             "launch"}

LEMMA PlainAt ==
  ASSUME AgendaOK, NEW op \in PlainOps \cup {"contained", "observe"}, At(op)
  PROVE  /\ agenda # << >> /\ Task = agenda[1] /\ agenda[1].op = op /\ TaskOK(Task, requests)
         /\ Typed(agenda, requests) /\ Ordered(agenda) /\ agenda[1].op \notin Tracked
         /\ op \in PlainOps => /\ Plain(agenda[1]) /\ agenda[1].op # "contained"
                               /\ Len(agenda) >= 2 => Free(agenda[2])
         /\ Undecided
<1>1. agenda # << >> /\ Task = agenda[1] /\ agenda[1].op = op /\ TaskOK(Task, requests)
  BY AtFacts DEF At
<1>2. Typed(agenda, requests) /\ Ordered(agenda)
  BY DEF AgendaOK
<1>3. agenda[1].op \notin Tracked
  BY <1>1 DEF PlainOps, Tracked, Protected, Preparing
<1>4. ASSUME op \in PlainOps
      PROVE  /\ Plain(agenda[1]) /\ agenda[1].op # "contained"
             /\ Len(agenda) >= 2 => Free(agenda[2])
  <2>1. Plain(agenda[1]) /\ agenda[1].op # "contained"
    BY <1>1, <1>4 DEF PlainOps, Plain, LastFact
  <2>2. ASSUME Len(agenda) >= 2
        PROVE  Free(agenda[2])
    <3>1. Above(agenda[1], agenda[2])
      BY <1>2, <2>2, OrderedNext DEF Typed
    <3> QED
      BY <2>1, <3>1, BelowOthers DEF Plain
  <2> QED
    BY <2>1, <2>2
<1>5. Undecided
  <2>1. \A other : At(other) => other = op
    BY <1>1 DEF At
  <2>2. op \notin Preparing /\ op # "dispose"
    BY DEF PlainOps, Preparing
  <2> QED
    BY <2>1, <2>2 DEF Undecided
<1> QED
  BY <1>1, <1>2, <1>3, <1>4, <1>5

LEMMA PlainDo ==
  ASSUME IInv, NEW op \in PlainOps, At(op), NEW p, NEW r \in Nat, requests <= r, Do(p),
         Typed(p, r), \A i \in 1..Len(p) : Plain(p[i])
  PROVE  Calm(agenda, agenda', r)
<1>1. /\ agenda # << >> /\ Typed(agenda, requests) /\ Ordered(agenda)
      /\ Plain(agenda[1]) /\ agenda[1].op # "contained"
  BY PlainAt DEF IInv
<1>2. requests \in Nat
  BY DEF IInv, GraphTypes
<1>3. Typed(agenda, r)
  BY <1>1, <1>2, TypedLater
<1>4. Calm(agenda, p \o Tail(agenda), r)
  BY <1>1, <1>3, PlainPush
<1> QED
  BY <1>4 DEF Do

LEMMA PlainThrow ==
  ASSUME IInv, NEW op \in PlainOps, At(op), Throw
  PROVE  Calm(agenda, agenda', requests)
<1>1. /\ agenda # << >> /\ Typed(agenda, requests) /\ Ordered(agenda)
      /\ agenda[1].op \notin Tracked /\ (Len(agenda) >= 2 => Free(agenda[2]))
  BY PlainAt DEF IInv
<1>2. Calm(agenda, Unwound(Tail(agenda)), requests)
  BY <1>1, UnwoundCalm
<1> QED
  BY <1>2 DEF Throw

(* A command that fails publishes its own rejection.                        *)
LEMMA RejectedHere ==
  ASSUME NEW q, IsStack(q)
  PROVE  Unwound(<<Rejecting>> \o q)
           = <<Emit("rejected", {}, revision), [op |-> "throw"]>> \o q
<1> DEFINE u == <<Rejecting>> \o q
           handlers == {i \in DOMAIN u : u[i].op \in {"contained", "rejecting"}}
           rest == SubSeq(u, Min(handlers) + 1, Len(u))
           p == <<Emit("rejected", {}, revision), [op |-> "throw"]>>
<1>1. IsStack(<<Rejecting>>) /\ Len(<<Rejecting>>) = 1 /\ <<Rejecting>>[1] = Rejecting
  BY StackOfOne
<1>2. /\ IsStack(u) /\ Len(u) = 1 + Len(q) /\ u[1] = Rejecting
      /\ \A i \in 1..Len(q) : u[1 + i] = q[i]
  <2>1. /\ IsStack(u) /\ Len(u) = Len(<<Rejecting>>) + Len(q)
        /\ \A i \in 1..Len(<<Rejecting>>) : u[i] = <<Rejecting>>[i]
        /\ \A i \in 1..Len(q) : u[Len(<<Rejecting>>) + i] = q[i]
    BY <1>1, JoinedStack
  <2>2. 1 \in 1..Len(<<Rejecting>>)
    BY <1>1
  <2> QED
    BY <1>1, <2>1, <2>2
<1>3. Len(q) \in Nat /\ DOMAIN u = 1..Len(u)
  BY <1>2, StackFacts
<1>4. Unwound(u) = IF handlers = {} THEN << >>
                   ELSE IF u[Min(handlers)].op = "contained" THEN rest
                   ELSE p \o rest
  BY DEF Unwound
<1> HIDE DEF u
<1>5. 1 \in handlers /\ handlers \in SUBSET Nat
  BY <1>2, <1>3 DEF Rejecting
<1>6. Min(handlers) = 1
  <2>1. Min(handlers) \in handlers /\ Min(handlers) <= 1
    BY <1>5, MinFacts
  <2>2. Min(handlers) \in 1..Len(u)
    BY <2>1, <1>3
  <2> QED
    BY <2>1, <2>2, <1>2, <1>3
<1>7. rest = q
  <2>1. PICK S : u \in Seq(S)
    BY <1>2 DEF IsStack
  <2>2. PICK T : q \in Seq(T)
    BY DEF IsStack
  <2>3. \A i \in 2..Len(u) : u[i] \in S \cup T
    BY <2>1, <1>2, <1>3, ElementOfSeq
  <2>4. Len(u) \in Int
    BY <1>2, <1>3
  <2>5. /\ SubSeq(u, 2, Len(u)) \in Seq(S \cup T)
        /\ Len(SubSeq(u, 2, Len(u))) = IF 2 <= Len(u) THEN Len(u) - 2 + 1 ELSE 0
        /\ \A i \in 1..(Len(u) - 2 + 1) : SubSeq(u, 2, Len(u))[i] = u[2 + i - 1]
    BY <2>3, <2>4, SubSeqProperties
  <2>6. Len(SubSeq(u, 2, Len(u))) = Len(q)
    BY <2>5, <1>2, <1>3
  <2>7. \A i \in 1..Len(q) : SubSeq(u, 2, Len(u))[i] = q[i]
    <3>1. \A i \in 1..Len(q) : i \in 1..(Len(u) - 2 + 1) /\ 2 + i - 1 = 1 + i
      BY <1>2, <1>3
    <3> QED
      BY <3>1, <2>5, <1>2
  <2>8. q \in Seq(S \cup T)
    BY <2>2, SeqMonotonic
  <2>9. SubSeq(u, 2, Len(u)) = q
    BY <2>5, <2>6, <2>7, <2>8, SeqEqual
  <2>10. Min(handlers) + 1 = 2
    BY <1>6
  <2> HIDE DEF handlers
  <2> QED
    BY <2>9, <2>10 DEF rest
<1>8. u[1].op = "rejecting"
  BY <1>2 DEF Rejecting
<1> QED
  BY <1>4, <1>5, <1>6, <1>7, <1>8 DEF u

LEMMA RejectedCalm ==
  ASSUME IInv, NEW op \in PlainOps, At(op), agenda' = Unwound(<<Rejecting>> \o Tail(agenda))
  PROVE  Calm(agenda, agenda', requests)
<1> DEFINE p == <<Emit("rejected", {}, revision), [op |-> "throw"]>>
<1>1. agenda # << >> /\ IsStack(agenda)
  BY PlainAt DEF IInv, Typed
<1>2. IsStack(Tail(agenda))
  BY <1>1, StackFacts
<1>3. Do(p)
  BY <1>2, RejectedHere DEF Do
<1>4. Typed(p, requests) /\ Len(p) = 2 /\ \A i \in 1..2 : Plain(p[i])
  BY RejectionFacts
<1>5. requests \in Nat /\ requests <= requests
  BY DEF IInv, GraphTypes
<1> HIDE DEF p
<1>6. \A i \in 1..Len(p) : Plain(p[i])
  BY <1>4
<1> QED
  BY <1>3, <1>4, <1>5, <1>6, PlainDo

LEMMA ControlFacts ==
  ASSUME NEW r, NEW control \in ControlOf(r)
  PROVE  /\ \A v \in Values : Edited(control, v) \in ControlOf(r)
         /\ \A q \in 0..r : Started(control, q) \in ControlOf(r)
         /\ r \in Nat =>
              \A q : \A v \in Values \cup {NoVerdict} : Judged(control, q, v) \in ControlOf(r)
<1>1. \A v \in Values : Edited(control, v) \in ControlOf(r)
  BY DEF Edited, ControlOf
<1>2. \A q \in 0..r : Started(control, q) \in ControlOf(r)
  BY DEF Started, ControlOf
<1>3. ASSUME r \in Nat, NEW q, NEW v \in Values \cup {NoVerdict}
      PROVE  Judged(control, q, v) \in ControlOf(r)
  <2>1. NoRequest \in 0..r
    BY <1>3 DEF NoRequest
  <2> QED
    BY <2>1 DEF Judged, ControlOf
<1> QED
  BY <1>1, <1>2, <1>3

(* A command that applies keeps the types of the graph.                     *)
LEMMA AppliedTypes ==
  ASSUME GraphTypes, NEW command, Command(command, requests), Applicable(command)
  PROVE  Applied(command) \in [DOMAIN nodes -> ControlOf(requests)]
<1> DEFINE node == command.node
           type == command.type
<1>1. node \in DOMAIN nodes /\ nodes[node] \in ControlOf(requests) /\ requests \in Nat
  BY DEF GraphTypes, Applicable
<1>2. ASSUME NEW control \in ControlOf(requests)
      PROVE  [nodes EXCEPT ![node] = control] \in [DOMAIN nodes -> ControlOf(requests)]
  BY <1>1 DEF GraphTypes
<1>3. CASE type = "value"
  <2>1. Applied(command) = [nodes EXCEPT ![node] = Edited(nodes[node], command.value)]
    BY <1>3 DEF Applied
  <2>2. Edited(nodes[node], command.value) \in ControlOf(requests)
    BY <1>1, <1>3, ControlFacts DEF Command
  <2> QED
    BY <1>2, <2>1, <2>2
<1>4. CASE type = "start"
  <2>1. Applied(command) = [nodes EXCEPT ![node] = Started(nodes[node], command.request)]
    BY <1>4 DEF Applied
  <2>2. Started(nodes[node], command.request) \in ControlOf(requests)
    BY <1>1, <1>4, ControlFacts DEF Command
  <2> QED
    BY <1>2, <2>1, <2>2
<1>5. CASE type = "resolve"
  <2>1. Applied(command)
          = [nodes EXCEPT ![node] = Judged(nodes[node], command.request, command.verdict)]
    BY <1>5 DEF Applied
  <2>2. Judged(nodes[node], command.request, command.verdict) \in ControlOf(requests)
    BY <1>1, <1>5, ControlFacts DEF Command
  <2> QED
    BY <1>2, <2>1, <2>2
<1>6. CASE type = "cancel"
  <2>1. Applied(command) = [nodes EXCEPT ![node] = Judged(nodes[node], command.request, NoVerdict)]
    BY <1>6 DEF Applied
  <2>2. NoVerdict \in Values \cup {NoVerdict}
    OBVIOUS
  <2>3. Judged(nodes[node], command.request, NoVerdict) \in ControlOf(requests)
    BY <1>1, <2>2, ControlFacts
  <2> QED
    BY <1>2, <2>1, <2>3
<1> QED
  BY <1>3, <1>4, <1>5, <1>6 DEF Command

LEMMA CommitGraph ==
  ASSUME GraphTypes, NEW command, Command(command, requests), Applicable(command),
         Commit(command), UNCHANGED <<validationVars, adapter, rendered>>
  PROVE  GraphTypes' /\ DOMAIN nodes' = DOMAIN nodes
<1> DEFINE after == Applied(command)
           changed == Changed(nodes, after)
           next == IF changed = {} THEN revision ELSE revision + 1
<1>1. after \in [DOMAIN nodes -> ControlOf(requests)]
  BY AppliedTypes
<1>2. /\ nodes' = after /\ revision' = next
      /\ records' = IF changed = {} THEN records ELSE Retain(records, next, changed)
  BY DEF Commit
<1> HIDE DEF after, changed
<1>3. revision' \in Nat /\ revision <= revision'
  BY <1>2 DEF GraphTypes
<1>4. /\ IsFiniteSet(DOMAIN records') /\ Cardinality(DOMAIN records') <= Retention
      /\ DOMAIN records' \subseteq 1..revision'
  <2>1. CASE changed = {}
    BY <1>2, <2>1 DEF GraphTypes
  <2>2. CASE changed # {}
    <3>1. next = revision + 1 /\ next \in Nat /\ next \in 1..revision' /\ 1..revision \subseteq 1..revision'
      BY <1>2, <2>2 DEF GraphTypes
    <3>2. IsFiniteSet(DOMAIN records) /\ DOMAIN records \subseteq Nat
      BY DEF GraphTypes
    <3>3. /\ IsFiniteSet(DOMAIN Retain(records, next, changed))
          /\ Cardinality(DOMAIN Retain(records, next, changed)) <= Retention
          /\ DOMAIN Retain(records, next, changed) \subseteq DOMAIN records \cup {next}
      BY <3>1, <3>2, RetainFacts
    <3>4. DOMAIN records \subseteq 1..revision
      BY DEF GraphTypes
    <3>5. records' = Retain(records, next, changed)
      BY <1>2, <2>2
    <3> HIDE DEF next
    <3> QED
      BY <3>1, <3>3, <3>4, <3>5
  <2> QED
    BY <2>1, <2>2
<1>5. DOMAIN nodes' = DOMAIN nodes
  BY <1>1, <1>2
<1>6. nodes' \in [DOMAIN nodes' -> ControlOf(requests')]
  BY <1>1, <1>2, <1>5 DEF validationVars
<1> QED
  BY <1>3, <1>4, <1>5, <1>6 DEF GraphTypes, validationVars

(* What a committed command leaves to do.                                   *)
LEMMA WritesFacts ==
  ASSUME GraphTypes, NEW command, Command(command, requests), Applicable(command)
  PROVE  LET after == Applied(command)
             writes == Writes(command, after)
         IN  /\ IsStack(writes)
             /\ \A i \in 1..Len(writes) : Writing("write", writes[i])
<1> DEFINE after == Applied(command)
           writes == Writes(command, after)
           node == command.node
           task == [op |-> "write", node |-> node, value |-> after[node].value]
<1>1. after \in [DOMAIN nodes -> ControlOf(requests)] /\ node \in DOMAIN nodes
  BY AppliedTypes DEF Applicable
<1>2. Writing("write", task)
  <2>1. after[node] \in ControlOf(requests)
    BY <1>1
  <2>2. after[node].value \in Values
    BY <2>1 DEF ControlOf
  <2> QED
    BY <2>2 DEF Writing, Command
<1>3. writes = <<task>> \/ writes = << >>
  BY DEF Writes
<1> HIDE DEF task, writes
<1>4. ASSUME writes = << >>
      PROVE  IsStack(writes) /\ \A i \in 1..Len(writes) : Writing("write", writes[i])
  BY <1>4, EmptyStack
<1>5. ASSUME writes = <<task>>
      PROVE  IsStack(writes) /\ \A i \in 1..Len(writes) : Writing("write", writes[i])
  <2>1. IsStack(<<task>>) /\ Len(<<task>>) = 1 /\ <<task>>[1] = task
    BY StackOfOne
  <2>2. \A i \in 1..1 : i = 1
    OBVIOUS
  <2> QED
    BY <1>2, <1>5, <2>1, <2>2
<1>6. IsStack(writes) /\ \A i \in 1..Len(writes) : Writing("write", writes[i])
  BY <1>3, <1>4, <1>5
<1> QED
  BY <1>6 DEF writes

\* A stack of plain tasks.
Work(s, r) == Typed(s, r) /\ \A i \in 1..Len(s) : Plain(s[i])

LEMMA WorkOfNone == ASSUME NEW r PROVE Work(<< >>, r)
BY EmptyStack DEF Work, Typed

LEMMA WorkOfOne ==
  ASSUME NEW r, NEW x, TaskOK(x, r), Plain(x)
  PROVE  Work(<<x>>, r)
<1>1. IsStack(<<x>>) /\ Len(<<x>>) = 1 /\ <<x>>[1] = x
  BY StackOfOne
<1>2. \A i \in 1..1 : i = 1
  OBVIOUS
<1> QED
  BY <1>1, <1>2 DEF Work, Typed

LEMMA WorkJoined ==
  ASSUME NEW r, NEW p, NEW q, Work(p, r), Work(q, r)
  PROVE  Work(p \o q, r)
<1> DEFINE t == p \o q
<1>1. /\ IsStack(t) /\ Len(t) = Len(p) + Len(q) /\ Len(p) \in Nat /\ Len(q) \in Nat
      /\ \A i \in 1..Len(p) : t[i] = p[i]
      /\ \A i \in 1..Len(q) : t[Len(p) + i] = q[i]
  BY JoinedStack, StackFacts DEF Work, Typed
<1> HIDE DEF t
<1>2. \A i \in 1..Len(t) : TaskOK(t[i], r) /\ Plain(t[i])
  <2> SUFFICES ASSUME NEW i \in 1..Len(t) PROVE TaskOK(t[i], r) /\ Plain(t[i])
    OBVIOUS
  <2>1. CASE i \in 1..Len(p)
    BY <1>1, <2>1 DEF Work, Typed
  <2>2. CASE i \notin 1..Len(p)
    <3>1. i - Len(p) \in 1..Len(q) /\ Len(p) + (i - Len(p)) = i
      BY <1>1, <2>2
    <3> QED
      BY <1>1, <3>1 DEF Work, Typed
  <2> QED
    BY <2>1, <2>2
<1>3. Work(t, r)
  BY <1>1, <1>2 DEF Work, Typed
<1> QED
  BY <1>3 DEF t

LEMMA EmitOK ==
  ASSUME NEW r, NEW kind, kind # "disposed", NEW changed, NEW at
  PROVE  TaskOK(Emit(kind, changed, at), r) /\ Plain(Emit(kind, changed, at))
BY DEF TaskOK, Emit, Preparing, Plain, LastFact

LEMMA EachWork ==
  ASSUME NEW r, NEW set \in SUBSET Nodes
  PROVE  /\ Work(Each("schedule", set), r)
         /\ \A i \in 1..Len(Each("schedule", set)) : Scheduling(Each("schedule", set)[i])
         /\ \A i \in 1..Len(Each("schedule", set)) : Each("schedule", set)[i].op = "schedule"
<1> DEFINE s == Each("schedule", set)
<1>1. IsFiniteSet(set)
  BY RuntimeAssumption, FS_Subset
<1>2. /\ IsStack(s)
      /\ \A i \in 1..Len(s) : \E n \in set : s[i] = [op |-> "schedule", node |-> n]
  BY <1>1, EachFacts
<1> HIDE DEF s
<1>3. ASSUME NEW i \in 1..Len(s)
      PROVE  Scheduling(s[i]) /\ TaskOK(s[i], r) /\ Plain(s[i]) /\ s[i].op = "schedule"
  <2>1. PICK n \in set : s[i] = [op |-> "schedule", node |-> n]
    BY <1>2
  <2>2. s[i].op = "schedule" /\ s[i].node \in Nodes
    BY <2>1
  <2> QED
    BY <2>2 DEF Scheduling, TaskOK, Plain, LastFact, Preparing
<1>4. /\ Work(s, r)
      /\ \A i \in 1..Len(s) : Scheduling(s[i])
      /\ \A i \in 1..Len(s) : s[i].op = "schedule"
  BY <1>2, <1>3 DEF Work, Typed
<1> QED
  BY <1>4 DEF s

LEMMA WorkDo ==
  ASSUME IInv, NEW op \in PlainOps, At(op), NEW p, NEW r \in Nat, requests <= r, Do(p), Work(p, r)
  PROVE  Calm(agenda, agenda', r)
BY PlainDo DEF Work

LEMMA SettleOK ==
  ASSUME GraphTypes, NEW command, Command(command, requests), Applicable(command),
         NEW set \in SUBSET Nodes, NEW r
  PROVE  LET task == [op |-> "settle",
                      work |-> Writes(command, Applied(command)) \o Each("schedule", set)]
         IN  TaskOK(task, r) /\ Plain(task)
<1> DEFINE w == Writes(command, Applied(command))
           e == Each("schedule", set)
           u == w \o e
           task == [op |-> "settle", work |-> u]
<1>1. IsStack(w) /\ \A i \in 1..Len(w) : Writing("write", w[i])
  BY WritesFacts
<1>2. IsStack(e) /\ \A i \in 1..Len(e) : Scheduling(e[i])
  BY EachWork DEF Work, Typed
<1> HIDE DEF w, e
<1>3. /\ IsStack(u) /\ Len(u) = Len(w) + Len(e) /\ Len(w) \in Nat /\ Len(e) \in Nat
      /\ \A i \in 1..Len(w) : u[i] = w[i]
      /\ \A i \in 1..Len(e) : u[Len(w) + i] = e[i]
  BY <1>1, <1>2, JoinedStack, StackFacts
<1> HIDE DEF u
<1>4. \A i \in 1..Len(u) : Writing("write", u[i]) \/ Scheduling(u[i])
  <2> SUFFICES ASSUME NEW i \in 1..Len(u) PROVE Writing("write", u[i]) \/ Scheduling(u[i])
    OBVIOUS
  <2>1. CASE i \in 1..Len(w)
    BY <1>1, <1>3, <2>1
  <2>2. CASE i \notin 1..Len(w)
    <3>1. i - Len(w) \in 1..Len(e) /\ Len(w) + (i - Len(w)) = i
      BY <1>3, <2>2
    <3> QED
      BY <1>2, <1>3, <3>1
  <2> QED
    BY <2>1, <2>2
<1>5. TaskOK(task, r) /\ Plain(task)
  BY <1>3, <1>4 DEF TaskOK, Plain, LastFact, Preparing
<1> QED
  BY <1>5 DEF u, w, e

LEMMA CommitCalm ==
  ASSUME IInv, At("execute"), Applicable(Task.command), Commit(Task.command)
  PROVE  Calm(agenda, agenda', requests)
<1> DEFINE command == Task.command
           after == Applied(command)
           changed == Changed(nodes, after)
           next == IF changed = {} THEN revision ELSE revision + 1
           x == Emit("applied", {}, next)
           f == <<x>>
           g == [i \in DOMAIN Writes(command, after) |-> Emit("applied", {}, next)]
           t == IF changed = {} THEN << >> ELSE <<Emit("transaction", changed, next)>>
           settle == [op |-> "settle",
                      work |-> Writes(command, after)
                               \o Each("schedule", Triggers(command, changed))]
           e == <<settle, Rejecting>>
<1>1. GraphTypes /\ requests \in Nat /\ requests <= requests /\ "execute" \in PlainOps
  BY DEF IInv, GraphTypes, PlainOps
<1>2. Command(command, requests)
  <2>1. TaskOK(Task, requests) /\ Task.op = "execute"
    BY AtFacts DEF IInv, At
  <2> QED
    BY <2>1 DEF TaskOK
<1>3. Work(f, requests)
  <2>1. TaskOK(x, requests) /\ Plain(x)
    BY EmitOK
  <2> HIDE DEF x
  <2> QED
    BY <2>1, WorkOfOne
<1>4. Work(g, requests)
  <2>1. IsStack(Writes(command, after))
    BY <1>1, <1>2, WritesFacts
  <2>2. DOMAIN Writes(command, after) = 1..Len(Writes(command, after)) /\ Len(Writes(command, after)) \in Nat
    BY <2>1, StackFacts
  <2> DEFINE n == Len(Writes(command, after))
  <2>3. g = [i \in 1..n |-> x] /\ n \in Nat
    BY <2>2
  <2>4. TaskOK(x, requests) /\ Plain(x)
    BY EmitOK
  <2> HIDE DEF x, n, g
  <2>5. g \in Seq({x}) /\ Len(g) = n
    BY <2>3
  <2>6. \A i \in 1..Len(g) : g[i] = x
    BY <2>3, <2>5
  <2> QED
    BY <2>4, <2>5, <2>6 DEF Work, Typed, IsStack
<1>5. Work(t, requests)
  <2>1. CASE changed = {}
    BY <2>1, WorkOfNone
  <2>2. CASE changed # {}
    <3> DEFINE y == Emit("transaction", changed, next)
    <3>1. TaskOK(y, requests) /\ Plain(y)
      BY EmitOK
    <3>2. t = <<y>>
      BY <2>2
    <3> HIDE DEF y, t
    <3> QED
      BY <3>1, <3>2, WorkOfOne
  <2> QED
    BY <2>1, <2>2
<1>6. Work(e, requests)
  <2>1. Triggers(command, changed) \in SUBSET Nodes
    BY RuntimeAssumption DEF Triggers
  <2>2. TaskOK(settle, requests) /\ Plain(settle)
    BY <1>1, <1>2, <2>1, SettleOK
  <2>3. TaskOK(Rejecting, requests) /\ Plain(Rejecting)
    BY DEF Rejecting, TaskOK, Plain, LastFact, Preparing
  <2> HIDE DEF settle
  <2>4. /\ IsStack(e) /\ Len(e) = 2 /\ e[1] = settle /\ e[2] = Rejecting
    BY StackOfTwo
  <2>5. \A i \in 1..2 : i = 1 \/ i = 2
    OBVIOUS
  <2> HIDE DEF e
  <2> QED
    BY <2>2, <2>3, <2>4, <2>5 DEF Work, Typed
<1>7. \/ Do(f \o g \o t \o e)
      \/ agenda' = Unwound(<<Rejecting>> \o Tail(agenda))
  BY DEF Commit
<1> HIDE DEF f, g, t, e
<1>8. Work(f \o g \o t \o e, requests)
  BY <1>3, <1>4, <1>5, <1>6, WorkJoined
<1>9. CASE Do(f \o g \o t \o e)
  BY <1>1, <1>8, <1>9, WorkDo
<1>10. CASE agenda' = Unwound(<<Rejecting>> \o Tail(agenda))
  BY <1>1, <1>10, RejectedCalm
<1> QED
  BY <1>7, <1>9, <1>10

LEMMA ExecuteKeeps ==
  ASSUME IInv, ExecuteCommand, UNCHANGED applicationVars
  PROVE  IInv'
<1>1. At("execute") /\ "execute" \in PlainOps \cup {"contained", "observe"} /\ "execute" \in PlainOps
  BY DEF ExecuteCommand, PlainOps
<1>2. Undecided /\ TaskOK(Task, requests) /\ Task.op = "execute"
  BY <1>1, PlainAt DEF IInv, At
<1>3. requests' = requests /\ UNCHANGED publisherVars
  BY DEF ExecuteCommand, validationVars
<1>4. /\ UNCHANGED <<lifecycle, savepoint, routes, bindings, document, machine, updating, unavailable>>
      /\ rendered' = rendered
      /\ UNCHANGED <<validationVars, adapter, rendered>>
  BY DEF ExecuteCommand, applicationVars
<1>5. CASE Throw /\ UNCHANGED <<storeVars, throws>>
  <2>1. Calm(agenda, agenda', requests)
    BY <1>1, <1>5, PlainThrow
  <2>2. GraphTypes'
    BY <1>4, <1>5, SameGraph DEF IInv
  <2>3. SameControl
    BY <1>4, <1>5 DEF SameControl, storeVars, IInv, ControlTypes
  <2> QED
    BY <1>2, <1>3, <2>1, <2>2, <2>3, QuietStep
<1>6. CASE Applicable(Task.command) /\ Commit(Task.command)
  <2>1. Calm(agenda, agenda', requests)
    BY <1>1, <1>6, CommitCalm
  <2>2. GraphTypes' /\ DOMAIN nodes' = DOMAIN nodes
    BY <1>2, <1>4, <1>6, CommitGraph DEF IInv, TaskOK
  <2>3. throws' \in Nat /\ throws <= throws'
    BY <1>6 DEF Commit, SelectorThrows, IInv, ControlTypes
  <2>4. SameControl
    BY <1>4, <2>2, <2>3 DEF SameControl
  <2> QED
    BY <1>2, <1>3, <2>1, <2>2, <2>4, QuietStep
<1>7. CASE /\ agenda' = Unwound(<<Rejecting>> \o Tail(agenda))
           /\ UNCHANGED <<storeVars, throws>>
  <2>1. Calm(agenda, agenda', requests)
    BY <1>1, <1>7, RejectedCalm
  <2>2. GraphTypes'
    BY <1>4, <1>7, SameGraph DEF IInv
  <2>3. SameControl
    BY <1>4, <1>7 DEF SameControl, storeVars, IInv, ControlTypes
  <2> QED
    BY <1>2, <1>3, <2>1, <2>2, <2>3, QuietStep
<1> QED
  BY <1>5, <1>6, <1>7 DEF ExecuteCommand

LEMMA SameControlOf ==
  ASSUME ControlTypes, UNCHANGED <<lifecycle, savepoint, routes, bindings, nodes, throws>>,
         UNCHANGED applicationVars
  PROVE  SameControl
BY DEF SameControl, ControlTypes, applicationVars

(* An observer, shielded, changes a control, replaces the document or       *)
(* disposes of the application.                                             *)
LEMMA ObserveCalm ==
  ASSUME IInv, At("observe"), NEW task, TaskOK(task, requests), task.op \notin Tracked,
         Reaction(task)
  PROVE  Calm(agenda, agenda', requests)
<1> DEFINE p == <<task, Contained>>
<1>1. "observe" \in PlainOps \cup {"contained", "observe"}
  OBVIOUS
<1>2. /\ agenda # << >> /\ agenda[1].op = "observe" /\ Typed(agenda, requests)
      /\ Ordered(agenda) /\ agenda[1].op \notin Tracked
  BY <1>1, PlainAt DEF IInv
<1>3. IsStack(p) /\ Len(p) = 2 /\ p[1] = task /\ p[2] = Contained
  BY StackOfTwo
<1>4. TaskOK(Contained, requests) /\ Contained.op \notin Tracked /\ Free(Contained)
  BY DEF Contained, TaskOK, Tracked, Preparing, Protected, Free, HeadOnly, LastFact
<1>5. Do(p)
  BY DEF Reaction
<1> HIDE DEF p
<1>6. \A i \in 1..2 : i = 1 \/ i = 2
  OBVIOUS
<1>7. Typed(p, requests) /\ \A i \in 1..Len(p) : p[i].op \notin Tracked
  BY <1>3, <1>4, <1>6 DEF Typed
<1>8. \A i \in 1..(Len(p) - 1) : Above(p[i], p[i + 1])
  <2>1. \A i \in 1..(Len(p) - 1) : i = 1
    BY <1>3
  <2>2. Above(p[1], p[2])
    BY <1>3, <1>4, FreeBelowAll
  <2> QED
    BY <2>1, <2>2
<1>9. ASSUME Len(agenda) >= 2
      PROVE  Above(p[Len(p)], agenda[2])
  <2>1. Above(agenda[1], agenda[2])
    BY <1>2, <1>9, OrderedNext DEF Typed
  <2> QED
    BY <2>1, <1>2, <1>3 DEF Above, LastFact, Contained
<1>10. Calm(agenda, p \o Tail(agenda), requests)
  BY <1>2, <1>7, <1>8, <1>9, CalmPush
<1> QED
  BY <1>5, <1>10 DEF Do

LEMMA PopCalm ==
  ASSUME IInv, NEW op \in PlainOps \cup {"contained", "observe"}, At(op), Do(<< >>)
  PROVE  Calm(agenda, agenda', requests)
<1>1. /\ agenda # << >> /\ Typed(agenda, requests) /\ Ordered(agenda) /\ agenda[1].op \notin Tracked
  BY PlainAt DEF IInv
<1> QED
  BY <1>1, CalmPop DEF Do

LEMMA ObserveKeeps ==
  ASSUME IInv, Observe, UNCHANGED applicationVars
  PROVE  IInv'
<1>1. At("observe") /\ "observe" \in PlainOps \cup {"contained", "observe"}
  BY DEF Observe
<1>2. Undecided
  BY <1>1, PlainAt DEF IInv
<1>3. /\ requests' = requests /\ UNCHANGED publisherVars
      /\ UNCHANGED <<lifecycle, savepoint, routes, bindings, nodes, throws>>
      /\ UNCHANGED <<storeVars, validationVars, adapter, rendered>>
  BY DEF Observe, validationVars, storeVars, applicationVars
<1>4. SameControl /\ GraphTypes'
  BY <1>3, SameControlOf, SameGraph DEF IInv
<1>5. Calm(agenda, agenda', requests)
  <2>1. CASE Do(<< >>)
    BY <1>1, <2>1, PopCalm
  <2>2. ASSUME NEW n \in Nodes, NEW v \in Values,
               Reaction(Execute([type |-> "value", node |-> n, value |-> v]))
        PROVE  Calm(agenda, agenda', requests)
    <3> DEFINE task == Execute([type |-> "value", node |-> n, value |-> v])
    <3>1. TaskOK(task, requests) /\ task.op \notin Tracked
      BY DEF Execute, TaskOK, Command, Tracked, Preparing, Protected
    <3> HIDE DEF task
    <3>2. Reaction(task)
      BY <2>2 DEF task
    <3> QED
      BY <1>1, <3>1, <3>2, ObserveCalm
  <2> QED
    BY <2>1, <2>2 DEF Observe
<1> QED
  BY <1>2, <1>3, <1>4, <1>5, QuietStep

LEMMA ObserveStructurallyKeeps ==
  ASSUME IInv, ObserveStructurally
  PROVE  IInv'
<1>1. At("observe") /\ "observe" \in PlainOps \cup {"contained", "observe"}
  BY DEF ObserveStructurally
<1>2. Undecided
  BY <1>1, PlainAt DEF IInv
<1>3. /\ requests' = requests /\ UNCHANGED publisherVars /\ UNCHANGED applicationVars
      /\ UNCHANGED <<lifecycle, savepoint, routes, bindings, nodes, throws>>
      /\ UNCHANGED <<storeVars, validationVars, adapter, rendered>>
  BY DEF ObserveStructurally, validationVars, storeVars, applicationVars
<1>4. SameControl /\ GraphTypes'
  BY <1>3, SameControlOf, SameGraph DEF IInv
<1>5. Calm(agenda, agenda', requests)
  <2>1. ASSUME NEW d \in Documents, Reaction(Update(d))
        PROVE  Calm(agenda, agenda', requests)
    <3>1. TaskOK(Update(d), requests) /\ Update(d).op \notin Tracked
      BY DEF Update, TaskOK, Tracked, Preparing, Protected
    <3> QED
      BY <1>1, <2>1, <3>1, ObserveCalm
  <2>2. CASE Reaction([op |-> "dispose"])
    <3> DEFINE task == [op |-> "dispose"]
    <3>1. TaskOK(task, requests) /\ task.op \notin Tracked
      BY DEF TaskOK, Tracked, Preparing, Protected
    <3> HIDE DEF task
    <3>2. Reaction(task)
      BY <2>2 DEF task
    <3> QED
      BY <1>1, <3>1, <3>2, ObserveCalm
  <2> QED
    BY <2>1, <2>2 DEF ObserveStructurally
<1> QED
  BY <1>2, <1>3, <1>4, <1>5, QuietStep

LEMMA SettleKeeps ==
  ASSUME IInv, Settle, UNCHANGED applicationVars
  PROVE  IInv'
<1>1. At("settle") /\ "settle" \in PlainOps
  BY DEF Settle, PlainOps
<1>2. Undecided /\ TaskOK(Task, requests) /\ Task.op = "settle"
  BY <1>1, PlainAt DEF IInv, At
<1>3. /\ requests' = requests /\ UNCHANGED publisherVars
      /\ UNCHANGED <<lifecycle, savepoint, routes, bindings, nodes, throws>>
      /\ UNCHANGED <<storeVars, validationVars, adapter, rendered>>
  BY DEF Settle, validationVars, storeVars, applicationVars, observerVars
<1>4. SameControl /\ GraphTypes'
  BY <1>3, SameControlOf, SameGraph DEF IInv
<1>5. Work(Task.work, requests)
  <2>1. /\ IsStack(Task.work)
        /\ \A i \in 1..Len(Task.work) : Writing("write", Task.work[i]) \/ Scheduling(Task.work[i])
    BY <1>2 DEF TaskOK
  <2>2. ASSUME NEW task, Writing("write", task) \/ Scheduling(task)
        PROVE  TaskOK(task, requests) /\ Plain(task)
    BY <2>2 DEF Writing, Scheduling, TaskOK, Plain, LastFact, Preparing
  <2> QED
    BY <2>1, <2>2 DEF Work, Typed
<1>6. Work(<< >>, requests)
  BY WorkOfNone
<1>7. PICK p : Do(p) /\ Work(p, requests)
  BY <1>5, <1>6 DEF Settle
<1>8. requests \in Nat /\ requests <= requests
  BY DEF IInv, GraphTypes
<1>9. Calm(agenda, agenda', requests)
  BY <1>1, <1>7, <1>8, WorkDo
<1> QED
  BY <1>2, <1>3, <1>4, <1>9, QuietStep

LEMMA ResumeKeeps ==
  ASSUME IInv, Resume, UNCHANGED applicationVars
  PROVE  IInv'
<1>1. PICK op \in {"contained", "rejecting", "throw"} :
        At(op) /\ (Do(<< >>) \/ (op = "throw" /\ Throw))
  BY DEF Resume
<1>2. op \in PlainOps \cup {"contained", "observe"} /\ (op = "throw" => op \in PlainOps)
  BY DEF PlainOps
<1>3. Undecided
  BY <1>1, <1>2, PlainAt DEF IInv
<1>4. /\ requests' = requests /\ UNCHANGED publisherVars
      /\ UNCHANGED <<lifecycle, savepoint, routes, bindings, nodes, throws>>
      /\ UNCHANGED <<storeVars, validationVars, adapter, rendered>>
  BY DEF Resume, validationVars, storeVars, applicationVars, observerVars
<1>5. SameControl /\ GraphTypes'
  BY <1>4, SameControlOf, SameGraph DEF IInv
<1>6. Calm(agenda, agenda', requests)
  BY <1>1, <1>2, PopCalm, PlainThrow
<1> QED
  BY <1>3, <1>4, <1>5, <1>6, QuietStep

LEMMA RequestWriteKeeps ==
  ASSUME IInv, RequestWrite, UNCHANGED applicationVars
  PROVE  IInv'
<1> DEFINE x == Emit("requested", {}, revision)
           y == [Task EXCEPT !.op = "perform"]
<1>1. At("write") /\ "write" \in PlainOps
  BY DEF RequestWrite, PlainOps
<1>2. Undecided /\ TaskOK(Task, requests) /\ Task.op = "write"
  BY <1>1, PlainAt DEF IInv, At
<1>3. /\ requests' = requests /\ UNCHANGED publisherVars
      /\ UNCHANGED <<lifecycle, savepoint, routes, bindings, nodes, throws>>
      /\ UNCHANGED <<storeVars, validationVars, adapter, rendered>>
  BY DEF RequestWrite, validationVars, storeVars, applicationVars, observerVars
<1>4. SameControl /\ GraphTypes'
  BY <1>3, SameControlOf, SameGraph DEF IInv
<1>5. TaskOK(x, requests) /\ Plain(x)
  BY EmitOK
<1>6. TaskOK(y, requests) /\ Plain(y)
  <2>1. Writing("write", Task)
    BY <1>2 DEF TaskOK
  <2>2. y = [op |-> "perform", node |-> Task.node, value |-> Task.value]
    BY <2>1 DEF Writing
  <2>3. Task.node \in Nodes /\ Task.value \in Values
    BY <2>1 DEF Writing
  <2> HIDE DEF y
  <2> QED
    BY <2>2, <2>3 DEF Writing, TaskOK, Plain, LastFact, Preparing
<1>7. Do(<<x, y>>)
  BY DEF RequestWrite
<1> HIDE DEF x, y
<1>8. Work(<<x, y>>, requests)
  <2>1. IsStack(<<x, y>>) /\ Len(<<x, y>>) = 2 /\ <<x, y>>[1] = x /\ <<x, y>>[2] = y
    BY StackOfTwo
  <2>2. \A i \in 1..2 : i = 1 \/ i = 2
    OBVIOUS
  <2> QED
    BY <1>5, <1>6, <2>1, <2>2 DEF Work, Typed
<1>9. requests \in Nat /\ requests <= requests
  BY DEF IInv, GraphTypes
<1>10. Calm(agenda, agenda', requests)
  BY <1>1, <1>7, <1>8, <1>9, WorkDo
<1> QED
  BY <1>2, <1>3, <1>4, <1>10, QuietStep

LEMMA WriteStoreKeeps ==
  ASSUME IInv, WriteStore, UNCHANGED applicationVars
  PROVE  IInv'
<1>1. At("perform") /\ "perform" \in PlainOps
  BY DEF WriteStore, PlainOps
<1>2. Undecided /\ TaskOK(Task, requests) /\ Task.op = "perform"
  BY <1>1, PlainAt DEF IInv, At
<1>3. /\ requests' = requests /\ UNCHANGED publisherVars
      /\ UNCHANGED <<lifecycle, savepoint, routes, bindings, nodes, throws>>
      /\ UNCHANGED <<storeVars, validationVars, rendered>>
  BY DEF WriteStore, validationVars, storeVars, applicationVars, observerVars
<1>4. SameControl
  BY <1>3, SameControlOf DEF IInv
<1>5. GraphTypes'
  <2>1. Task.node \in Nodes /\ Task.value \in Values
    BY <1>2 DEF TaskOK, Writing
  <2>2. adapter' \in [Nodes -> Values]
    BY <2>1 DEF WriteStore, IInv, GraphTypes
  <2> QED
    BY <1>3, <2>2 DEF IInv, GraphTypes, validationVars, storeVars
<1>6. Work(<< >>, requests)
  BY WorkOfNone
<1>7. Work(<<Emit("settled", {}, revision)>>, requests)
  BY EmitOK, WorkOfOne
<1>8. PICK p : Do(p) /\ Work(p, requests)
  BY <1>6, <1>7 DEF WriteStore
<1>9. requests \in Nat /\ requests <= requests
  BY DEF IInv, GraphTypes
<1>10. Calm(agenda, agenda', requests)
  BY <1>1, <1>8, <1>9, WorkDo
<1> QED
  BY <1>2, <1>3, <1>4, <1>5, <1>10, QuietStep

LEMMA ScheduleKeeps ==
  ASSUME IInv, ScheduleValidation, UNCHANGED applicationVars
  PROVE  IInv'
<1> DEFINE node == Task.node
           request == active[node]
           x == Execute([type |-> "cancel", node |-> node, request |-> request])
           y == [op |-> "start", node |-> node]
<1>1. At("schedule") /\ "schedule" \in PlainOps
  BY DEF ScheduleValidation, PlainOps
<1>2. Undecided /\ TaskOK(Task, requests) /\ Task.op = "schedule"
  BY <1>1, PlainAt DEF IInv, At
<1>3. /\ requests' = requests /\ UNCHANGED publisherVars
      /\ UNCHANGED <<lifecycle, savepoint, routes, bindings, nodes, throws>>
      /\ UNCHANGED <<storeVars, adapter, rendered, answers>>
  BY DEF ScheduleValidation, storeVars, applicationVars, observerVars
<1>4. SameControl
  BY <1>3, SameControlOf DEF IInv
<1>5. node \in Nodes /\ request \in 0..requests /\ requests \in Nat
  BY <1>2 DEF TaskOK, IInv, GraphTypes
<1>6. GraphTypes'
  <2>1. active' \in [Nodes -> 0..requests]
    <3>1. Cancelled({node}) \in [Nodes -> 0..requests]
      BY <1>5 DEF Cancelled, NoRequest, IInv, GraphTypes
    <3>2. active' = active \/ active' = Cancelled({node})
      BY DEF ScheduleValidation
    <3> QED
      BY <3>1, <3>2 DEF IInv, GraphTypes
  <2>2. contexts' \subseteq contexts
    BY DEF ScheduleValidation, Without
  <2> QED
    BY <1>3, <2>1, <2>2 DEF IInv, GraphTypes, storeVars
<1>7. Work(<<x>>, requests)
  <2>1. TaskOK(x, requests) /\ Plain(x)
    BY <1>5 DEF Execute, TaskOK, Command, Plain, LastFact, Preparing
  <2> HIDE DEF x
  <2> QED
    BY <2>1, WorkOfOne
<1>8. Work(<<y>>, requests)
  <2>1. TaskOK(y, requests) /\ Plain(y)
    BY <1>5 DEF TaskOK, Plain, LastFact, Preparing
  <2> HIDE DEF y
  <2> QED
    BY <2>1, WorkOfOne
<1>9. \/ Do(<< >>)
      \/ Do((IF request = NoRequest THEN << >> ELSE <<x>>)
            \o (IF CanValidate(nodes[node]) THEN <<y>> ELSE << >>))
  BY DEF ScheduleValidation
<1> HIDE DEF x, y, request
<1>10. PICK p : Do(p) /\ Work(p, requests)
  <2>1. Work(<< >>, requests)
    BY WorkOfNone
  <2>2. \A p, q : p \in {<< >>, <<x>>} /\ q \in {<< >>, <<y>>} => Work(p \o q, requests)
    BY <1>7, <1>8, <2>1, WorkJoined
  <2>3. Do(<< >>) \/ \E p \in {<< >>, <<x>>}, q \in {<< >>, <<y>>} : Do(p \o q)
    BY <1>9
  <2> QED
    BY <2>1, <2>2, <2>3
<1>11. Calm(agenda, agenda', requests)
  BY <1>1, <1>5, <1>10, WorkDo
<1> QED
  BY <1>2, <1>3, <1>4, <1>6, <1>11, QuietStep

LEMMA StartKeeps ==
  ASSUME IInv, StartValidation, UNCHANGED applicationVars
  PROVE  IInv'
<1> DEFINE request == requests + 1
           x == Execute([type |-> "start", node |-> Task.node, request |-> request])
           y == [op |-> "launch", node |-> Task.node, request |-> request]
<1>1. At("start") /\ "start" \in PlainOps
  BY DEF StartValidation, PlainOps
<1>2. Undecided /\ TaskOK(Task, requests) /\ Task.op = "start"
  BY <1>1, PlainAt DEF IInv, At
<1>3. /\ requests' = request /\ UNCHANGED publisherVars
      /\ UNCHANGED <<lifecycle, savepoint, routes, bindings, nodes, throws>>
      /\ UNCHANGED <<storeVars, adapter, rendered, active, answers>>
      /\ contexts' = contexts \cup {request}
  BY DEF StartValidation, storeVars, applicationVars, observerVars
<1>4. SameControl
  BY <1>3, SameControlOf DEF IInv
<1>5. Task.node \in Nodes /\ requests \in Nat /\ request \in Nat /\ requests <= request
  BY <1>2 DEF TaskOK, IInv, GraphTypes
<1>6. GraphTypes'
  <2>1. 0..requests \subseteq 0..request /\ 1..requests \subseteq 1..request /\ request \in 1..request
    BY <1>5
  <2> HIDE DEF request
  <2>2. ControlOf(requests) \subseteq ControlOf(request)
    BY <2>1 DEF ControlOf
  <2>3. nodes \in [DOMAIN nodes -> ControlOf(request)]
    BY <2>2 DEF IInv, GraphTypes
  <2>4. active \in [Nodes -> 0..request]
    BY <2>1 DEF IInv, GraphTypes
  <2> QED
    BY <1>3, <1>5, <2>1, <2>3, <2>4 DEF IInv, GraphTypes, storeVars
<1>7. Work(<<x, y>>, request)
  <2>1. TaskOK(x, request) /\ Plain(x)
    BY <1>5 DEF Execute, TaskOK, Command, Plain, LastFact, Preparing
  <2>2. TaskOK(y, request) /\ Plain(y)
    BY <1>5 DEF TaskOK, Plain, LastFact, Preparing
  <2> HIDE DEF x, y
  <2>3. IsStack(<<x, y>>) /\ Len(<<x, y>>) = 2 /\ <<x, y>>[1] = x /\ <<x, y>>[2] = y
    BY StackOfTwo
  <2>4. \A i \in 1..2 : i = 1 \/ i = 2
    OBVIOUS
  <2> QED
    BY <2>1, <2>2, <2>3, <2>4 DEF Work, Typed
<1>8. Do(<<x, y>>)
  BY DEF StartValidation
<1>9. Calm(agenda, agenda', request)
  BY <1>1, <1>5, <1>7, <1>8, WorkDo
<1> QED
  BY <1>2, <1>3, <1>4, <1>6, <1>9, QuietStep

LEMMA LaunchKeeps ==
  ASSUME IInv, LaunchValidation, UNCHANGED applicationVars
  PROVE  IInv'
<1> DEFINE node == Task.node
<1>1. At("launch") /\ "launch" \in PlainOps
  BY DEF LaunchValidation, PlainOps
<1>2. Undecided /\ TaskOK(Task, requests) /\ Task.op = "launch"
  BY <1>1, PlainAt DEF IInv, At
<1>3. /\ requests' = requests /\ UNCHANGED publisherVars
      /\ UNCHANGED <<lifecycle, savepoint, routes, bindings, nodes, throws>>
      /\ UNCHANGED <<storeVars, adapter, rendered, contexts>>
  BY DEF LaunchValidation, storeVars, applicationVars, observerVars
<1>4. SameControl
  BY <1>3, SameControlOf DEF IInv
<1>5. node \in Nodes /\ Task.request \in 1..requests /\ requests \in Nat
  BY <1>2 DEF TaskOK, IInv, GraphTypes
<1>6. GraphTypes'
  <2>1. CASE node \in DOMAIN nodes
    <3>1. nodes[node] \in ControlOf(requests)
      BY <2>1 DEF IInv, GraphTypes
    <3>2. nodes[node].value \in Values
      BY <3>1 DEF ControlOf
    <3>3. active' = [active EXCEPT ![node] = Task.request]
      BY <2>1 DEF LaunchValidation
    <3>4. active' \in [Nodes -> 0..requests]
      BY <3>3, <1>5 DEF IInv, GraphTypes
    <3>5. answers' = answers \cup {[node |-> node, request |-> Task.request, value |-> nodes[node].value]}
      BY <2>1 DEF LaunchValidation
    <3>6. \A answer \in answers' :
            answer.node \in Nodes /\ answer.request \in 1..requests /\ answer.value \in Values
      BY <3>2, <3>5, <1>5 DEF IInv, GraphTypes
    <3> QED
      BY <1>3, <3>4, <3>6 DEF IInv, GraphTypes, storeVars
  <2>2. CASE node \notin DOMAIN nodes
    <3>1. UNCHANGED <<active, answers>>
      BY <2>2 DEF LaunchValidation
    <3> QED
      BY <1>3, <3>1 DEF IInv, GraphTypes, storeVars
  <2> QED
    BY <2>1, <2>2
<1>7. Calm(agenda, agenda', requests)
  BY <1>1, PopCalm DEF LaunchValidation
<1> QED
  BY <1>2, <1>3, <1>4, <1>6, <1>7, QuietStep

(* A turn of the page, the host or a validator.                             *)
LEMMA TurnCalm ==
  ASSUME agenda = << >>, NEW p, NEW r, Typed(p, r), \A i \in 1..Len(p) : p[i].op \notin Tracked,
         \A i \in 1..(Len(p) - 1) : Above(p[i], p[i + 1])
  PROVE  Calm(agenda, p, r) /\ Undecided
<1>1. Ordered(p)
  <2>1. "drain" \in Tracked /\ "disposed" \in Tracked /\ Phases \subseteq Tracked
    BY DEF Tracked, Protected, Phases
  <2> QED
    BY <2>1 DEF Ordered, OnlyOne
<1>2. \A op : ~Has(agenda, op)
  BY EmptyStack DEF Has
<1>3. \A op \in Tracked : ~Has(p, op)
  BY DEF Has
<1> QED
  BY <1>1, <1>2, <1>3 DEF Calm, Undecided, At

LEMMA TurnOfOne ==
  ASSUME agenda = << >>, NEW x, NEW r, TaskOK(x, r), x.op \notin Tracked
  PROVE  Calm(agenda, <<x>>, r) /\ Undecided
<1> DEFINE p == <<x>>
<1>1. IsStack(p) /\ Len(p) = 1 /\ p[1] = x
  BY StackOfOne
<1> HIDE DEF p
<1>2. \A i \in 1..1 : i = 1
  OBVIOUS
<1>3. Typed(p, r) /\ \A i \in 1..Len(p) : p[i].op \notin Tracked
  BY <1>1, <1>2 DEF Typed
<1>4. \A i \in 1..(Len(p) - 1) : Above(p[i], p[i + 1])
  BY <1>1
<1>5. Calm(agenda, p, r) /\ Undecided
  BY <1>3, <1>4, TurnCalm
<1> QED
  BY <1>5 DEF p

LEMMA TurnOfNone ==
  ASSUME agenda = << >>, NEW r
  PROVE  Calm(agenda, << >>, r) /\ Undecided
<1> DEFINE p == << >>
<1>1. Typed(p, r) /\ Len(p) = 0
  BY EmptyStack DEF Typed
<1> HIDE DEF p
<1>2. /\ \A i \in 1..Len(p) : p[i].op \notin Tracked
      /\ \A i \in 1..(Len(p) - 1) : Above(p[i], p[i + 1])
  BY <1>1
<1>3. Calm(agenda, p, r) /\ Undecided
  BY <1>1, <1>2, TurnCalm
<1> QED
  BY <1>3 DEF p

LEMMA AnswerKeeps ==
  ASSUME IInv, NEW answer \in answers, NEW verdict \in Values \cup {NoVerdict},
         AnswerValidation(answer, verdict), UNCHANGED applicationVars
  PROVE  IInv'
<1> DEFINE x == Execute([type |-> "resolve", node |-> answer.node,
                         request |-> answer.request, verdict |-> verdict])
<1>1. agenda = << >>
  BY DEF AnswerValidation
<1>2. answer.node \in Nodes /\ answer.request \in 1..requests /\ requests \in Nat
  BY DEF IInv, GraphTypes
<1>3. /\ requests' = requests /\ UNCHANGED publisherVars
      /\ UNCHANGED <<lifecycle, savepoint, routes, bindings, nodes, throws>>
      /\ UNCHANGED <<storeVars, adapter, rendered>>
      /\ answers' \subseteq answers
  BY DEF AnswerValidation, storeVars, applicationVars, observerVars
<1>4. SameControl
  BY <1>3, SameControlOf DEF IInv
<1>5. /\ active' = active \/ active' = Cancelled({answer.node})
      /\ contexts' \subseteq contexts
      /\ agenda' = << >> \/ agenda' = <<x>>
  BY <1>1 DEF AnswerValidation, Without
<1>6. GraphTypes'
  <2>1. Cancelled({answer.node}) \in [Nodes -> 0..requests]
    BY <1>2 DEF Cancelled, NoRequest, IInv, GraphTypes
  <2>2. active' \in [Nodes -> 0..requests]
    BY <1>5, <2>1 DEF IInv, GraphTypes
  <2> QED
    BY <1>3, <1>5, <2>2 DEF IInv, GraphTypes, storeVars
<1>7. TaskOK(x, requests) /\ x.op \notin Tracked
  BY <1>2 DEF Execute, TaskOK, Command, Tracked, Preparing, Protected
<1> HIDE DEF x
<1>8. Calm(agenda, agenda', requests) /\ Undecided
  BY <1>1, <1>5, <1>7, TurnOfOne, TurnOfNone
<1> QED
  BY <1>3, <1>4, <1>6, <1>8, QuietStep

LEMMA CallKeeps ==
  ASSUME IInv, NEW p, Call(p), Calm(agenda, p, requests), Undecided
  PROVE  IInv'
<1>1. /\ requests' = requests /\ UNCHANGED publisherVars
      /\ UNCHANGED <<lifecycle, savepoint, routes, bindings, document, machine, updating,
                     unavailable, nodes, throws>>
      /\ UNCHANGED <<storeVars, validationVars, adapter, rendered>>
      /\ agenda' = p
  BY DEF Call, validationVars, storeVars, observerVars
<1>2. SameControl
  BY <1>1 DEF SameControl, IInv, ControlTypes
<1>3. GraphTypes'
  BY <1>1, SameGraph DEF IInv
<1> QED
  BY <1>1, <1>2, <1>3, QuietStep

LEMMA InputKeeps ==
  ASSUME IInv, NEW n \in Nodes, NEW v \in Values, Input(n, v)
  PROVE  IInv'
<1> DEFINE x == Emit("intent", {}, revision)
           y == Execute([type |-> "value", node |-> n, value |-> v])
           p == <<x, y>>
<1>1. agenda = << >> /\ Call(p)
  BY DEF Input, Call
<1>2. TaskOK(x, requests) /\ Plain(x)
  BY EmitOK
<1>3. TaskOK(y, requests) /\ Plain(y)
  BY DEF Execute, TaskOK, Command, Plain, LastFact, Preparing
<1> HIDE DEF x, y
<1>4. IsStack(p) /\ Len(p) = 2 /\ p[1] = x /\ p[2] = y
  BY StackOfTwo
<1> HIDE DEF p
<1>5. \A i \in 1..2 : i = 1 \/ i = 2
  OBVIOUS
<1>6. Typed(p, requests) /\ \A i \in 1..Len(p) : p[i].op \notin Tracked
  BY <1>2, <1>3, <1>4, <1>5, PlainFacts DEF Typed
<1>7. \A i \in 1..(Len(p) - 1) : Above(p[i], p[i + 1])
  <2>1. \A i \in 1..(Len(p) - 1) : i = 1
    BY <1>4
  <2>2. Above(p[1], p[2])
    BY <1>3, <1>4, PlainFacts, FreeBelowAll
  <2> QED
    BY <2>1, <2>2
<1>8. Calm(agenda, p, requests) /\ Undecided
  BY <1>1, <1>6, <1>7, TurnCalm
<1> QED
  BY <1>1, <1>8, CallKeeps

LEMMA HostCallKeeps ==
  ASSUME IInv, \/ \E d \in Documents : Call(<<Update(d)>>)
               \/ Call(<<[op |-> "dispose"]>>)
  PROVE  IInv'
<1>1. PICK task : /\ Call(<<task>>)
                  /\ TaskOK(task, requests) /\ task.op \notin Tracked
  <2>1. \A d \in Documents : TaskOK(Update(d), requests) /\ Update(d).op \notin Tracked
    BY DEF Update, TaskOK, Tracked, Preparing, Protected
  <2>2. LET task == [op |-> "dispose"] IN TaskOK(task, requests) /\ task.op \notin Tracked
    BY DEF TaskOK, Tracked, Preparing, Protected
  <2> QED
    BY <2>1, <2>2
<1>2. agenda = << >>
  BY <1>1 DEF Call
<1>3. Calm(agenda, <<task>>, requests) /\ Undecided
  BY <1>1, <1>2, TurnOfOne
<1> QED
  BY <1>1, <1>3, CallKeeps

-----------------------------------------------------------------------------
(* Steps that change what is pending.                                      *)

\* A task after the next one.
Below(op) == \E j \in 2..Len(agenda) : agenda[j].op = op

LEMMA BelowFacts ==
  ASSUME AgendaOK, agenda # << >>
  PROVE  /\ \A op : Pending(op) <=> At(op) \/ Below(op)
         /\ \A op \in HeadOnly : ~Below(op)
         /\ \A x, y \in Phases : At(x) => ~Below(y)
         /\ \A x \in Phases : At(x) => ~Below("drain")
         /\ At("drain") => ~Below("drain")
         /\ At("disposed") => ~Below("disposed")
<1>1. Task = agenda[1] /\ Len(agenda) \in Nat /\ Len(agenda) >= 1
  BY AtFacts
<1>2. Ordered(agenda)
  BY DEF AgendaOK
<1>3. \A op : At(op) <=> agenda[1].op = op
  BY <1>1 DEF At
<1>4. 1 \in 1..Len(agenda) /\ \A j \in 2..Len(agenda) : j \in 1..Len(agenda) /\ j # 1
  BY <1>1
<1>5. \A op : Pending(op) <=> At(op) \/ Below(op)
  <2>1. \A i \in 1..Len(agenda) : i = 1 \/ i \in 2..Len(agenda)
    BY <1>1
  <2> QED
    BY <1>3, <1>4, <2>1 DEF Pending, Below
<1>6. \A op \in HeadOnly : ~Below(op)
  <2> SUFFICES ASSUME NEW j \in 2..Len(agenda), agenda[j].op \in HeadOnly PROVE FALSE
    BY DEF Below
  <2>1. j - 1 \in 1..(Len(agenda) - 1) /\ (j - 1) + 1 = j
    BY <1>1
  <2>2. Above(agenda[j - 1], agenda[j])
    BY <1>2, <2>1 DEF Ordered
  <2> QED
    BY <2>2 DEF Above
<1>7. \A x, y \in Phases : At(x) => ~Below(y)
  BY <1>2, <1>3, <1>4 DEF Ordered, OnlyOne, Below
<1>8. \A x \in Phases : At(x) => ~Below("drain")
  <2> SUFFICES ASSUME NEW x \in Phases, At(x), NEW j \in 2..Len(agenda), agenda[j].op = "drain"
               PROVE  FALSE
    BY DEF Below
  <2>1. PICK i \in (j + 1)..Len(agenda) : agenda[i].op = "finish"
    BY <1>2, <1>4 DEF Ordered
  <2>2. i \in 2..Len(agenda) /\ "finish" \in Phases
    BY <1>1 DEF Phases
  <2> QED
    BY <1>7, <2>1, <2>2 DEF Below
<1>9. At("drain") => ~Below("drain")
  BY <1>2, <1>3, <1>4 DEF Ordered, OnlyOne, Below
<1>10. At("disposed") => ~Below("disposed")
  BY <1>2, <1>3, <1>4 DEF Ordered, OnlyOne, Below
<1> QED
  BY <1>5, <1>6, <1>7, <1>8, <1>9, <1>10

\* Tasks that may take the place of the next one.
Replaces(p) ==
  /\ Typed(p, requests)
  /\ \A i \in 1..(Len(p) - 1) : Above(p[i], p[i + 1])
  /\ Len(p) >= 1 /\ Len(agenda) >= 2 => Above(p[Len(p)], agenda[2])
  /\ \A ops \in {Phases, {"drain"}, {"disposed"}} : \A i \in 1..Len(p) : p[i].op \in ops =>
       /\ \A j \in 1..Len(p) : p[j].op \in ops => j = i
       /\ \A op \in ops : ~Below(op)
  /\ \A i \in 1..Len(p) : p[i].op = "drain" => \E j \in (i + 1)..Len(p) : p[j].op = "finish"

LEMMA DoFacts ==
  ASSUME AgendaOK, agenda # << >>, NEW p, Replaces(p), Do(p), requests' = requests
  PROVE  /\ AgendaOK'
         /\ \A op : Pending(op)' <=> (\E i \in 1..Len(p) : p[i].op = op) \/ Below(op)
<1> DEFINE t == p \o Tail(agenda)
           k == Len(p)
<1>1. Typed(agenda, requests) /\ Ordered(agenda) /\ Typed(p, requests) /\ IsStack(p)
  BY DEF AgendaOK, Replaces, Typed
<1>2. IsStack(t) /\ Rest(agenda, t, 1, k) /\ \A i \in 1..k : t[i] = p[i]
  BY <1>1, Pushing DEF Typed
<1>3. k \in Nat /\ Len(agenda) \in Nat /\ Len(agenda) >= 1
  BY <1>1, AtFacts, StackFacts
<1>4. agenda' = t
  BY DEF Do
<1> HIDE DEF t, k
<1>5. Typed(t, requests)
  <2>1. \A i \in 1..k : TaskOK(t[i], requests)
    BY <1>1, <1>2 DEF Typed, k
  <2> QED
    BY <1>1, <1>2, <2>1, TypedRest
<1>6. \A op : (\E j \in (1 + 1)..Len(agenda) : agenda[j].op = op) <=> Below(op)
  BY DEF Below
<1>7. Ordered(t)
  <2>1. \A i \in 1..(k - 1) : Above(t[i], t[i + 1])
    <3>1. \A i \in 1..(k - 1) : i \in 1..k /\ i + 1 \in 1..k
      BY <1>3
    <3> QED
      BY <3>1, <1>2 DEF k, Replaces
  <2>2. k >= 1 /\ 1 < Len(agenda) => Above(t[k], agenda[1 + 1])
    BY <1>2, <1>3 DEF k, Replaces
  <2>3. \A ops \in {Phases, {"drain"}, {"disposed"}} : \A i \in 1..k : t[i].op \in ops =>
           /\ \A j \in 1..k : t[j].op \in ops => j = i
           /\ \A j \in (1 + 1)..Len(agenda) : agenda[j].op \notin ops
    BY <1>2, <1>6 DEF k, Replaces
  <2>4. \A i \in 1..k : t[i].op = "drain" => \E j \in (i + 1)..Len(t) : t[j].op = "finish"
    <3>1. \A i \in 1..k : \A j \in (i + 1)..k : j \in 1..k /\ j \in (i + 1)..Len(t)
      BY <1>2, <1>3 DEF Rest
    <3> QED
      BY <3>1, <1>2 DEF k, Replaces
  <2> QED
    BY <1>1, <1>2, <2>1, <2>2, <2>3, <2>4, Rebase DEF Typed
<1>8. \A op : Has(t, op) <=> (\E i \in 1..k : p[i].op = op) \/ Below(op)
  <2>1. \A op : Has(t, op) <=> \/ \E i \in 1..k : t[i].op = op
                               \/ \E j \in (1 + 1)..Len(agenda) : agenda[j].op = op
    BY <1>1, <1>2, HasRest DEF Typed
  <2> QED
    BY <2>1, <1>2, <1>6
<1>9. AgendaOK'
  BY <1>4, <1>5, <1>7, AgendaNext
<1>10. \A op : Pending(op)' <=> Has(t, op)
  BY <1>4, PendingFacts
<1> QED
  BY <1>8, <1>9, <1>10 DEF k

LEMMA PopFacts ==
  ASSUME AgendaOK, agenda # << >>, Do(<< >>), requests' = requests
  PROVE  AgendaOK' /\ \A op : Pending(op)' <=> Below(op)
<1> DEFINE p == << >>
<1>1. IsStack(p) /\ Len(p) = 0
  BY EmptyStack
<1>2. Do(p)
  OBVIOUS
<1> HIDE DEF p
<1>3. Replaces(p)
  BY <1>1 DEF Replaces, Typed
<1>4. /\ AgendaOK'
      /\ \A op : Pending(op)' <=> (\E i \in 1..Len(p) : p[i].op = op) \/ Below(op)
  BY <1>2, <1>3, DoFacts
<1> QED
  BY <1>1, <1>4

LEMMA DoOneFacts ==
  ASSUME AgendaOK, agenda # << >>, NEW x, Do(<<x>>), requests' = requests, TaskOK(x, requests),
         Len(agenda) >= 2 => Above(x, agenda[2]), x.op # "drain",
         \A ops \in {Phases, {"disposed"}} : x.op \in ops => \A op \in ops : ~Below(op)
  PROVE  AgendaOK' /\ \A op : Pending(op)' <=> x.op = op \/ Below(op)
<1> DEFINE p == <<x>>
<1>1. IsStack(p) /\ Len(p) = 1 /\ p[1] = x
  BY StackOfOne
<1>2. Do(p)
  OBVIOUS
<1> HIDE DEF p
<1>3. \A i \in 1..Len(p) : i = 1
  BY <1>1
<1>4. Replaces(p)
  <2>1. \A i \in 1..(Len(p) - 1) : FALSE
    BY <1>1
  <2> QED
    BY <1>1, <1>3, <2>1 DEF Replaces, Typed
<1>5. /\ AgendaOK'
      /\ \A op : Pending(op)' <=> (\E i \in 1..Len(p) : p[i].op = op) \/ Below(op)
  BY <1>2, <1>4, DoFacts
<1>6. 1 \in 1..Len(p)
  BY <1>1
<1> QED
  BY <1>1, <1>3, <1>5, <1>6

LEMMA DoTwoFacts ==
  ASSUME AgendaOK, agenda # << >>, NEW x, NEW y, Do(<<x, y>>), requests' = requests,
         TaskOK(x, requests), TaskOK(y, requests), Above(x, y),
         Len(agenda) >= 2 => Above(y, agenda[2]), x.op # "drain", y.op # "drain",
         \A ops \in {Phases, {"disposed"}} :
           /\ x.op \in ops => y.op \notin ops
           /\ x.op \in ops \/ y.op \in ops => \A op \in ops : ~Below(op)
  PROVE  AgendaOK' /\ \A op : Pending(op)' <=> x.op = op \/ y.op = op \/ Below(op)
<1> DEFINE p == <<x, y>>
<1>1. IsStack(p) /\ Len(p) = 2 /\ p[1] = x /\ p[2] = y
  BY StackOfTwo
<1>2. Do(p)
  OBVIOUS
<1> HIDE DEF p
<1>3. \A i \in 1..Len(p) : i = 1 \/ i = 2
  BY <1>1
<1>4. Replaces(p)
  <2>1. \A i \in 1..(Len(p) - 1) : i = 1
    BY <1>1
  <2>2. \A i \in 1..(Len(p) - 1) : Above(p[i], p[i + 1])
    BY <1>1, <2>1
  <2>3. \A ops \in {Phases, {"drain"}, {"disposed"}} : \A i \in 1..Len(p) : p[i].op \in ops =>
          /\ \A j \in 1..Len(p) : p[j].op \in ops => j = i
          /\ \A op \in ops : ~Below(op)
    BY <1>1, <1>3
  <2> QED
    BY <1>1, <1>3, <2>2, <2>3 DEF Replaces, Typed
<1>5. /\ AgendaOK'
      /\ \A op : Pending(op)' <=> (\E i \in 1..Len(p) : p[i].op = op) \/ Below(op)
  BY <1>2, <1>4, DoFacts
<1>6. 1 \in 1..Len(p) /\ 2 \in 1..Len(p)
  BY <1>1
<1> QED
  BY <1>1, <1>3, <1>5, <1>6

LEMMA AppendStack ==
  ASSUME NEW s, NEW x, IsStack(s)
  PROVE  /\ IsStack(Append(s, x)) /\ Len(Append(s, x)) = Len(s) + 1
         /\ \A i \in 1..Len(s) : Append(s, x)[i] = s[i]
         /\ Append(s, x)[Len(s) + 1] = x
<1>1. PICK S : s \in Seq(S)
  BY DEF IsStack
<1>2. s \in Seq(S \cup {x}) /\ x \in S \cup {x}
  BY <1>1, SeqMonotonic
<1> QED
  BY <1>2, AppendProperties DEF IsStack

\* The next task is another one.
LEMMA AtOnly ==
  ASSUME AgendaOK, NEW op, At(op)
  PROVE  /\ agenda # << >> /\ agenda[1].op = op /\ Task = agenda[1] /\ TaskOK(Task, requests)
         /\ \A other : At(other) <=> other = op
BY AtFacts DEF At

LEMMA PublicationNext ==
  ASSUME NEW b, NEW f, NEW n \in Nat, NEW d \in Nat, d <= n, sequence' = n, delivered' = d,
         outbox' = [open |-> b, facts |-> f], IsStack(f),
         lifecycle' = "active" => /\ n = d + Len(f)
                                  /\ \A i \in 1..Len(f) : f[i].sequence = d + i
  PROVE  Publication'
<1>1. outbox'.open = b /\ outbox'.facts = f
  OBVIOUS
<1>2. outbox' = [open |-> outbox'.open, facts |-> outbox'.facts]
  BY <1>1
<1> QED
  BY <1>1, <1>2 DEF Publication

(* Numbers of facts: given when a fact is made, held back in order, handed  *)
(* out without a gap.                                                       *)
LEMMA EmitKeeps ==
  ASSUME IInv, EmitFact, UNCHANGED applicationVars
  PROVE  IInv' /\ (delivered' # delivered => delivered' = delivered + 1)
<1> DEFINE fact == [sequence |-> sequence + 1, kind |-> Task.kind,
                    changed |-> Task.changed, revision |-> Task.revision]
<1>1. AgendaOK /\ At("emit")
  BY DEF IInv, EmitFact
<1>2. /\ agenda # << >> /\ agenda[1].op = "emit" /\ Task = agenda[1]
      /\ \A other : At(other) <=> other = "emit"
  BY <1>1, AtOnly
<1>3. Undecided
  BY <1>2 DEF Undecided, Preparing
<1>4. /\ requests' = requests /\ sequence' = sequence + 1
      /\ UNCHANGED <<lifecycle, savepoint, routes, bindings, nodes, throws>>
      /\ UNCHANGED <<storeVars, validationVars, adapter, rendered>>
  BY DEF EmitFact, storeVars, validationVars, applicationVars, observerVars
<1>5. SameControl /\ GraphTypes'
  BY <1>4, SameControlOf, SameGraph DEF IInv
<1>6. \A op \in Tracked : ~At(op)
  BY <1>2 DEF Tracked, Preparing, Protected
<1>7. \A op \in Tracked : Pending(op) <=> Below(op)
  BY <1>1, <1>2, <1>6, BelowFacts
<1>8. ASSUME Len(agenda) >= 2
      PROVE  /\ Above([op |-> "observe", fact |-> fact], agenda[2])
             /\ agenda[2].op # "disposed" => Free(agenda[2])
  <2>1. Above(agenda[1], agenda[2])
    BY <1>1, <1>8, OrderedNext DEF AgendaOK, Typed
  <2> QED
    BY <2>1, <1>2 DEF Above, Free, HeadOnly, Protected
<1>9. /\ Publication /\ HeldBack
  BY DEF IInv
<1>10. /\ sequence \in Nat /\ delivered \in Nat /\ delivered <= sequence
       /\ outbox = [open |-> outbox.open, facts |-> outbox.facts] /\ IsStack(outbox.facts)
       /\ Len(outbox.facts) \in Nat
  BY <1>9, StackFacts DEF Publication
<1>11. CASE HoldsBack /\ outbox' = [outbox EXCEPT !.facts = Append(@, fact)] /\ Do(<< >>)
            /\ UNCHANGED delivered
  <2>1. AgendaOK' /\ \A op : Pending(op)' <=> Below(op)
    BY <1>1, <1>2, <1>4, <1>11, PopFacts
  <2>2. \A op \in Tracked : Pending(op)' <=> Pending(op)
    BY <2>1, <1>7
  <2>3. ControlTypes' /\ Control' /\ Tentative'
    BY <1>1, <1>3, <1>5, <2>1, <2>2, QuietControl DEF IInv
  <2>4. outbox' = [open |-> outbox.open, facts |-> Append(outbox.facts, fact)]
    BY <1>10, <1>11
  <2>5. /\ IsStack(Append(outbox.facts, fact))
        /\ Len(Append(outbox.facts, fact)) = Len(outbox.facts) + 1
        /\ \A i \in 1..Len(outbox.facts) : Append(outbox.facts, fact)[i] = outbox.facts[i]
        /\ Append(outbox.facts, fact)[Len(outbox.facts) + 1] = fact
    BY <1>10, AppendStack
  <2>6. Publication'
    <3> DEFINE facts == Append(outbox.facts, fact)
    <3>1. /\ outbox' = [open |-> outbox'.open, facts |-> outbox'.facts]
          /\ outbox'.facts = facts
      BY <2>4
    <3>2. fact.sequence = sequence + 1
      OBVIOUS
    <3> HIDE DEF fact, facts
    <3>3. ASSUME lifecycle = "active"
          PROVE  /\ sequence + 1 = delivered + (Len(outbox.facts) + 1)
                 /\ \A i \in 1..(Len(outbox.facts) + 1) : facts[i].sequence = delivered + i
      <4>1. sequence = delivered + Len(outbox.facts)
        BY <1>9, <3>3 DEF Publication
      <4>2. \A i \in 1..Len(outbox.facts) : facts[i].sequence = delivered + i
        BY <1>9, <3>3, <2>5 DEF Publication, facts
      <4>3. facts[Len(outbox.facts) + 1].sequence = delivered + (Len(outbox.facts) + 1)
        BY <3>2, <2>5, <4>1, <1>10 DEF facts
      <4>4. \A i \in 1..(Len(outbox.facts) + 1) : i \in 1..Len(outbox.facts) \/ i = Len(outbox.facts) + 1
        BY <1>10
      <4> QED
        BY <4>1, <4>2, <4>3, <4>4, <1>10
    <3>4. IsStack(facts) /\ Len(facts) = Len(outbox.facts) + 1
      BY <2>5 DEF facts
    <3>5. outbox' = [open |-> outbox.open, facts |-> facts]
      BY <2>4 DEF facts
    <3>6. /\ sequence + 1 \in Nat /\ delivered \in Nat /\ delivered <= sequence + 1
          /\ sequence' = sequence + 1 /\ delivered' = delivered /\ lifecycle' = lifecycle
      BY <1>4, <1>10, <1>11
    <3> QED
      BY <3>3, <3>4, <3>5, <3>6, PublicationNext
  <2>7. HeldBack'
    <3>1. outbox'.open = outbox.open
      BY <2>4
    <3>2. "drain" \in Tracked
      BY DEF Tracked, Protected
    <3>3. Pending("drain")' <=> Pending("drain")
      BY <2>2, <3>2
    <3>4. HoldsBack'
      BY <3>1, <1>11 DEF HoldsBack
    <3> QED
      BY <3>3, <3>4, <1>4, <1>9, <1>11 DEF HeldBack, None
  <2> QED
    BY <1>5, <1>11, <2>1, <2>3, <2>6, <2>7 DEF IInv
<1>12. CASE ~HoldsBack /\ lifecycle = "active" /\ delivered' = fact.sequence /\ Do(Deliver(fact))
            /\ UNCHANGED outbox
  <2> DEFINE x == [op |-> "project", fact |-> fact]
             y == [op |-> "observe", fact |-> fact]
  <2>1. /\ TaskOK(x, requests) /\ TaskOK(y, requests) /\ Above(x, y)
        /\ x.op \notin Tracked /\ y.op \notin Tracked
    BY DEF TaskOK, Preparing, Above, HeadOnly, LastFact, Tracked, Protected
  <2>2. Do(<<x, y>>) /\ (Len(agenda) >= 2 => Above(y, agenda[2]))
    BY <1>8, <1>12 DEF Deliver
  <2>3. "drain" \in Tracked /\ \A ops \in {Phases, {"disposed"}} : ops \subseteq Tracked
    BY DEF Tracked, Phases, Protected
  <2> HIDE DEF x, y
  <2>4. AgendaOK' /\ \A op : Pending(op)' <=> x.op = op \/ y.op = op \/ Below(op)
    BY <1>1, <1>2, <1>4, <2>1, <2>2, <2>3, DoTwoFacts
  <2>5. \A op \in Tracked : Pending(op)' <=> Pending(op)
    BY <2>1, <2>4, <1>7
  <2>6. ControlTypes' /\ Control' /\ Tentative'
    BY <1>1, <1>3, <1>5, <2>4, <2>5, QuietControl DEF IInv
  <2>7. Pending("drain")' <=> Pending("drain")
    BY <2>3, <2>5
  <2>8. HeldBack'
    BY <1>4, <1>9, <1>12, <2>7, SameHeldBack
  <2>9. outbox = Closed
    BY <1>9, <1>12 DEF HeldBack
  <2>10. Len(outbox.facts) = 0
    BY <2>9, EmptyStack DEF Closed
  <2>11. delivered' = sequence + 1 /\ sequence = delivered
    BY <1>9, <1>10, <1>12, <2>10 DEF Publication
  <2>12. Publication'
    BY <1>4, <1>10, <1>12, <2>10, <2>11 DEF Publication
  <2> QED
    BY <1>5, <2>4, <2>6, <2>8, <2>11, <2>12 DEF IInv
<1>13. CASE ~HoldsBack /\ lifecycle = "disposed" /\ Throw /\ UNCHANGED <<outbox, delivered>>
  <2>1. ~Pending("disposed")
    BY <1>13 DEF IInv, Control, Phase
  <2>2. Len(agenda) >= 2 => Free(agenda[2])
    <3>1. "disposed" \in Tracked /\ ~Below("disposed")
      BY <1>7, <2>1 DEF Tracked, Protected
    <3>2. ASSUME Len(agenda) >= 2
          PROVE  agenda[2].op # "disposed"
      <4>1. 2 \in 2..Len(agenda)
        BY <3>2, <1>1, AtFacts, <1>2
      <4> QED
        BY <3>1, <4>1 DEF Below
    <3> QED
      BY <3>2, <1>8
  <2>3. /\ Typed(agenda, requests) /\ Ordered(agenda) /\ agenda[1].op \notin Tracked
    BY <1>1, <1>2 DEF AgendaOK, Tracked, Preparing, Protected
  <2>4. Calm(agenda, Unwound(Tail(agenda)), requests)
    BY <1>2, <2>2, <2>3, UnwoundCalm
  <2>5. AgendaOK' /\ \A op \in Tracked : Pending(op)' <=> Pending(op)
    BY <1>4, <1>13, <2>4, CalmNext DEF Throw
  <2>6. ControlTypes' /\ Control' /\ Tentative'
    BY <1>1, <1>3, <1>5, <2>5, QuietControl DEF IInv
  <2>7. HeldBack'
    <3>1. "drain" \in Tracked
      BY DEF Tracked, Protected
    <3> QED
      BY <1>4, <1>9, <1>13, <2>5, <3>1, SameHeldBack
  <2>8. Publication'
    BY <1>4, <1>9, <1>10, <1>13 DEF Publication
  <2> QED
    BY <1>5, <1>13, <2>5, <2>6, <2>7, <2>8 DEF IInv
<1> QED
  BY <1>11, <1>12, <1>13 DEF EmitFact

LEMMA Prepending ==
  ASSUME NEW s, NEW p, IsStack(s), IsStack(p)
  PROVE  /\ IsStack(p \o s) /\ Rest(s, p \o s, 0, Len(p))
         /\ \A i \in 1..Len(p) : (p \o s)[i] = p[i]
<1> DEFINE t == p \o s
<1>1. /\ IsStack(t) /\ Len(t) = Len(p) + Len(s) /\ Len(p) \in Nat /\ Len(s) \in Nat
      /\ \A i \in 1..Len(p) : t[i] = p[i]
      /\ \A i \in 1..Len(s) : t[Len(p) + i] = s[i]
  BY JoinedStack, StackFacts
<1> HIDE DEF t
<1>2. \A i \in (0 + 1)..Len(s) : t[(i - 0) + Len(p)] = s[i]
  <2> SUFFICES ASSUME NEW i \in 1..Len(s) PROVE t[(i - 0) + Len(p)] = s[i]
    OBVIOUS
  <2>1. (i - 0) + Len(p) = Len(p) + i
    BY <1>1
  <2> QED
    BY <1>1, <2>1
<1>3. \A j \in (Len(p) + 1)..Len(t) : t[j] = s[(j - Len(p)) + 0]
  <2> SUFFICES ASSUME NEW j \in (Len(p) + 1)..Len(t) PROVE t[j] = s[(j - Len(p)) + 0]
    OBVIOUS
  <2>1. /\ j - Len(p) \in 1..Len(s) /\ Len(p) + (j - Len(p)) = j
        /\ (j - Len(p)) + 0 = j - Len(p)
    BY <1>1
  <2> QED
    BY <1>1, <2>1
<1>4. IsStack(t) /\ Rest(s, t, 0, Len(p)) /\ \A i \in 1..Len(p) : t[i] = p[i]
  BY <1>1, <1>2, <1>3 DEF Rest
<1> QED
  BY <1>4 DEF t

(* Tasks that are not tracked are put before all others.                   *)
LEMMA CalmPrepend ==
  ASSUME NEW s, NEW p, NEW r, Typed(s, r), Ordered(s),
         Typed(p, r), \A i \in 1..Len(p) : p[i].op \notin Tracked,
         \A i \in 1..(Len(p) - 1) : Above(p[i], p[i + 1]),
         Len(p) >= 1 /\ Len(s) >= 1 => Above(p[Len(p)], s[1])
  PROVE  Calm(s, p \o s, r)
<1> DEFINE t == p \o s
           k == Len(p)
<1>1. IsStack(s) /\ IsStack(p)
  BY DEF Typed
<1>2. IsStack(t) /\ Rest(s, t, 0, k) /\ \A i \in 1..k : t[i] = p[i]
  BY <1>1, Prepending
<1>3. k \in Nat /\ Len(s) \in Nat
  BY <1>1, StackFacts
<1> HIDE DEF t, k
<1>4. Typed(t, r)
  <2>1. \A i \in 1..k : TaskOK(t[i], r)
    BY <1>2 DEF Typed, k
  <2> QED
    BY <1>2, <2>1, TypedRest
<1>5. \A i \in 1..k : t[i].op \notin Tracked
  BY <1>2 DEF k
<1>6. Ordered(t)
  <2>1. \A i \in 1..(k - 1) : Above(t[i], t[i + 1])
    <3>1. \A i \in 1..(k - 1) : i \in 1..k /\ i + 1 \in 1..k
      BY <1>3
    <3> QED
      BY <3>1, <1>2 DEF k
  <2>2. k >= 1 /\ 0 < Len(s) => Above(t[k], s[0 + 1])
    BY <1>2, <1>3 DEF k
  <2>3. \A ops \in {Phases, {"drain"}, {"disposed"}} : ops \subseteq Tracked
    BY DEF Phases, Tracked, Protected
  <2>4. \A ops \in {Phases, {"drain"}, {"disposed"}} : \A i \in 1..k : t[i].op \in ops =>
           /\ \A j \in 1..k : t[j].op \in ops => j = i
           /\ \A j \in (0 + 1)..Len(s) : s[j].op \notin ops
    BY <2>3, <1>5
  <2>5. \A i \in 1..k : t[i].op = "drain" => \E j \in (i + 1)..Len(t) : t[j].op = "finish"
    BY <1>5 DEF Tracked, Protected
  <2> QED
    BY <1>1, <1>2, <2>1, <2>2, <2>4, <2>5, Rebase
<1>7. \A op \in Tracked : Has(t, op) <=> Has(s, op)
  <2> SUFFICES ASSUME NEW op \in Tracked PROVE Has(t, op) <=> Has(s, op)
    OBVIOUS
  <2>1. Has(t, op) <=> \/ \E i \in 1..k : t[i].op = op
                       \/ \E j \in (0 + 1)..Len(s) : s[j].op = op
    BY <1>1, <1>2, HasRest
  <2>2. Has(s, op) <=> \E j \in (0 + 1)..Len(s) : s[j].op = op
    BY DEF Has
  <2> QED
    BY <2>1, <2>2, <1>5
<1> QED
  BY <1>4, <1>6, <1>7 DEF Calm, t

(* A held back fact is handed out while the drain waits.                    *)
LEMMA DeliverCalm ==
  ASSUME AgendaOK, At("drain"), NEW fact
  PROVE  Calm(agenda, Deliver(fact) \o <<Contained>> \o agenda, requests)
<1> DEFINE x == [op |-> "project", fact |-> fact]
           y == [op |-> "observe", fact |-> fact]
           c == Contained
           p == <<x, y>> \o <<c>>
<1>1. /\ agenda # << >> /\ agenda[1].op = "drain" /\ Typed(agenda, requests) /\ Ordered(agenda)
      /\ IsStack(agenda) /\ Len(agenda) \in Nat /\ Len(agenda) >= 1
  BY AtOnly, AtFacts DEF AgendaOK, Typed
<1>2. /\ \A z \in {x, y, c} : TaskOK(z, requests) /\ z.op \notin Tracked
      /\ Above(x, y) /\ Above(y, c) /\ Above(c, agenda[1])
  <2>1. \A z \in {x, y, c} : TaskOK(z, requests) /\ z.op \notin Tracked
    BY DEF TaskOK, Preparing, Tracked, Protected, Contained
  <2>2. Above(x, y) /\ Above(y, c)
    BY DEF Above, HeadOnly, Preparing, LastFact, Contained
  <2>3. Above(c, agenda[1])
    BY <1>1 DEF Above, HeadOnly, Preparing, LastFact, Contained
  <2> QED
    BY <2>1, <2>2, <2>3
<1> HIDE DEF x, y, c
<1>3. /\ IsStack(p) /\ Len(p) = 3 /\ p[1] = x /\ p[2] = y /\ p[3] = c
  <2>1. IsStack(<<x, y>>) /\ Len(<<x, y>>) = 2 /\ <<x, y>>[1] = x /\ <<x, y>>[2] = y
    BY StackOfTwo
  <2>2. IsStack(<<c>>) /\ Len(<<c>>) = 1 /\ <<c>>[1] = c
    BY StackOfOne
  <2>3. /\ IsStack(p) /\ Len(p) = Len(<<x, y>>) + Len(<<c>>)
        /\ \A i \in 1..Len(<<x, y>>) : p[i] = <<x, y>>[i]
        /\ \A i \in 1..Len(<<c>>) : p[Len(<<x, y>>) + i] = <<c>>[i]
    BY <2>1, <2>2, JoinedStack
  <2> HIDE DEF p
  <2>4. 1 \in 1..2 /\ 2 \in 1..2 /\ 1 \in 1..1 /\ 2 + 1 = 3
    OBVIOUS
  <2> QED
    BY <2>1, <2>2, <2>3, <2>4
<1> HIDE DEF p
<1>4. \A i \in 1..Len(p) : i = 1 \/ i = 2 \/ i = 3
  BY <1>3
<1>5. Typed(p, requests) /\ \A i \in 1..Len(p) : p[i].op \notin Tracked
  BY <1>2, <1>3, <1>4 DEF Typed
<1>6. \A i \in 1..(Len(p) - 1) : Above(p[i], p[i + 1])
  <2>1. \A i \in 1..(Len(p) - 1) : i = 1 \/ i = 2
    BY <1>3
  <2>2. Above(p[1], p[1 + 1]) /\ Above(p[2], p[2 + 1])
    BY <1>2, <1>3
  <2> QED
    BY <2>1, <2>2
<1>7. Len(p) >= 1 /\ Len(agenda) >= 1 => Above(p[Len(p)], agenda[1])
  BY <1>2, <1>3
<1>8. Calm(agenda, p \o agenda, requests)
  BY <1>1, <1>5, <1>6, <1>7, CalmPrepend
<1>9. Deliver(fact) \o <<Contained>> \o agenda = p \o agenda
  BY DEF Deliver, p, x, y, c
<1> QED
  BY <1>8, <1>9

LEMMA DrainKeeps ==
  ASSUME IInv, DrainFact, UNCHANGED applicationVars
  PROVE  IInv' /\ (delivered' # delivered => delivered' = delivered + 1)
<1>1. AgendaOK /\ At("drain")
  BY DEF IInv, DrainFact
<1>2. /\ agenda # << >> /\ agenda[1].op = "drain"
      /\ \A other : At(other) <=> other = "drain"
  BY <1>1, AtOnly
<1>3. Undecided
  BY <1>2 DEF Undecided, Preparing
<1>4. /\ requests' = requests /\ sequence' = sequence
      /\ UNCHANGED <<lifecycle, savepoint, routes, bindings, nodes, throws>>
      /\ UNCHANGED <<storeVars, validationVars, adapter, rendered>>
  BY DEF DrainFact, storeVars, validationVars, applicationVars, observerVars
<1>5. SameControl /\ GraphTypes'
  BY <1>4, SameControlOf, SameGraph DEF IInv
<1>6. Pending("drain") /\ ~Below("drain")
  BY <1>1, <1>2, BelowFacts
<1>7. /\ Publication /\ HeldBack /\ savepoint = None
  BY <1>6 DEF IInv, HeldBack
<1>8. /\ sequence \in Nat /\ delivered \in Nat /\ delivered <= sequence
      /\ outbox = [open |-> outbox.open, facts |-> outbox.facts] /\ IsStack(outbox.facts)
      /\ Len(outbox.facts) \in Nat
  BY <1>7, StackFacts DEF Publication
<1>9. CASE outbox.facts = << >>
  <2>1. Do(<< >>) /\ outbox' = Closed /\ delivered' = delivered
    BY <1>9 DEF DrainFact
  <2>2. AgendaOK' /\ \A op : Pending(op)' <=> Below(op)
    BY <1>1, <1>2, <1>4, <2>1, PopFacts
  <2>3. \A op \in Tracked \ {"drain"} : Pending(op)' <=> Pending(op)
    BY <1>1, <1>2, <2>2, BelowFacts
  <2>4. ControlTypes' /\ Control' /\ Tentative'
    BY <1>1, <1>3, <1>5, <2>2, <2>3, QuietControl DEF IInv
  <2>5. ~Pending("drain")'
    BY <1>6, <2>2
  <2>6. HeldBack'
    <3>1. ~HoldsBack'
      BY <2>1 DEF HoldsBack, Closed
    <3>2. savepoint' = None
      BY <1>4, <1>7
    <3> QED
      BY <2>1, <2>5, <3>1, <3>2 DEF HeldBack, Closed, None
  <2>7. Publication'
    <3> DEFINE f == << >>
    <3>1. IsStack(f) /\ Len(f) = 0 /\ outbox' = [open |-> FALSE, facts |-> f]
      BY <2>1, EmptyStack DEF Closed
    <3>2. lifecycle = "active" => sequence = delivered + 0
      BY <1>7, <1>9, <3>1 DEF Publication
    <3> HIDE DEF f
    <3> QED
      BY <1>4, <1>8, <2>1, <3>1, <3>2, PublicationNext
  <2> QED
    BY <1>5, <2>1, <2>2, <2>4, <2>6, <2>7 DEF IInv
<1>10. CASE outbox.facts # << >>
  <2> DEFINE facts == Tail(outbox.facts)
  <2>1. outbox' = [open |-> outbox.open, facts |-> facts]
    <3>1. outbox' = [outbox EXCEPT !.facts = Tail(@)]
      BY <1>10 DEF DrainFact
    <3> QED
      BY <1>8, <3>1
  <2>2. /\ IsStack(facts) /\ Len(facts) = Len(outbox.facts) - 1 /\ Len(outbox.facts) # 0
        /\ \A i \in 1..(Len(outbox.facts) - 1) : facts[i] = outbox.facts[i + 1]
        /\ Head(outbox.facts) = outbox.facts[1]
    BY <1>8, <1>10, StackFacts
  <2> HIDE DEF facts
  <2>3. AgendaOK' /\ \A op \in Tracked : Pending(op)' <=> Pending(op)
    <3>1. CASE lifecycle = "active"
      <4>1. agenda' = Deliver(Head(outbox.facts)) \o <<Contained>> \o agenda
        BY <1>10, <3>1 DEF DrainFact
      <4> QED
        BY <1>1, <1>4, <4>1, DeliverCalm, CalmNext
    <3>2. CASE lifecycle # "active"
      <4>1. agenda' = agenda
        BY <1>10, <3>2 DEF DrainFact
      <4>2. Calm(agenda, agenda, requests)
        BY <1>1 DEF Calm, AgendaOK
      <4> QED
        BY <1>4, <4>1, <4>2, CalmNext
    <3> QED
      BY <3>1, <3>2
  <2>4. ControlTypes' /\ Control' /\ Tentative'
    BY <1>1, <1>3, <1>5, <2>3, QuietControl DEF IInv
  <2>5. HeldBack'
    <3>1. Pending("drain")'
      BY <1>6, <2>3 DEF Tracked, Protected
    <3>2. HoldsBack
      BY <1>6, <1>7 DEF HeldBack
    <3>3. outbox'.open = outbox.open
      BY <2>1
    <3>4. HoldsBack'
      BY <3>2, <3>3 DEF HoldsBack
    <3>5. savepoint' = None
      BY <1>4, <1>7
    <3> QED
      BY <3>1, <3>4, <3>5 DEF HeldBack, None
  <2>6. lifecycle = "active" =>
          /\ delivered' = delivered + 1
          /\ sequence = (delivered + 1) + Len(facts)
          /\ delivered + 1 <= sequence
          /\ \A i \in 1..Len(facts) : facts[i].sequence = (delivered + 1) + i
    <3> SUFFICES ASSUME lifecycle = "active"
                 PROVE  /\ delivered' = delivered + 1
                        /\ sequence = (delivered + 1) + Len(facts)
                        /\ delivered + 1 <= sequence
                        /\ \A i \in 1..Len(facts) : facts[i].sequence = (delivered + 1) + i
      OBVIOUS
    <3>1. /\ sequence = delivered + Len(outbox.facts)
          /\ \A i \in 1..Len(outbox.facts) : outbox.facts[i].sequence = delivered + i
      BY <1>7 DEF Publication
    <3>2. delivered' = Head(outbox.facts).sequence
      BY <1>10 DEF DrainFact
    <3>3. 1 \in 1..Len(outbox.facts)
      BY <1>8, <2>2
    <3>4. delivered' = delivered + 1
      BY <2>2, <3>1, <3>2, <3>3
    <3>5. sequence = (delivered + 1) + Len(facts) /\ delivered + 1 <= sequence
      BY <1>8, <2>2, <3>1
    <3>6. ASSUME NEW i \in 1..Len(facts)
          PROVE  facts[i].sequence = (delivered + 1) + i
      <4>1. i \in 1..(Len(outbox.facts) - 1) /\ i + 1 \in 1..Len(outbox.facts)
        BY <1>8, <2>2
      <4>2. facts[i].sequence = delivered + (i + 1)
        BY <4>1, <2>2, <3>1
      <4> QED
        BY <4>2, <1>8
    <3> QED
      BY <3>4, <3>5, <3>6
  <2>7. lifecycle # "active" => delivered' = delivered
    BY <1>10 DEF DrainFact
  <2>8. Publication'
    <3>1. CASE lifecycle = "active"
      <4>1. delivered + 1 \in Nat /\ lifecycle' = lifecycle /\ sequence' = sequence
        BY <1>4, <1>8
      <4> QED
        BY <1>8, <2>1, <2>2, <2>6, <3>1, <4>1, PublicationNext
    <3>2. CASE lifecycle # "active"
      BY <1>4, <1>8, <2>1, <2>2, <2>7, <3>2, PublicationNext
    <3> QED
      BY <3>1, <3>2
  <2> QED
    BY <1>5, <2>3, <2>4, <2>5, <2>6, <2>7, <2>8 DEF IInv
<1> QED
  BY <1>9, <1>10

LEMMA ProjectKeeps ==
  ASSUME IInv, ProjectFact
  PROVE  IInv'
<1>1. AgendaOK /\ At("project")
  BY DEF IInv, ProjectFact
<1>2. /\ agenda # << >> /\ agenda[1].op = "project"
      /\ \A other : At(other) <=> other = "project"
  BY <1>1, AtOnly
<1>3. Undecided
  BY <1>2 DEF Undecided, Preparing
<1>4. /\ requests' = requests /\ UNCHANGED publisherVars
      /\ UNCHANGED <<lifecycle, savepoint, routes, bindings, document, machine, updating,
                     unavailable, nodes, throws>>
      /\ UNCHANGED <<storeVars, validationVars, adapter>>
      /\ DOMAIN rendered' = DOMAIN rendered
  BY DEF ProjectFact, storeVars, validationVars, observerVars
<1>5. SameControl
  BY <1>4 DEF SameControl, IInv, ControlTypes
<1>6. GraphTypes'
  BY <1>4 DEF IInv, GraphTypes, storeVars, validationVars
<1>7. Calm(agenda, agenda', requests)
  <2>1. Do(<< >>)
    BY DEF ProjectFact
  <2>2. Typed(agenda, requests) /\ Ordered(agenda) /\ agenda[1].op \notin Tracked
    BY <1>1, <1>2 DEF AgendaOK, Tracked, Preparing, Protected
  <2> QED
    BY <1>2, <2>1, <2>2, CalmPop DEF Do
<1> QED
  BY <1>3, <1>4, <1>5, <1>6, <1>7, QuietStep

-----------------------------------------------------------------------------
(* The ends of updates and disposals.                                      *)

LEMMA NothingPrepared ==
  ASSUME AgendaOK, NEW op, At(op), op \notin Preparing
  PROVE  \A o \in Preparing : ~At(o) /\ ~Pending(o) /\ ~Below(o)
<1>1. agenda # << >> /\ \A o : At(o) <=> o = op
  BY AtOnly
<1>2. \A o \in Preparing : o \in HeadOnly
  BY DEF HeadOnly
<1> QED
  BY <1>1, <1>2, BelowFacts

(* A coordination that is still open then is a broken one.                  *)
LEMMA BrokenOnly ==
  ASSUME AgendaOK, Coordinated, NEW op, At(op), op \notin Preparing
  PROVE  savepoint # None =>
           /\ "settled" \in DOMAIN savepoint /\ savepoint.settled /\ throws > 0
           /\ unavailable \/ op = "dispose"
<1>1. \A o : At(o) <=> o = op
  BY AtOnly
<1>2. \A o \in Preparing : ~At(o)
  BY <1>1
<1>3. "restore" \in Preparing
  BY DEF Preparing
<1> QED
  BY <1>1, <1>2, <1>3 DEF Coordinated

LEMMA NotTentative ==
  ASSUME savepoint' = None \/ savepoint'.settled
  PROVE  Tentative'
BY DEF Tentative, None

LEMMA NothingPreparedNext ==
  ASSUME AgendaOK', \A o \in Preparing : ~Pending(o)'
  PROVE  \A o \in Preparing : ~At(o)'
BY AtNext

LEMMA EndKeeps ==
  ASSUME IInv, NEW op \in {"finish", "quarantined"}, At(op), Do(<< >>), updating' = FALSE,
         UNCHANGED <<lifecycle, storeVars, savepoint, publisherVars, routes, bindings,
                     validationVars, adapter, observerVars, document, machine, rendered,
                     unavailable>>
  PROVE  IInv'
<1>1. AgendaOK /\ agenda # << >> /\ \A other : At(other) <=> other = op
  BY AtOnly DEF IInv
<1>2. /\ requests' = requests /\ nodes' = nodes /\ throws' = throws
      /\ UNCHANGED <<storeVars, validationVars, adapter, rendered>>
  BY DEF validationVars, storeVars, observerVars
<1>3. AgendaOK' /\ \A o : Pending(o)' <=> Below(o)
  BY <1>1, <1>2, PopFacts
<1>4. op \in Phases /\ op \notin Preparing /\ "quarantined" \in Phases
  BY DEF Phases, Preparing
<1>5. /\ \A o \in Phases : ~Below(o)
      /\ ~Below("drain") /\ ~Pending("drain") /\ (Pending("disposed") <=> Below("disposed"))
      /\ (Pending("quarantined") <=> op = "quarantined")
  <2>1. /\ \A o : Pending(o) <=> At(o) \/ Below(o)
        /\ \A x, y \in Phases : At(x) => ~Below(y)
        /\ \A x \in Phases : At(x) => ~Below("drain")
    BY <1>1, BelowFacts
  <2>2. op # "drain" /\ op # "disposed"
    OBVIOUS
  <2> QED
    BY <1>1, <1>4, <2>1, <2>2
<1>6. GraphTypes' /\ Publication'
  BY <1>2, SameGraph, SamePublication DEF IInv
<1>7. ControlTypes'
  BY <1>2 DEF IInv, ControlTypes
<1>8. HeldBack'
  BY <1>3, <1>5, SameHeldBack DEF IInv, publisherVars
<1>9. Phase /\ Coordinated /\ Agreed
  BY DEF IInv, Control
<1>10. savepoint # None =>
         "settled" \in DOMAIN savepoint /\ savepoint.settled /\ throws > 0 /\ unavailable
  BY <1>1, <1>4, <1>9, BrokenOnly
<1>11. \A o \in Preparing : ~At(o)'
  <2>1. \A o \in Preparing : ~Pending(o)'
    BY <1>3, <1>5 DEF Phases
  <2> QED
    BY <1>3, <2>1, NothingPreparedNext
<1>12. Phase'
  BY <1>3, <1>4, <1>5, <1>9 DEF Phase, None
<1>13. Coordinated'
  BY <1>2, <1>10, <1>11 DEF Coordinated, None
<1>14. Agreed'
  <2>1. ASSUME op = "quarantined"
        PROVE  unavailable
    BY <1>1, <1>5, <1>9, <2>1 DEF Phase
  <2> QED
    BY <1>2, <1>5, <1>9, <2>1 DEF Agreed, None
<1>15. Tentative'
  BY <1>10, NotTentative DEF None
<1> QED
  BY <1>3, <1>6, <1>7, <1>8, <1>12, <1>13, <1>14, <1>15 DEF IInv, Control

LEMMA FinishUpdateKeeps ==
  ASSUME IInv, FinishUpdate
  PROVE  IInv'
BY EndKeeps DEF FinishUpdate

LEMMA QuarantineKeeps ==
  ASSUME IInv, Quarantine
  PROVE  IInv'
BY EndKeeps DEF Quarantine

LEMMA FinishDisposalKeeps ==
  ASSUME IInv, FinishDisposal, UNCHANGED applicationVars
  PROVE  IInv'
<1>1. At("disposed") /\ Do(<< >>) /\ lifecycle' = "disposed"
  BY DEF FinishDisposal
<1>2. AgendaOK /\ agenda # << >> /\ \A other : At(other) <=> other = "disposed"
  BY <1>1, AtOnly DEF IInv
<1>3. /\ requests' = requests /\ UNCHANGED publisherVars
      /\ UNCHANGED <<nodes, revision, savepoint, bindings, answers, adapter, throws>>
      /\ UNCHANGED <<document, machine, rendered, updating, unavailable>>
      /\ active' = Cancelled(Nodes) /\ contexts' = {} /\ routes' = {} /\ records' = << >>
  BY DEF FinishDisposal, observerVars, applicationVars
<1>4. AgendaOK' /\ \A o : Pending(o)' <=> Below(o)
  BY <1>1, <1>2, <1>3, PopFacts
<1>5. /\ \A o : o # "disposed" => (Pending(o)' <=> Pending(o))
      /\ ~Pending("disposed")' /\ Pending("disposed")
  <2>1. /\ \A o : Pending(o) <=> At(o) \/ Below(o)
        /\ At("disposed") => ~Below("disposed")
    BY <1>2, BelowFacts
  <2> QED
    BY <1>2, <1>4, <2>1
<1>6. Phase /\ Coordinated
  BY DEF IInv, Control
<1>7. unavailable /\ unavailable'
  BY <1>3, <1>5, <1>6 DEF Phase
<1>8. GraphTypes'
  <2>1. records' = << >> /\ DOMAIN records' = {} /\ Cardinality({}) = 0 /\ IsFiniteSet({})
    BY <1>3, FS_EmptySet
  <2>2. Retention \in Nat
    BY RuntimeAssumption
  <2>3. active' \in [Nodes -> 0..requests]
    <3>1. GraphTypes
      BY DEF IInv
    <3>2. NoRequest \in 0..requests
      BY <3>1 DEF GraphTypes, NoRequest
    <3> QED
      BY <1>3, <3>1, <3>2 DEF GraphTypes, Cancelled
  <2>4. GraphTypes
    BY DEF IInv
  <2> QED
    BY <1>3, <2>1, <2>2, <2>3, <2>4 DEF GraphTypes
<1>9. ControlTypes'
  BY <1>1, <1>3 DEF IInv, ControlTypes
<1>10. Publication'
  <2>1. /\ sequence \in Nat /\ delivered \in Nat /\ delivered <= sequence
        /\ outbox = [open |-> outbox.open, facts |-> outbox.facts] /\ IsStack(outbox.facts)
    BY DEF IInv, Publication
  <2>2. /\ outbox' = [open |-> outbox.open, facts |-> outbox.facts]
        /\ sequence' = sequence /\ delivered' = delivered
    BY <1>3, <2>1 DEF publisherVars
  <2> QED
    BY <1>1, <2>1, <2>2, PublicationNext
<1>11. HeldBack'
  BY <1>3, <1>5, SameHeldBack DEF IInv, publisherVars
<1>12. savepoint # None =>
         "settled" \in DOMAIN savepoint /\ savepoint.settled /\ throws > 0
  <2>1. "disposed" \notin Preparing
    BY DEF Preparing
  <2> QED
    BY <1>1, <1>2, <1>6, <2>1, BrokenOnly
<1>13. \A o \in Preparing : ~At(o)'
  <2>1. "disposed" \notin Preparing
    BY DEF Preparing
  <2>2. \A o \in Preparing : ~Pending(o)'
    BY <1>1, <1>2, <1>4, <2>1, NothingPrepared
  <2> QED
    BY <1>4, <2>2, NothingPreparedNext
<1>14. Phase'
  <2>1. \A o \in Phases : Pending(o)' <=> Pending(o)
    BY <1>5 DEF Phases, Preparing
  <2> QED
    BY <1>1, <1>3, <1>5, <1>6, <1>7, <2>1 DEF Phase
<1>15. Coordinated'
  BY <1>3, <1>7, <1>12, <1>13 DEF Coordinated, None
<1>16. Agreed'
  BY <1>7 DEF Agreed
<1>17. Tentative'
  BY <1>3, <1>12, NotTentative DEF None
<1> QED
  BY <1>4, <1>8, <1>9, <1>10, <1>11, <1>14, <1>15, <1>16, <1>17 DEF IInv, Control

LEMMA FailToRestoreKeeps ==
  ASSUME IInv, FailToRestore
  PROVE  IInv'
<1> DEFINE x == [op |-> "dispose"]
           y == [op |-> "quarantined"]
<1>1. At("restore") /\ savepoint.settled /\ Do(<<x, y>>)
  BY DEF FailToRestore
<1>2. AgendaOK /\ agenda # << >> /\ \A other : At(other) <=> other = "restore"
  BY <1>1, AtOnly DEF IInv
<1>3. /\ requests' = requests /\ nodes' = nodes /\ throws' = throws
      /\ UNCHANGED <<lifecycle, publisherVars, savepoint, outbox, routes, bindings, applicationVars>>
      /\ UNCHANGED <<storeVars, validationVars, adapter, rendered>>
      /\ UNCHANGED <<document, machine, updating, unavailable>>
  BY DEF FailToRestore, validationVars, storeVars, observerVars, applicationVars, publisherVars
<1>4. /\ \A o : Pending(o) <=> At(o) \/ Below(o)
      /\ \A o \in Phases \cup {"drain"} : ~Below(o)
      /\ "restore" \in Phases /\ "restore" \in Preparing
  <2>1. /\ \A o : Pending(o) <=> At(o) \/ Below(o)
        /\ \A a, b \in Phases : At(a) => ~Below(b)
        /\ \A a \in Phases : At(a) => ~Below("drain")
    BY <1>2, BelowFacts
  <2>2. "restore" \in Phases /\ "restore" \in Preparing
    BY DEF Phases, Preparing
  <2> QED
    BY <1>1, <2>1, <2>2
<1>5. AgendaOK' /\ \A o : Pending(o)' <=> x.op = o \/ y.op = o \/ Below(o)
  <2>1. TaskOK(x, requests) /\ TaskOK(y, requests) /\ Above(x, y)
    BY DEF TaskOK, Preparing, Above, HeadOnly, LastFact
  <2>2. ASSUME Len(agenda) >= 2
        PROVE  Above(y, agenda[2])
    <3>1. Above(agenda[1], agenda[2]) /\ agenda[1].op = "restore"
      BY <1>1, <1>2, <2>2, AtOnly, OrderedNext DEF AgendaOK, Typed
    <3>2. Free(agenda[2])
      BY <3>1, BelowOthers DEF LastFact
    <3> QED
      BY <3>2, FreeBelowAll
  <2>3. \A ops \in {Phases, {"disposed"}} :
          /\ x.op \in ops => y.op \notin ops
          /\ x.op \in ops \/ y.op \in ops => \A o \in ops : ~Below(o)
    BY <1>4 DEF Phases, Preparing
  <2>4. x.op # "drain" /\ y.op # "drain"
    OBVIOUS
  <2> HIDE DEF x, y
  <2> QED
    BY <1>1, <1>2, <1>3, <2>1, <2>2, <2>3, <2>4, DoTwoFacts
<1>6. Phase /\ Coordinated /\ ~unavailable
  BY <1>1, <1>4 DEF IInv, Control, Coordinated
<1>7. ~Pending("disposed") /\ ~Below("disposed")
  BY <1>4, <1>6 DEF Phase
<1>8. /\ Pending("quarantined")' /\ Pending("dispose")' /\ ~Pending("disposed")'
      /\ ~Pending("drain") /\ ~Pending("drain")'
  BY <1>2, <1>4, <1>5, <1>7
<1>9. At("dispose")'
  BY <1>5, <1>8, AtNext DEF HeadOnly
<1>10. \A o \in Preparing : ~At(o)'
  <2>1. \A o \in Preparing : ~Pending(o)'
    BY <1>4, <1>5 DEF Phases, Preparing
  <2> QED
    BY <1>5, <2>1, NothingPreparedNext
<1>11. savepoint # None /\ "settled" \in DOMAIN savepoint /\ throws > 0
  BY <1>1, <1>4, <1>6 DEF Coordinated
<1>12. GraphTypes' /\ Publication'
  BY <1>3, SameGraph, SamePublication DEF IInv
<1>13. ControlTypes'
  BY <1>3 DEF IInv, ControlTypes
<1>14. HeldBack'
  BY <1>3, <1>8, SameHeldBack DEF IInv, publisherVars
<1>15. Phase'
  <2>1. "quarantined" \in Phases
    BY DEF Phases
  <2>2. updating
    BY <1>1, <1>4, <1>6 DEF Phase
  <2> QED
    BY <1>3, <1>6, <1>8, <1>9, <1>11, <2>1, <2>2 DEF Phase, None
<1>16. Coordinated'
  BY <1>1, <1>3, <1>9, <1>10, <1>11 DEF Coordinated, None
<1>17. Agreed' /\ Tentative'
  BY <1>1, <1>3, <1>8, NotTentative DEF Agreed
<1> QED
  BY <1>5, <1>12, <1>13, <1>14, <1>15, <1>16, <1>17 DEF IInv, Control

LEMMA DisposeApplicationKeeps ==
  ASSUME IInv, DisposeApplication
  PROVE  IInv'
<1>1. At("dispose")
  BY DEF DisposeApplication
<1>2. /\ AgendaOK /\ agenda # << >> /\ agenda[1].op = "dispose"
      /\ \A other : At(other) <=> other = "dispose"
  BY <1>1, AtOnly DEF IInv
<1>3. /\ requests' = requests /\ nodes' = nodes /\ throws' = throws
      /\ UNCHANGED <<lifecycle, publisherVars, savepoint, bindings, storeVars, validationVars>>
      /\ UNCHANGED <<adapter, document, updating>>
  BY DEF DisposeApplication, validationVars, storeVars, observerVars
<1>4. CASE unavailable
  <2>1. Do(<< >>) /\ UNCHANGED <<unavailable, rendered, machine, routes>>
    BY <1>4 DEF DisposeApplication
  <2>2. Calm(agenda, agenda', requests)
    <3>1. Typed(agenda, requests) /\ Ordered(agenda) /\ agenda[1].op \notin Tracked
      BY <1>2 DEF AgendaOK, Tracked, Preparing, Protected
    <3> QED
      BY <1>2, <2>1, <3>1, CalmPop DEF Do
  <2>3. Undecided
    BY <1>2, <1>4 DEF Undecided, Preparing
  <2>4. SameControl
    BY <1>3, <2>1 DEF SameControl, IInv, ControlTypes
  <2>5. GraphTypes'
    BY <1>3, <2>1, SameGraph DEF IInv
  <2> QED
    BY <1>3, <2>2, <2>3, <2>4, <2>5, QuietStep
<1>5. CASE ~unavailable
  <2>1. /\ unavailable' = TRUE /\ rendered' = << >>
        /\ Do(IF savepoint # None THEN << >> ELSE Dispose)
    BY <1>5 DEF DisposeApplication
  <2>2. Phase /\ Coordinated /\ Agreed
    BY DEF IInv, Control
  <2>3. ~Pending("disposed") /\ lifecycle = "active"
    BY <1>5, <2>2 DEF Phase, IInv, ControlTypes
  <2>4. \A o \in Preparing : ~At(o) /\ ~Pending(o) /\ ~Below(o)
    <3>1. "dispose" \notin Preparing
      BY DEF Preparing
    <3> QED
      BY <1>1, <1>2, <3>1, NothingPrepared
  <2>5. savepoint # None => "settled" \in DOMAIN savepoint /\ savepoint.settled /\ throws > 0
    <3>1. "dispose" \notin Preparing
      BY DEF Preparing
    <3> QED
      BY <1>1, <1>2, <2>2, <3>1, BrokenOnly
  <2>6. \A o \in Tracked : Pending(o) <=> Below(o)
    <3>1. "dispose" \notin Tracked
      BY DEF Tracked, Preparing, Protected
    <3> QED
      BY <1>2, <3>1, BelowFacts
  <2>7. ~Below("disposed")
    BY <1>2, <2>3, BelowFacts
  <2>8. /\ AgendaOK'
        /\ \A o \in Tracked \ {"disposed"} : Pending(o)' <=> Pending(o)
        /\ savepoint = None => Pending("disposed")'
        /\ savepoint # None => ~Pending("disposed")'
    <3>1. CASE savepoint # None
      <4>1. Do(<< >>)
        BY <2>1, <3>1
      <4>2. AgendaOK' /\ \A o : Pending(o)' <=> Below(o)
        BY <1>2, <1>3, <4>1, PopFacts
      <4> QED
        BY <2>6, <2>7, <3>1, <4>2
    <3>2. CASE savepoint = None
      <4> DEFINE x == Emit("disposed", {}, revision)
                 y == [op |-> "disposed"]
      <4>1. Do(<<x, y>>)
        BY <2>1, <3>2 DEF Dispose
      <4>2. /\ TaskOK(x, requests) /\ TaskOK(y, requests) /\ Above(x, y)
            /\ x.op = "emit" /\ y.op = "disposed"
        BY DEF TaskOK, Preparing, Above, HeadOnly, LastFact, Emit
      <4> HIDE DEF x, y
      <4>3. ASSUME Len(agenda) >= 2
            PROVE  Above(y, agenda[2])
        <5>1. Above(agenda[1], agenda[2])
          BY <1>2, <4>3, OrderedNext DEF AgendaOK, Typed
        <5> QED
          BY <5>1, <1>2, <4>2 DEF Above, LastFact
      <4>4. \A ops \in {Phases, {"disposed"}} :
              /\ x.op \in ops => y.op \notin ops
              /\ x.op \in ops \/ y.op \in ops => \A o \in ops : ~Below(o)
        BY <4>2, <2>7 DEF Phases, Preparing
      <4>5. x.op # "drain" /\ y.op # "drain"
        BY <4>2
      <4>6. AgendaOK' /\ \A o : Pending(o)' <=> x.op = o \/ y.op = o \/ Below(o)
        BY <1>2, <1>3, <4>1, <4>2, <4>3, <4>4, <4>5, DoTwoFacts
      <4>7. "emit" \notin Tracked
        BY DEF Tracked, Preparing, Protected
      <4> QED
        BY <2>6, <3>2, <4>2, <4>6, <4>7
    <3> QED
      BY <3>1, <3>2
  <2>9. \A o \in Phases \cup {"drain", "quarantined"} :
          o \in Tracked \ {"disposed"} /\ (Pending(o)' <=> Pending(o))
    <3>1. \A o \in Phases \cup {"drain", "quarantined"} : o \in Tracked \ {"disposed"}
      BY DEF Tracked, Phases, Preparing, Protected
    <3> QED
      BY <2>8, <3>1
  <2>10. \A o \in Preparing : ~At(o)'
    <3>1. \A o \in Preparing : ~Pending(o)'
      BY <2>4, <2>9 DEF Phases
    <3> QED
      BY <2>8, <3>1, NothingPreparedNext
  <2>11. GraphTypes'
    <3>1. DOMAIN rendered' = {}
      BY <2>1
    <3>2. GraphTypes
      BY DEF IInv
    <3> QED
      BY <1>3, <3>1, <3>2 DEF GraphTypes, storeVars, validationVars
  <2>12. ControlTypes' /\ Publication'
    BY <1>3, SamePublication DEF IInv, ControlTypes
  <2>13. HeldBack'
    BY <1>3, <2>9, SameHeldBack DEF IInv, publisherVars
  <2>14. Phase'
    <3>1. (\E o \in Phases : Pending(o)') <=> (\E o \in Phases : Pending(o))
      BY <2>9
    <3> QED
      BY <1>3, <2>1, <2>2, <2>3, <2>8, <3>1 DEF Phase, None
  <2>15. Coordinated'
    BY <1>3, <2>1, <2>5, <2>10 DEF Coordinated, None
  <2>16. Agreed'
    BY <2>1 DEF Agreed
  <2>17. Tentative'
    BY <1>3, <2>5, NotTentative DEF None
  <2> QED
    BY <2>8, <2>11, <2>12, <2>13, <2>14, <2>15, <2>16, <2>17 DEF IInv, Control
<1> QED
  BY <1>4, <1>5

-----------------------------------------------------------------------------
(* The beginning of an update.                                             *)

LEMMA DoHead ==
  ASSUME AgendaOK, agenda # << >>, NEW x, Do(<<x>>)
  PROVE  agenda' # << >> /\ Task' = x /\ \A o : At(o)' <=> x.op = o
<1>1. IsStack(Tail(agenda)) /\ Len(Tail(agenda)) \in Nat
  <2>1. IsStack(Tail(agenda))
    BY StackFacts DEF AgendaOK, Typed
  <2> QED
    BY <2>1, StackFacts
<1>2. IsStack(<<x>>) /\ Len(<<x>>) = 1 /\ <<x>>[1] = x
  BY StackOfOne
<1> DEFINE t == <<x>> \o Tail(agenda)
<1>3. /\ IsStack(t) /\ Len(t) = Len(<<x>>) + Len(Tail(agenda))
      /\ \A i \in 1..Len(<<x>>) : t[i] = <<x>>[i]
  BY <1>1, <1>2, JoinedStack
<1>4. agenda' = t
  BY DEF Do
<1> HIDE DEF t
<1>5. Len(t) # 0 /\ t[1] = x
  BY <1>1, <1>2, <1>3
<1>6. t # << >> /\ Head(t) = x
  BY <1>3, <1>5, StackFacts
<1> QED
  BY <1>4, <1>6 DEF Task, At

(* An update starts only when none is in progress, in no coordination.      *)
LEMMA UpdateFacts ==
  ASSUME IInv, At("update"), ~unavailable, ~updating
  PROVE  /\ savepoint = None /\ lifecycle = "active"
         /\ \A o \in Phases \cup {"drain", "disposed"} : ~Pending(o) /\ ~Below(o)
         /\ outbox = Closed /\ sequence = delivered /\ sequence \in Nat
         /\ nodes \in [NodesOf[document] -> ControlOf(requests)]
         /\ DOMAIN nodes = NodesOf[document] /\ DOMAIN rendered = NodesOf[document]
         /\ bindings = document /\ machine = MachineOf[document] /\ routes = {machine}
<1>1. AgendaOK /\ agenda # << >> /\ Phase /\ Coordinated /\ Agreed
  BY AtOnly DEF IInv, Control
<1>2. savepoint = None
  <2>1. "update" \notin Preparing
    BY DEF Preparing
  <2> QED
    BY <1>1, <2>1, BrokenOnly
<1>3. lifecycle = "active"
  BY <1>1 DEF Phase, IInv, ControlTypes
<1>4. \A o \in Phases : ~Pending(o)
  BY <1>1 DEF Phase
<1>5. ~Pending("drain")
  <2> SUFFICES ASSUME NEW i \in 1..Len(agenda), agenda[i].op = "drain" PROVE FALSE
    BY DEF Pending
  <2>1. PICK j \in (i + 1)..Len(agenda) : agenda[j].op = "finish"
    BY <1>1 DEF AgendaOK, Ordered
  <2>2. j \in 1..Len(agenda)
    BY <1>1, AtFacts
  <2>3. "finish" \in Phases
    BY DEF Phases
  <2> QED
    BY <1>4, <2>1, <2>2, <2>3 DEF Pending
<1>6. ~Pending("disposed")
  BY <1>1 DEF Phase
<1>7. \A o : Below(o) => Pending(o)
  BY <1>1, BelowFacts
<1>8. outbox = Closed
  BY <1>2, <1>5 DEF IInv, HeldBack
<1>9. sequence = delivered /\ sequence \in Nat
  <2> DEFINE f == << >>
  <2>1. outbox.facts = f /\ Len(f) = 0
    BY <1>8, EmptyStack DEF Closed
  <2> HIDE DEF f
  <2>2. /\ sequence = delivered + Len(outbox.facts) /\ sequence \in Nat /\ delivered \in Nat
    BY <1>3 DEF IInv, Publication
  <2> QED
    BY <2>1, <2>2
<1>10. ~Pending("quarantined")
  BY <1>4 DEF Phases
<1>11. /\ DOMAIN nodes = NodesOf[document] /\ DOMAIN rendered = NodesOf[document]
       /\ bindings = document /\ machine = MachineOf[document] /\ routes = {machine}
  BY <1>1, <1>2, <1>10 DEF Agreed
<1>12. nodes \in [NodesOf[document] -> ControlOf(requests)]
  BY <1>11 DEF IInv, GraphTypes
<1> QED
  BY <1>2, <1>3, <1>4, <1>5, <1>6, <1>7, <1>8, <1>9, <1>11, <1>12

\* The candidate graph is the one of the document, with a new revision if it
\* differs.
Staged ==
  /\ DOMAIN nodes' = NodesOf[document']
  /\ Changed(nodes, nodes') # {} => revision < revision'

LEMMA BeginKeeps ==
  ASSUME IInv, At("update"), ~unavailable, ~updating,
         NEW x, x.op \in {"render", "giveUp"}, x.previous = document, Do(<<x>>),
         savepoint' = Savepoint, updating' = TRUE,
         document' = Task.document, bindings' = Task.document,
         UNCHANGED <<lifecycle, routes, validationVars, observerVars, machine, rendered,
                     unavailable, records, delivered>>,
         GraphTypes', Publication', NEW f, outbox' = [open |-> TRUE, facts |-> f],
         revision <= revision', x.op = "render" => Staged
  PROVE  IInv'
<1>1. AgendaOK /\ agenda # << >> /\ TaskOK(Task, requests) /\ Task.op = "update"
      /\ agenda[1].op = "update"
  BY AtOnly DEF IInv, At
<1>2. /\ savepoint = None /\ lifecycle = "active"
      /\ \A o \in Phases \cup {"drain", "disposed"} : ~Pending(o) /\ ~Below(o)
      /\ outbox = Closed /\ sequence = delivered /\ sequence \in Nat
      /\ nodes \in [NodesOf[document] -> ControlOf(requests)]
      /\ DOMAIN nodes = NodesOf[document] /\ DOMAIN rendered = NodesOf[document]
      /\ bindings = document /\ machine = MachineOf[document] /\ routes = {machine}
  BY UpdateFacts
<1>3. Task.document \in Documents /\ document \in Documents
  BY <1>1 DEF TaskOK, IInv, ControlTypes
<1>4. requests' = requests /\ throws' = throws
  BY DEF validationVars, observerVars
<1>5. AgendaOK' /\ \A o : Pending(o)' <=> x.op = o \/ Below(o)
  <2>1. TaskOK(x, requests)
    BY <1>3 DEF TaskOK, Preparing
  <2>2. ASSUME Len(agenda) >= 2
        PROVE  Above(x, agenda[2])
    <3>1. Above(agenda[1], agenda[2])
      BY <1>1, <2>2, OrderedNext DEF AgendaOK, Typed
    <3>2. Free(agenda[2])
      BY <1>1, <3>1, BelowOthers DEF LastFact
    <3> QED
      BY <3>2, FreeBelowAll
  <2>3. x.op # "drain"
    OBVIOUS
  <2>4. \A ops \in {Phases, {"disposed"}} : x.op \in ops => \A o \in ops : ~Below(o)
    BY <1>2
  <2> QED
    BY <1>1, <1>4, <2>1, <2>2, <2>3, <2>4, DoOneFacts
<1>6. Task' = x /\ \A o : At(o)' <=> x.op = o
  BY <1>1, DoHead
<1>7. /\ ~Pending("drain")' /\ ~Pending("disposed")' /\ ~Pending("quarantined")'
      /\ Pending(x.op)' /\ x.op \in Preparing /\ Preparing \subseteq Phases
  BY <1>2, <1>5 DEF Phases, Preparing
<1>8. /\ "settled" \in DOMAIN savepoint' /\ savepoint' # None /\ savepoint'.settled = FALSE
      /\ savepoint'.bindings = bindings /\ savepoint'.nodes = nodes
      /\ savepoint'.routes = routes /\ savepoint'.sequence = sequence
      /\ savepoint'.revision = revision
  <2>1. "settled" \in DOMAIN Savepoint /\ "settled" \notin DOMAIN None
    BY DEF Savepoint, None
  <2> QED
    BY <2>1 DEF Savepoint
<1>9. ControlTypes'
  BY <1>3, <1>4 DEF IInv, ControlTypes
<1>10. HeldBack'
  BY <1>7, <1>8 DEF HeldBack, HoldsBack, None
<1>11. Phase'
  BY <1>2, <1>7, <1>8 DEF Phase, None
<1>12. Coordinated'
  BY <1>6, <1>7, <1>8 DEF Coordinated, None
<1>13. Agreed'
  BY <1>8 DEF Agreed, None
<1>14. Tentative'
  <2>1. lifecycle' = "active" /\ savepoint'.bindings = Task'.previous
    BY <1>2, <1>6, <1>8
  <2>2. savepoint'.nodes \in [NodesOf[Task'.previous] -> ControlOf(requests')]
    BY <1>2, <1>4, <1>6, <1>8
  <2>3. savepoint'.routes = {MachineOf[Task'.previous]} /\ savepoint'.sequence = delivered'
    BY <1>2, <1>6, <1>8
  <2>4. /\ savepoint'.revision \in Nat /\ savepoint'.revision <= revision'
        /\ DOMAIN records' \subseteq 1..savepoint'.revision
    BY <1>8 DEF IInv, GraphTypes
  <2>5. machine' = MachineOf[Task'.previous] /\ routes' = {machine'} /\ bindings' = document'
    BY <1>2, <1>6
  <2>6. ~At("giveUp")' =>
          /\ DOMAIN nodes' = NodesOf[document']
          /\ Changed(savepoint'.nodes, nodes') # {} => savepoint'.revision < revision'
    BY <1>6, <1>8 DEF Staged
  <2>7. ~At("commit")' /\ (At("giveUp")' => DOMAIN rendered' = NodesOf[Task'.previous])
    BY <1>2, <1>6
  <2> QED
    BY <2>1, <2>2, <2>3, <2>4, <2>5, <2>6, <2>7 DEF Tentative
<1> QED
  BY <1>5, <1>9, <1>10, <1>11, <1>12, <1>13, <1>14 DEF IInv, Control

LEMMA ReconciledTypes ==
  ASSUME GraphTypes, NEW d \in Documents
  PROVE  /\ Reconciled(d) \in [NodesOf[d] -> ControlOf(requests)]
         /\ NodesOf[d] \subseteq Nodes
<1>1. NodesOf[d] \subseteq Nodes
  BY RuntimeAssumption
<1>2. requests \in Nat /\ NoRequest \in 0..requests
  BY DEF GraphTypes, NoRequest
<1>3. ASSUME NEW v \in Values
      PROVE  /\ Fresh(v) \in ControlOf(requests)
             /\ \A control \in ControlOf(requests) : Migrated(control, v) \in ControlOf(requests)
  <2>1. Fresh(v) \in ControlOf(requests)
    BY <1>2 DEF Fresh, ControlOf
  <2>2. ASSUME NEW control \in ControlOf(requests)
        PROVE  Migrated(control, v) \in ControlOf(requests)
    BY <1>2, <2>1 DEF Migrated, ControlOf
  <2> QED
    BY <2>1, <2>2
<1>4. ASSUME NEW n \in NodesOf[d]
      PROVE  (IF n \in DOMAIN nodes THEN Migrated(nodes[n], adapter[n]) ELSE Fresh(adapter[n]))
                \in ControlOf(requests)
  <2>1. adapter[n] \in Values
    BY <1>1 DEF GraphTypes
  <2>2. n \in DOMAIN nodes => nodes[n] \in ControlOf(requests)
    BY DEF GraphTypes
  <2> QED
    BY <1>3, <2>1, <2>2
<1> QED
  BY <1>1, <1>4 DEF Reconciled

(* The facts of an update are numbered from the next number on.             *)
LEMMA NumberedFacts ==
  ASSUME NEW n \in Nat, NEW a, NEW b, a.sequence = n + 1, b.sequence = n + 2,
         NEW q, q = << >> \/ q = <<b>>
  PROVE  /\ IsStack(<<a>> \o q) /\ Len(<<a>> \o q) \in Nat
         /\ \A i \in 1..Len(<<a>> \o q) : (<<a>> \o q)[i].sequence = n + i
<1> DEFINE p == <<a>>
           f == p \o q
<1>1. IsStack(p) /\ Len(p) = 1 /\ p[1] = a
  BY StackOfOne
<1>2. Len(q) \in 0..1 /\ \A i \in 1..Len(q) : i = 1 /\ q[i] = b
  <2>1. CASE q = << >>
    BY <2>1, EmptyStack
  <2>2. CASE q = <<b>>
    <3>1. IsStack(q) /\ Len(q) = 1 /\ q[1] = b
      BY <2>2, StackOfOne
    <3>2. \A i \in 1..1 : i = 1
      OBVIOUS
    <3> QED
      BY <3>1, <3>2
  <2> QED
    BY <2>1, <2>2
<1> HIDE DEF p
<1>3. IsStack(p) /\ IsStack(q)
  BY <1>1, StackOfOne, EmptyStack
<1>4. /\ IsStack(f) /\ Len(f) = Len(p) + Len(q)
      /\ \A i \in 1..Len(p) : f[i] = p[i]
      /\ \A i \in 1..Len(q) : f[Len(p) + i] = q[i]
  BY <1>3, JoinedStack
<1> HIDE DEF f
<1>5. ASSUME NEW i \in 1..Len(f)
      PROVE  f[i].sequence = n + i
  <2>1. CASE i = 1
    BY <1>1, <1>4, <2>1
  <2>2. CASE i # 1
    <3>1. i = 2 /\ 1 \in 1..Len(q) /\ Len(p) + 1 = 2
      BY <1>1, <1>2, <1>4, <2>2
    <3>2. f[2] = b
      BY <1>2, <1>4, <3>1
    <3> QED
      BY <3>1, <3>2
  <2> QED
    BY <2>1, <2>2
<1>6. Len(f) \in Nat
  BY <1>1, <1>2, <1>4
<1>7. IsStack(f) /\ Len(f) \in Nat /\ \A i \in 1..Len(f) : f[i].sequence = n + i
  BY <1>4, <1>5, <1>6
<1> QED
  BY <1>7 DEF f, p

LEMMA BeginUpdateKeeps ==
  ASSUME IInv, BeginUpdate
  PROVE  IInv'
<1>1. At("update") /\ AgendaOK
  BY DEF BeginUpdate, IInv
<1>2. /\ agenda # << >> /\ agenda[1].op = "update" /\ TaskOK(Task, requests) /\ Task.op = "update"
      /\ \A other : At(other) <=> other = "update"
  BY <1>1, AtOnly DEF At
<1>3. UNCHANGED <<lifecycle, routes, validationVars, adapter, observerVars, machine, rendered,
                  unavailable>>
  BY DEF BeginUpdate
<1>4. requests' = requests /\ throws' = throws
  BY <1>3 DEF validationVars, observerVars
<1>5. CASE unavailable \/ updating
  <2>1. Do(<< >>) /\ UNCHANGED <<storeVars, savepoint, publisherVars, bindings, document, updating>>
    BY <1>5 DEF BeginUpdate
  <2>2. Calm(agenda, agenda', requests)
    <3>1. Typed(agenda, requests) /\ Ordered(agenda) /\ agenda[1].op \notin Tracked
      BY <1>1, <1>2 DEF AgendaOK, Tracked, Preparing, Protected
    <3> QED
      BY <1>2, <2>1, <3>1, CalmPop DEF Do
  <2>3. Undecided
    BY <1>2 DEF Undecided, Preparing
  <2>4. SameControl
    BY <1>3, <1>4, <2>1 DEF SameControl, IInv, ControlTypes, storeVars
  <2>5. GraphTypes'
    BY <1>3, <2>1, SameGraph DEF IInv
  <2> QED
    BY <1>4, <2>1, <2>2, <2>3, <2>4, <2>5, QuietStep
<1>6. CASE ~(unavailable \/ updating)
  <2> DEFINE d == Task.document
  <2>1. /\ savepoint' = Savepoint /\ updating' = TRUE /\ document' = d /\ bindings' = d
        /\ UNCHANGED <<records, delivered>>
        /\ \/ ReconcileTentatively(d) /\ Do(<<[op |-> "render", previous |-> document]>>)
           \/ /\ Do(<<[op |-> "giveUp", previous |-> document]>>)
              /\ sequence' = sequence + 1
              /\ outbox' = [open |-> TRUE, facts |-> <<RejectedFact>>]
              /\ UNCHANGED <<nodes, revision>>
    BY <1>6 DEF BeginUpdate
  <2>2. d \in Documents
    BY <1>2 DEF TaskOK
  <2> HIDE DEF d
  <2>3. ~unavailable /\ ~updating /\ GraphTypes /\ revision \in Nat
    BY <1>6 DEF IInv, GraphTypes
  <2>4. sequence = delivered /\ sequence \in Nat
    BY <1>1, <2>3, UpdateFacts
  <2>5. CASE ReconcileTentatively(d) /\ Do(<<[op |-> "render", previous |-> document]>>)
    <3> DEFINE after == Reconciled(d)
               changed == Changed(nodes, after)
               next == IF changed = {} THEN revision ELSE revision + 1
               a == [sequence |-> sequence + 1, kind |-> "applied", changed |-> {},
                     revision |-> next]
               b == [sequence |-> sequence + 2, kind |-> "transaction", changed |-> changed,
                     revision |-> next]
               q == IF changed = {} THEN << >> ELSE <<b>>
               f == <<a>> \o q
               x == [op |-> "render", previous |-> document]
    <3>1. /\ nodes' = after /\ revision' = next /\ sequence' = sequence + Len(f)
          /\ outbox' = [open |-> TRUE, facts |-> f]
      BY <2>5 DEF ReconcileTentatively
    <3>2. after \in [NodesOf[d] -> ControlOf(requests)] /\ NodesOf[d] \subseteq Nodes
      BY <2>2, <2>3, ReconciledTypes
    <3>3. a.sequence = sequence + 1 /\ b.sequence = sequence + 2 /\ (q = << >> \/ q = <<b>>)
      OBVIOUS
    <3> HIDE DEF after, a, b, q
    <3>4. /\ IsStack(f) /\ Len(f) \in Nat
          /\ \A i \in 1..Len(f) : f[i].sequence = sequence + i
      BY <2>4, <3>3, NumberedFacts
    <3> HIDE DEF f
    <3>5. revision' \in Nat /\ revision <= revision' /\ (changed # {} => revision < revision')
      BY <2>3, <3>1
    <3>6. GraphTypes'
      <4>1. DOMAIN records \subseteq 1..revision'
        BY <2>3, <3>5 DEF GraphTypes
      <4>2. DOMAIN nodes' \subseteq Nodes /\ nodes' \in [DOMAIN nodes' -> ControlOf(requests)]
        BY <3>1, <3>2
      <4> QED
        BY <1>3, <1>4, <2>1, <2>3, <3>5, <4>1, <4>2 DEF GraphTypes, validationVars
    <3>7. Publication'
      <4>1. sequence + Len(f) \in Nat /\ delivered \in Nat /\ delivered <= sequence + Len(f)
            /\ sequence + Len(f) = delivered + Len(f)
            /\ \A i \in 1..Len(f) : f[i].sequence = delivered + i
        BY <2>4, <3>4
      <4> QED
        BY <2>1, <3>1, <3>4, <4>1, PublicationNext
    <3>8. DOMAIN nodes' = NodesOf[document'] /\ (Changed(nodes, nodes') # {} => revision < revision')
      BY <2>1, <3>1, <3>2, <3>5
    <3>9. x.op \in {"render", "giveUp"} /\ x.previous = document
           /\ outbox' = [open |-> TRUE, facts |-> f]
      BY <3>1
    <3>10. Do(<<x>>)
      BY <2>5
    <3> HIDE DEF x, changed, next
    <3>11. document' = Task.document /\ bindings' = Task.document
      BY <2>1 DEF d
    <3>12. /\ savepoint' = Savepoint /\ updating' = TRUE
           /\ UNCHANGED <<lifecycle, routes, validationVars, observerVars, machine, rendered,
                          unavailable, records, delivered>>
      BY <1>3, <2>1
    <3>13. revision <= revision' /\ Staged
      BY <3>5, <3>8 DEF Staged
    <3>14. At("update") /\ ~unavailable /\ ~updating
      BY <1>1, <2>3
    <3> QED
      BY <3>6, <3>7, <3>9, <3>10, <3>11, <3>12, <3>13, <3>14, BeginKeeps
  <2>6. CASE /\ Do(<<[op |-> "giveUp", previous |-> document]>>)
             /\ sequence' = sequence + 1
             /\ outbox' = [open |-> TRUE, facts |-> <<RejectedFact>>]
             /\ UNCHANGED <<nodes, revision>>
    <3> DEFINE x == [op |-> "giveUp", previous |-> document]
               q == << >>
               f == <<RejectedFact>>
    <3>1. GraphTypes'
      BY <1>3, <2>1, <2>6, SameGraph DEF IInv, storeVars
    <3>2. IsStack(f) /\ Len(f) = 1 /\ f[1] = RejectedFact
      BY StackOfOne
    <3>3. outbox' = [open |-> TRUE, facts |-> f]
      BY <2>6
    <3> HIDE DEF f
    <3>4. Publication'
      <4>1. \A i \in 1..Len(f) : i = 1
        BY <3>2
      <4>2. RejectedFact.sequence = delivered + 1
        BY <2>4 DEF RejectedFact
      <4>3. /\ sequence + 1 \in Nat /\ delivered \in Nat /\ delivered <= sequence + 1
            /\ sequence + 1 = delivered + Len(f)
            /\ \A i \in 1..Len(f) : f[i].sequence = delivered + i
        BY <2>4, <3>2, <4>1, <4>2
      <4> QED
        BY <2>1, <2>6, <3>2, <3>3, <4>3, PublicationNext
    <3>5. x.op \in {"render", "giveUp"} /\ x.previous = document /\ x.op # "render"
      OBVIOUS
    <3>6. Do(<<x>>) /\ revision <= revision'
      BY <2>3, <2>6
    <3> HIDE DEF x
    <3>7. document' = Task.document /\ bindings' = Task.document
      BY <2>1 DEF d
    <3> QED
      BY <1>1, <1>3, <2>1, <2>3, <3>1, <3>3, <3>4, <3>5, <3>6, <3>7, BeginKeeps
  <2> QED
    BY <2>1, <2>5, <2>6
<1> QED
  BY <1>5, <1>6

-----------------------------------------------------------------------------
(* The steps of an update whose coordination is open.                      *)

LEMMA PreparedFacts ==
  ASSUME IInv, NEW op \in Preparing, At(op), op # "restore" \/ ~savepoint.settled
  PROVE  /\ AgendaOK /\ agenda # << >> /\ agenda[1].op = op /\ Task.previous \in Documents
         /\ \A other : At(other) <=> other = op
         /\ savepoint # None /\ "settled" \in DOMAIN savepoint /\ ~savepoint.settled
         /\ ~unavailable /\ updating /\ lifecycle = "active" /\ HoldsBack
         /\ \A o \in Phases \cup {"drain", "disposed"} : ~Below(o)
         /\ Len(agenda) >= 2 => Free(agenda[2])
<1>1. /\ AgendaOK /\ agenda # << >> /\ agenda[1].op = op /\ TaskOK(Task, requests) /\ Task = agenda[1]
      /\ \A other : At(other) <=> other = op
  BY AtOnly DEF IInv
<1>2. Task.previous \in Documents
  BY <1>1 DEF TaskOK
<1>3. Phase /\ Coordinated /\ HeldBack /\ ControlTypes /\ Tentative
  BY DEF IInv, Control
<1>4. savepoint # None /\ ~unavailable /\ "settled" \in DOMAIN savepoint
  BY <1>1, <1>3 DEF Coordinated
<1>5. ~savepoint.settled
  <2>1. op # "dispose"
    BY DEF Preparing
  <2> QED
    BY <1>1, <1>3, <1>4, <2>1 DEF Coordinated
<1>6. op \in Phases /\ Pending(op)
  BY <1>1, AtFacts DEF Phases
<1>7. updating
  BY <1>3, <1>6 DEF Phase
<1>8. lifecycle = "active" /\ HoldsBack
  BY <1>3, <1>4, <1>5 DEF Tentative, HeldBack
<1>9. \A o \in Phases \cup {"drain", "disposed"} : ~Below(o)
  <2>1. /\ \A o : Pending(o) <=> At(o) \/ Below(o)
        /\ \A a, b \in Phases : At(a) => ~Below(b)
        /\ \A a \in Phases : At(a) => ~Below("drain")
    BY <1>1, BelowFacts
  <2>2. ~Pending("disposed")
    BY <1>3, <1>4 DEF Phase
  <2> QED
    BY <1>1, <1>6, <2>1, <2>2
<1>10. ASSUME Len(agenda) >= 2
       PROVE  Free(agenda[2])
  <2>1. Above(agenda[1], agenda[2])
    BY <1>1, <1>10, OrderedNext DEF AgendaOK, Typed
  <2>2. /\ ~LastFact(agenda[1])
        /\ agenda[1].op \notin {"contained", "project", "observe", "dispose", "disposed"}
    BY <1>1 DEF Preparing, LastFact
  <2> QED
    BY <2>1, <2>2, BelowOthers
<1> QED
  BY <1>1, <1>2, <1>4, <1>5, <1>7, <1>8, <1>9, <1>10

(* The next step of the same update.                                       *)
LEMMA LaterFacts ==
  ASSUME IInv, NEW op \in Preparing, At(op), op # "restore" \/ ~savepoint.settled,
         NEW next \in {"commit", "restore"}, Do(<<Later(next)>>), requests' = requests
  PROVE  /\ AgendaOK' /\ \A o : Pending(o)' <=> next = o \/ Below(o)
         /\ Task'.previous = Task.previous
         /\ \A o : At(o)' <=> next = o
         /\ ~Pending("drain")' /\ ~Pending("disposed")' /\ ~Pending("quarantined")'
         /\ \E o \in Phases : Pending(o)'
<1> DEFINE x == Later(next)
<1>1. /\ AgendaOK /\ agenda # << >> /\ Task.previous \in Documents
      /\ \A o \in Phases \cup {"drain", "disposed"} : ~Below(o)
      /\ Len(agenda) >= 2 => Free(agenda[2])
  BY PreparedFacts
<1>2. x.op = next /\ x.previous = Task.previous /\ Do(<<x>>)
  BY DEF Later
<1> HIDE DEF x
<1>3. TaskOK(x, requests) /\ x.op # "drain"
  BY <1>1, <1>2 DEF TaskOK, Preparing
<1>4. Len(agenda) >= 2 => Above(x, agenda[2])
  BY <1>1, FreeBelowAll
<1>5. \A ops \in {Phases, {"disposed"}} : x.op \in ops => \A o \in ops : ~Below(o)
  BY <1>1
<1>6. AgendaOK' /\ \A o : Pending(o)' <=> x.op = o \/ Below(o)
  BY <1>1, <1>2, <1>3, <1>4, <1>5, DoOneFacts
<1>7. Task' = x /\ \A o : At(o)' <=> x.op = o
  BY <1>1, <1>2, DoHead
<1>8. next \in Phases /\ "quarantined" \in Phases
  BY DEF Phases, Preparing
<1> QED
  BY <1>1, <1>2, <1>6, <1>7, <1>8

LEMMA RenderCandidateKeeps ==
  ASSUME IInv, RenderCandidate
  PROVE  IInv'
<1>1. At("render") /\ "render" \in Preparing
  BY DEF RenderCandidate, Preparing
<1>2. /\ savepoint # None /\ "settled" \in DOMAIN savepoint /\ ~savepoint.settled
      /\ ~unavailable /\ updating /\ lifecycle = "active" /\ HoldsBack
      /\ \A other : At(other) <=> other = "render"
  BY <1>1, PreparedFacts
<1>3. /\ requests' = requests /\ nodes' = nodes /\ throws' = throws
      /\ revision' = revision /\ records' = records
      /\ UNCHANGED <<lifecycle, publisherVars, outbox, savepoint, routes, bindings, storeVars,
                     validationVars>>
      /\ UNCHANGED <<adapter, document, machine, updating, unavailable, delivered>>
  BY DEF RenderCandidate, validationVars, storeVars, observerVars, publisherVars
<1>4. Tentative /\ GraphTypes
  BY DEF IInv
<1>5. DOMAIN nodes = NodesOf[document] /\ DOMAIN nodes \subseteq Nodes
  BY <1>2, <1>4 DEF Tentative, GraphTypes
<1>6. \E next \in {"commit", "restore"} :
        /\ Do(<<Later(next)>>)
        /\ rendered' \in {rendered, Page(nodes)}
        /\ next = "commit" => rendered' = Page(nodes)
  BY DEF RenderCandidate
<1>7. PICK next \in {"commit", "restore"} :
        /\ Do(<<Later(next)>>)
        /\ rendered' \in {rendered, Page(nodes)}
        /\ next = "commit" => rendered' = Page(nodes)
  BY <1>6
<1>8. /\ AgendaOK' /\ Task'.previous = Task.previous
      /\ \A o : At(o)' <=> next = o
      /\ ~Pending("drain")' /\ ~Pending("disposed")' /\ ~Pending("quarantined")'
      /\ \E o \in Phases : Pending(o)'
  BY <1>1, <1>3, <1>7, LaterFacts
<1>9. DOMAIN Page(nodes) = DOMAIN nodes
  BY DEF Page
<1>10. GraphTypes'
  <2>1. DOMAIN rendered' \subseteq Nodes
    BY <1>4, <1>5, <1>7, <1>9 DEF GraphTypes
  <2> QED
    BY <1>3, <1>4, <2>1 DEF GraphTypes, validationVars
<1>11. ControlTypes' /\ Publication'
  BY <1>3, SamePublication DEF IInv, ControlTypes
<1>12. HeldBack'
  BY <1>2, <1>3, <1>8 DEF IInv, HeldBack, HoldsBack, None
<1>13. Phase'
  BY <1>2, <1>3, <1>8 DEF IInv, Control, Phase
<1>14. Coordinated'
  <2>1. next \in Preparing
    BY DEF Preparing
  <2> QED
    BY <1>2, <1>3, <1>8, <2>1 DEF Coordinated, None
<1>15. Agreed'
  BY <1>2, <1>3 DEF Agreed, None
<1>16. Tentative'
  <2>1. At("commit")' => DOMAIN rendered' = NodesOf[document]
    BY <1>5, <1>7, <1>8, <1>9
  <2>2. ~At("giveUp")' /\ ~At("giveUp")
    BY <1>2, <1>8
  <2> QED
    BY <1>2, <1>3, <1>4, <1>8, <2>1, <2>2 DEF Tentative, None
<1> QED
  BY <1>8, <1>10, <1>11, <1>12, <1>13, <1>14, <1>15, <1>16 DEF IInv, Control

(* Discarding the coordination brings back what was captured.               *)
LEMMA DiscardFacts ==
  ASSUME IInv, NEW op \in Preparing, At(op), op # "restore" \/ ~savepoint.settled,
         DiscardCoordination, document' = Task.previous, DOMAIN rendered' \subseteq Nodes,
         UNCHANGED <<lifecycle, records, delivered, validationVars, adapter, throws, machine>>
  PROVE  /\ GraphTypes' /\ ControlTypes' /\ Publication' /\ outbox' = Closed /\ savepoint' = None
         /\ DOMAIN nodes' = NodesOf[document'] /\ bindings' = document'
         /\ machine' = MachineOf[document'] /\ routes' = {machine'}
<1>1. /\ savepoint # None /\ ~savepoint.settled /\ lifecycle = "active"
      /\ Task.previous \in Documents
  BY PreparedFacts
<1>2. /\ savepoint.bindings = Task.previous
      /\ savepoint.nodes \in [NodesOf[Task.previous] -> ControlOf(requests)]
      /\ savepoint.routes = {MachineOf[Task.previous]}
      /\ savepoint.sequence = delivered
      /\ savepoint.revision \in Nat /\ DOMAIN records \subseteq 1..savepoint.revision
      /\ machine = MachineOf[Task.previous]
  BY <1>1 DEF IInv, Tentative
<1>3. /\ nodes' = savepoint.nodes /\ revision' = savepoint.revision
      /\ sequence' = savepoint.sequence /\ routes' = savepoint.routes /\ outbox' = Closed
      /\ bindings' = savepoint.bindings /\ savepoint' = None
  BY DEF DiscardCoordination, RestoreAuthorities, FinishCoordination
<1>4. NodesOf[Task.previous] \subseteq Nodes
  BY <1>1, RuntimeAssumption
<1>5. GraphTypes'
  <2>1. GraphTypes
    BY DEF IInv
  <2>2. DOMAIN nodes' \subseteq Nodes /\ nodes' \in [DOMAIN nodes' -> ControlOf(requests)]
    BY <1>2, <1>3, <1>4
  <2> QED
    BY <1>2, <1>3, <2>1, <2>2 DEF GraphTypes, validationVars
<1>6. ControlTypes'
  BY <1>1, <1>2, <1>3 DEF IInv, ControlTypes
<1>7. Publication'
  <2> DEFINE f == << >>
  <2>1. IsStack(f) /\ Len(f) = 0 /\ outbox' = [open |-> FALSE, facts |-> f]
    BY <1>3, EmptyStack DEF Closed
  <2> HIDE DEF f
  <2>2. delivered \in Nat /\ sequence' = delivered
    BY <1>2, <1>3 DEF IInv, Publication
  <2>3. /\ delivered <= delivered /\ delivered = delivered + Len(f)
        /\ \A i \in 1..Len(f) : f[i].sequence = delivered + i
    BY <2>1, <2>2
  <2> QED
    BY <2>1, <2>2, <2>3, PublicationNext
<1>8. DOMAIN nodes' = NodesOf[document']
  BY <1>2, <1>3
<1> QED
  BY <1>2, <1>3, <1>5, <1>6, <1>7, <1>8

(* The update ends with every surface as it was.                            *)
LEMMA RestoredKeeps ==
  ASSUME IInv, NEW op \in Preparing, At(op), op # "restore" \/ ~savepoint.settled,
         DiscardCoordination, document' = Task.previous,
         DOMAIN rendered' = NodesOf[Task.previous], updating' = FALSE, Do(<< >>),
         UNCHANGED <<lifecycle, records, delivered, validationVars, adapter, throws, machine,
                     unavailable>>
  PROVE  IInv'
<1>1. /\ AgendaOK /\ agenda # << >> /\ Task.previous \in Documents
      /\ ~unavailable /\ lifecycle = "active"
      /\ \A o \in Phases \cup {"drain", "disposed"} : ~Below(o)
  BY PreparedFacts
<1>2. requests' = requests
  BY DEF validationVars
<1>3. AgendaOK' /\ \A o : Pending(o)' <=> Below(o)
  BY <1>1, <1>2, PopFacts
<1>4. DOMAIN rendered' \subseteq Nodes
  BY <1>1, RuntimeAssumption
<1>5. /\ GraphTypes' /\ ControlTypes' /\ Publication' /\ outbox' = Closed /\ savepoint' = None
      /\ DOMAIN nodes' = NodesOf[document'] /\ bindings' = document'
      /\ machine' = MachineOf[document'] /\ routes' = {machine'}
  BY <1>4, DiscardFacts
<1>6. \A o \in Phases \cup {"drain", "disposed"} : ~Pending(o)'
  BY <1>1, <1>3
<1>7. "quarantined" \in Phases /\ Preparing \subseteq Phases
  BY DEF Phases
<1>8. \A o \in Preparing : ~At(o)'
  BY <1>3, <1>6, <1>7, NothingPreparedNext
<1>9. HeldBack'
  <2>1. ~HoldsBack'
    BY <1>5 DEF HoldsBack, Closed
  <2> QED
    BY <1>5, <1>6, <2>1 DEF HeldBack, None, Closed
<1>10. Phase'
  BY <1>1, <1>6, <1>7 DEF Phase
<1>11. Coordinated'
  BY <1>5, <1>8 DEF Coordinated, None
<1>12. Agreed'
  BY <1>5 DEF Agreed
<1>13. Tentative'
  BY <1>5, NotTentative
<1> QED
  BY <1>3, <1>5, <1>9, <1>10, <1>11, <1>12, <1>13 DEF IInv, Control

LEMMA GiveUpCandidateKeeps ==
  ASSUME IInv, GiveUpCandidate
  PROVE  IInv'
<1>1. At("giveUp") /\ "giveUp" \in Preparing
  BY DEF GiveUpCandidate, Preparing
<1>2. savepoint # None /\ ~savepoint.settled
  BY <1>1, PreparedFacts
<1>3. DOMAIN rendered = NodesOf[Task.previous]
  BY <1>1, <1>2 DEF IInv, Tentative
<1>4. /\ DiscardCoordination /\ document' = Task.previous
      /\ DOMAIN rendered' = NodesOf[Task.previous] /\ updating' = FALSE /\ Do(<< >>)
      /\ UNCHANGED <<lifecycle, records, delivered, validationVars, adapter, throws, machine,
                     unavailable>>
  BY <1>3 DEF GiveUpCandidate, observerVars
<1> QED
  BY <1>1, <1>4, RestoredKeeps

LEMMA RestoreCandidateKeeps ==
  ASSUME IInv, RestoreCandidate
  PROVE  IInv'
<1>1. At("restore") /\ "restore" \in Preparing /\ ~savepoint.settled
  BY DEF RestoreCandidate, Preparing
<1>2. /\ AgendaOK /\ agenda # << >>
      /\ savepoint # None /\ ~unavailable /\ updating /\ lifecycle = "active"
      /\ \A o \in Phases \cup {"drain", "disposed"} : ~Below(o)
      /\ Len(agenda) >= 2 => Free(agenda[2])
  BY <1>1, PreparedFacts
<1>3. /\ DiscardCoordination /\ document' = Task.previous
      /\ UNCHANGED <<lifecycle, records, delivered, validationVars, adapter, throws, machine,
                     unavailable>>
      /\ requests' = requests
  BY DEF RestoreCandidate, observerVars, validationVars
<1>4. CASE rendered' = Page(savepoint.nodes) /\ updating' = FALSE /\ Do(<< >>)
  <2>1. DOMAIN rendered' = NodesOf[Task.previous]
    <3>1. savepoint.nodes \in [NodesOf[Task.previous] -> ControlOf(requests)]
      BY <1>1, <1>2 DEF IInv, Tentative
    <3> QED
      BY <3>1, <1>4 DEF Page
  <2> QED
    BY <1>1, <1>3, <1>4, <2>1, RestoredKeeps
<1>5. CASE Do(<<[op |-> "dispose"], [op |-> "quarantined"]>>) /\ UNCHANGED <<rendered, updating>>
  <2> DEFINE x == [op |-> "dispose"]
             y == [op |-> "quarantined"]
  <2>1. Do(<<x, y>>) /\ x.op = "dispose" /\ y.op = "quarantined"
    BY <1>5
  <2> HIDE DEF x, y
  <2>2. TaskOK(x, requests) /\ TaskOK(y, requests) /\ Above(x, y)
    BY <2>1 DEF TaskOK, Preparing, Above, HeadOnly, LastFact
  <2>3. Len(agenda) >= 2 => Above(y, agenda[2])
    BY <1>2, FreeBelowAll
  <2>4. \A ops \in {Phases, {"disposed"}} :
          /\ x.op \in ops => y.op \notin ops
          /\ x.op \in ops \/ y.op \in ops => \A o \in ops : ~Below(o)
    BY <1>2, <2>1 DEF Phases, Preparing
  <2>5. x.op # "drain" /\ y.op # "drain"
    BY <2>1
  <2>6. AgendaOK' /\ \A o : Pending(o)' <=> x.op = o \/ y.op = o \/ Below(o)
    BY <1>2, <1>3, <2>1, <2>2, <2>3, <2>4, <2>5, DoTwoFacts
  <2>7. /\ Pending("quarantined")' /\ Pending("dispose")' /\ ~Pending("disposed")'
        /\ ~Pending("drain")' /\ "quarantined" \in Phases
        /\ \A o \in Preparing : ~Pending(o)'
    BY <1>2, <2>1, <2>6 DEF Phases, Preparing
  <2>8. At("dispose")'
    BY <2>6, <2>7, AtNext DEF HeadOnly
  <2>9. \A o \in Preparing : ~At(o)'
    BY <2>6, <2>7, NothingPreparedNext
  <2>10. DOMAIN rendered' \subseteq Nodes
    BY <1>5 DEF IInv, GraphTypes
  <2>11. /\ GraphTypes' /\ ControlTypes' /\ Publication' /\ outbox' = Closed /\ savepoint' = None
    BY <1>1, <1>3, <2>10, DiscardFacts
  <2>12. HeldBack'
    <3>1. ~HoldsBack'
      BY <2>11 DEF HoldsBack, Closed
    <3> QED
      BY <2>7, <2>11, <3>1 DEF HeldBack, None, Closed
  <2>13. Phase'
    BY <1>2, <1>3, <1>5, <2>7, <2>8 DEF Phase
  <2>14. Coordinated'
    BY <2>9, <2>11 DEF Coordinated, None
  <2>15. Agreed'
    BY <2>7 DEF Agreed
  <2>16. Tentative'
    BY <2>11, NotTentative
  <2> QED
    BY <2>6, <2>11, <2>12, <2>13, <2>14, <2>15, <2>16 DEF IInv, Control
<1> QED
  BY <1>4, <1>5 DEF RestoreCandidate

-----------------------------------------------------------------------------
(* The commit of an update.                                                *)

(* The agenda of a commit: hand out the facts, schedule validations under a *)
(* handler, finish the update.                                              *)
CommitTasks(S) ==
  <<[op |-> "drain"]>> \o Each("schedule", S) \o <<Contained>> \o <<[op |-> "finish"]>>

CommitShape(p, S) ==
  /\ IsStack(p) /\ Len(p) \in Nat /\ Len(p) >= 3
  /\ p[1] = [op |-> "drain"] /\ p[Len(p)] = [op |-> "finish"]
  /\ p[Len(p) - 1] = Contained
  /\ \A i \in 2..(Len(p) - 1) :
       p[i] = Contained \/ \E n \in S : p[i] = [op |-> "schedule", node |-> n]

LEMMA CommitStack ==
  ASSUME NEW S, IsFiniteSet(S), NEW p, p = CommitTasks(S)
  PROVE  CommitShape(p, S)
<1> DEFINE d == <<[op |-> "drain"]>>
           e == Each("schedule", S)
           c == <<Contained>>
           f == <<[op |-> "finish"]>>
<1>1. /\ IsStack(e) /\ Len(e) \in Nat
      /\ \A i \in 1..Len(e) : \E n \in S : e[i] = [op |-> "schedule", node |-> n]
  <2>1. /\ IsStack(e)
        /\ \A i \in 1..Len(e) : \E n \in S : e[i] = [op |-> "schedule", node |-> n]
    BY EachFacts
  <2> HIDE DEF e
  <2>2. Len(e) \in Nat
    BY <2>1, StackFacts
  <2> QED
    BY <2>1, <2>2
<1>2. /\ IsStack(d) /\ Len(d) = 1 /\ d[1] = [op |-> "drain"]
      /\ IsStack(c) /\ Len(c) = 1 /\ c[1] = Contained
      /\ IsStack(f) /\ Len(f) = 1 /\ f[1] = [op |-> "finish"]
  BY StackOfOne
<1>3. p = ((d \o e) \o c) \o f
  BY DEF CommitTasks
<1> HIDE DEF d, e, c, f
<1> DEFINE q == d \o e
<1>4. /\ IsStack(q) /\ Len(q) = Len(d) + Len(e)
      /\ \A i \in 1..Len(d) : q[i] = d[i]
      /\ \A i \in 1..Len(e) : q[Len(d) + i] = e[i]
  <2>1. IsStack(d) /\ IsStack(e)
    BY <1>1, <1>2
  <2> QED
    BY <2>1, JoinedStack
<1> HIDE DEF q
<1> DEFINE r == q \o c
<1>5. /\ IsStack(r) /\ Len(r) = Len(q) + Len(c)
      /\ \A i \in 1..Len(q) : r[i] = q[i]
      /\ \A i \in 1..Len(c) : r[Len(q) + i] = c[i]
  <2>1. IsStack(q) /\ IsStack(c)
    BY <1>2, <1>4
  <2> QED
    BY <2>1, JoinedStack
<1> HIDE DEF r
<1>6. /\ IsStack(p) /\ Len(p) = Len(r) + Len(f)
      /\ \A i \in 1..Len(r) : p[i] = r[i]
      /\ \A i \in 1..Len(f) : p[Len(r) + i] = f[i]
  <2>1. IsStack(r) /\ IsStack(f) /\ p = r \o f
    BY <1>2, <1>3, <1>5 DEF r, q
  <2>2. /\ IsStack(r \o f) /\ Len(r \o f) = Len(r) + Len(f)
        /\ \A i \in 1..Len(r) : (r \o f)[i] = r[i]
        /\ \A i \in 1..Len(f) : (r \o f)[Len(r) + i] = f[i]
    BY <2>1, JoinedStack
  <2> QED
    BY <2>1, <2>2
<1>7. Len(q) = 1 + Len(e) /\ Len(r) = 2 + Len(e) /\ Len(p) = 3 + Len(e)
  BY <1>1, <1>2, <1>4, <1>5, <1>6
<1>8. p[1] = [op |-> "drain"]
  <2>1. 1 \in 1..Len(d) /\ 1 \in 1..Len(q) /\ 1 \in 1..Len(r)
    BY <1>1, <1>2, <1>7
  <2> QED
    BY <1>2, <1>4, <1>5, <1>6, <2>1
<1>9. p[Len(p)] = [op |-> "finish"]
  <2>1. 1 \in 1..Len(f) /\ Len(r) + 1 = Len(p)
    BY <1>1, <1>2, <1>7
  <2> QED
    BY <1>2, <1>6, <2>1
<1>10. p[Len(p) - 1] = Contained
  <2>1. 1 \in 1..Len(c) /\ Len(q) + 1 = Len(p) - 1 /\ Len(p) - 1 \in 1..Len(r)
    BY <1>1, <1>2, <1>7
  <2> QED
    BY <1>2, <1>5, <1>6, <2>1
<1>11. ASSUME NEW i \in 2..(Len(p) - 1), i # Len(p) - 1
       PROVE  \E n \in S : p[i] = [op |-> "schedule", node |-> n]
  <2>1. i - 1 \in 1..Len(e) /\ Len(d) + (i - 1) = i /\ i \in 1..Len(q) /\ i \in 1..Len(r)
    <3>1. i \in Int /\ 2 <= i /\ i < Len(p) - 1
      BY <1>1, <1>7, <1>11
    <3> QED
      BY <1>1, <1>2, <1>7, <3>1
  <2>2. p[i] = e[i - 1]
    BY <1>4, <1>5, <1>6, <2>1
  <2> QED
    BY <1>1, <2>1, <2>2
<1>12. IsStack(p) /\ Len(p) \in Nat /\ Len(p) >= 3
  BY <1>1, <1>6, <1>7
<1> QED
  BY <1>8, <1>9, <1>10, <1>11, <1>12 DEF CommitShape

LEMMA CommitFacts ==
  ASSUME IInv, At("commit"), NEW S \in SUBSET Nodes, requests' = requests,
         Do(CommitTasks(S))
  PROVE  /\ AgendaOK' /\ Pending("drain")' /\ Pending("finish")'
         /\ \A o \in Preparing \cup {"disposed", "quarantined"} : ~Pending(o)'
<1>1. /\ AgendaOK /\ agenda # << >>
      /\ \A o \in Phases \cup {"drain", "disposed"} : ~Below(o)
      /\ Len(agenda) >= 2 => Free(agenda[2])
  BY PreparedFacts DEF Preparing
<1>2. IsFiniteSet(S)
  BY RuntimeAssumption, FS_Subset
<1>3. PICK p : p = CommitTasks(S)
  OBVIOUS
<1>4. Do(p)
  BY <1>3
<1>5. /\ IsStack(p) /\ Len(p) \in Nat /\ Len(p) >= 3
      /\ p[1] = [op |-> "drain"] /\ p[Len(p)] = [op |-> "finish"]
      /\ p[Len(p) - 1] = Contained
      /\ \A i \in 2..(Len(p) - 1) :
           p[i] = Contained \/ \E n \in S : p[i] = [op |-> "schedule", node |-> n]
  <2>1. CommitShape(p, S)
    BY <1>2, <1>3, CommitStack
  <2> QED
    BY <2>1 DEF CommitShape
<1>6. \A i \in 1..Len(p) : i = 1 \/ i = Len(p) \/ i \in 2..(Len(p) - 1)
  BY <1>5
<1>7. \A i \in 2..(Len(p) - 1) :
        TaskOK(p[i], requests) /\ p[i].op \in {"contained", "schedule"} /\ Free(p[i])
  <2> SUFFICES ASSUME NEW i \in 2..(Len(p) - 1)
               PROVE  TaskOK(p[i], requests) /\ p[i].op \in {"contained", "schedule"} /\ Free(p[i])
    OBVIOUS
  <2>1. CASE p[i] = Contained
    BY <2>1 DEF Contained, TaskOK, Preparing, Free, HeadOnly, Protected, LastFact
  <2>2. ASSUME NEW n \in S, p[i] = [op |-> "schedule", node |-> n]
        PROVE  TaskOK(p[i], requests) /\ p[i].op \in {"contained", "schedule"} /\ Free(p[i])
    BY <2>2 DEF TaskOK, Preparing, Free, HeadOnly, Protected, LastFact
  <2> QED
    BY <1>5, <2>1, <2>2
<1>8. /\ TaskOK(p[1], requests) /\ TaskOK(p[Len(p)], requests)
      /\ p[1].op = "drain" /\ p[Len(p)].op = "finish"
  BY <1>5 DEF TaskOK, Preparing
<1>9. Replaces(p)
  <2>1. Typed(p, requests)
    BY <1>5, <1>6, <1>7, <1>8 DEF Typed
  <2>2. \A i \in 1..(Len(p) - 1) : Above(p[i], p[i + 1])
    <3> SUFFICES ASSUME NEW i \in 1..(Len(p) - 1) PROVE Above(p[i], p[i + 1])
      OBVIOUS
    <3>1. CASE i = Len(p) - 1
      <4>1. p[i] = Contained /\ p[i + 1] = [op |-> "finish"]
        BY <1>5, <3>1
      <4> QED
        BY <4>1 DEF Contained, Above, HeadOnly, Preparing, LastFact
    <3>2. CASE i # Len(p) - 1
      <4>1. i + 1 \in 2..(Len(p) - 1)
        BY <1>5, <3>2
      <4> QED
        BY <1>7, <4>1, FreeBelowAll
    <3> QED
      BY <3>1, <3>2
  <2>3. Len(p) >= 1 /\ Len(agenda) >= 2 => Above(p[Len(p)], agenda[2])
    BY <1>1, FreeBelowAll
  <2>4. \A ops \in {Phases, {"drain"}, {"disposed"}} : \A i \in 1..Len(p) : p[i].op \in ops =>
          /\ \A j \in 1..Len(p) : p[j].op \in ops => j = i
          /\ \A op \in ops : ~Below(op)
    <3>1. \A i \in 1..Len(p) : p[i].op \in Phases => i = Len(p)
      BY <1>6, <1>7, <1>8 DEF Phases, Preparing
    <3>2. \A i \in 1..Len(p) : p[i].op = "drain" => i = 1
      BY <1>6, <1>7, <1>8
    <3>3. \A i \in 1..Len(p) : p[i].op # "disposed"
      BY <1>6, <1>7, <1>8
    <3> QED
      BY <1>1, <3>1, <3>2, <3>3
  <2>5. \A i \in 1..Len(p) : p[i].op = "drain" => \E j \in (i + 1)..Len(p) : p[j].op = "finish"
    <3>1. \A i \in 1..Len(p) : p[i].op = "drain" => i = 1
      BY <1>6, <1>7, <1>8
    <3>2. Len(p) \in (1 + 1)..Len(p)
      BY <1>5
    <3> QED
      BY <1>8, <3>1, <3>2
  <2> QED
    BY <2>1, <2>2, <2>3, <2>4, <2>5 DEF Replaces
<1>10. /\ AgendaOK'
       /\ \A op : Pending(op)' <=> (\E i \in 1..Len(p) : p[i].op = op) \/ Below(op)
  BY <1>1, <1>4, <1>9, DoFacts
<1>11. Pending("drain")' /\ Pending("finish")'
  <2>1. 1 \in 1..Len(p) /\ Len(p) \in 1..Len(p)
    BY <1>5
  <2> QED
    BY <1>8, <1>10, <2>1
<1>12. \A o \in Preparing \cup {"disposed", "quarantined"} : ~Pending(o)'
  <2>1. \A i \in 1..Len(p) : p[i].op \in {"drain", "finish", "contained", "schedule"}
    BY <1>6, <1>7, <1>8
  <2>2. \A o \in Preparing \cup {"disposed", "quarantined"} :
          ~Below(o) /\ o \notin {"drain", "finish", "contained", "schedule"}
    BY <1>1 DEF Phases, Preparing
  <2> QED
    BY <1>10, <2>1, <2>2
<1> QED
  BY <1>10, <1>11, <1>12

(* The record of the update and the validations of removed nodes.           *)
LEMMA CommitGraphTypes ==
  ASSUME IInv, At("commit"), NEW changed, changed = Changed(savepoint.nodes, nodes),
         active' = Cancelled(Removed), contexts' \subseteq contexts,
         records' = records \/ (changed # {} /\ records' = Retain(records, revision, changed)),
         UNCHANGED <<nodes, revision, requests, answers, adapter, rendered>>
  PROVE  GraphTypes'
<1>1. /\ ~savepoint.settled /\ savepoint # None
      /\ \A other : At(other) <=> other = "commit"
  BY PreparedFacts DEF Preparing
<1>2. GraphTypes /\ requests \in Nat /\ revision \in Nat
  BY DEF IInv, GraphTypes
<1>3. /\ savepoint.revision \in Nat
      /\ changed # {} => savepoint.revision < revision
  BY <1>1 DEF IInv, Tentative
<1>4. active' \in [Nodes -> 0..requests]
  BY <1>2 DEF GraphTypes, Cancelled, NoRequest
<1>5. /\ IsFiniteSet(DOMAIN records') /\ Cardinality(DOMAIN records') <= Retention
      /\ DOMAIN records' \subseteq 1..revision
  <2>1. CASE records' = records
    BY <1>2, <2>1 DEF GraphTypes
  <2>2. CASE changed # {} /\ records' = Retain(records, revision, changed)
    <3>1. IsFiniteSet(DOMAIN records) /\ DOMAIN records \subseteq Nat /\ DOMAIN records \subseteq 1..revision
      BY <1>2 DEF GraphTypes
    <3>2. /\ IsFiniteSet(DOMAIN Retain(records, revision, changed))
          /\ Cardinality(DOMAIN Retain(records, revision, changed)) <= Retention
          /\ DOMAIN Retain(records, revision, changed) \subseteq DOMAIN records \cup {revision}
      BY <1>2, <3>1, RetainFacts
    <3>3. revision \in 1..revision
      BY <1>2, <1>3, <2>2
    <3> QED
      BY <2>2, <3>1, <3>2, <3>3
  <2> QED
    BY <2>1, <2>2
<1> QED
  BY <1>2, <1>4, <1>5 DEF GraphTypes

LEMMA CommitCandidateKeeps ==
  ASSUME IInv, CommitCandidate
  PROVE  IInv'
<1> DEFINE changed == Changed(savepoint.nodes, nodes)
<1>1. At("commit") /\ "commit" \in Preparing
  BY DEF CommitCandidate, Preparing
<1>2. /\ AgendaOK /\ agenda # << >>
      /\ savepoint # None /\ "settled" \in DOMAIN savepoint /\ ~savepoint.settled
      /\ ~unavailable /\ updating /\ lifecycle = "active" /\ HoldsBack
      /\ \A other : At(other) <=> other = "commit"
  BY <1>1, PreparedFacts
<1>3. /\ requests' = requests /\ UNCHANGED publisherVars
      /\ UNCHANGED <<lifecycle, nodes, revision, bindings, answers, adapter, document, rendered,
                     updating, unavailable, outbox>>
  BY DEF CommitCandidate, publisherVars
<1>4. /\ bindings = document /\ routes = {machine}
      /\ DOMAIN nodes = NodesOf[document] /\ DOMAIN rendered = NodesOf[document]
  BY <1>1, <1>2 DEF IInv, Tentative
<1>5. CASE /\ machine' = MachineOf[document]
           /\ routes' = (routes \ {machine}) \cup {MachineOf[document]}
           /\ CommitCoordination(<<[op |-> "finish"]>>)
           /\ UNCHANGED throws
  <2>1. /\ active' = Cancelled(Removed) /\ contexts' \subseteq contexts
        /\ records' = IF changed = {} THEN records ELSE Retain(records, revision, changed)
        /\ savepoint' = None
        /\ Do(CommitTasks(changed \cap Validated))
    BY <1>5 DEF CommitCoordination, CommitTasks
  <2>2. changed \cap Validated \in SUBSET Nodes
    BY RuntimeAssumption
  <2> HIDE DEF changed
  <2>3. /\ AgendaOK' /\ Pending("drain")' /\ Pending("finish")'
        /\ \A o \in Preparing \cup {"disposed", "quarantined"} : ~Pending(o)'
    BY <1>1, <1>3, <2>1, <2>2, CommitFacts
  <2>4. GraphTypes'
    <3>1. changed = Changed(savepoint.nodes, nodes)
      BY DEF changed
    <3>2. records' = records \/ (changed # {} /\ records' = Retain(records, revision, changed))
      BY <2>1
    <3> QED
      BY <1>1, <1>3, <2>1, <3>1, <3>2, CommitGraphTypes
  <2>5. ControlTypes' /\ Publication'
    BY <1>3, <1>5, SamePublication DEF IInv, ControlTypes
  <2>6. HeldBack'
    BY <1>2, <1>3, <2>1, <2>3 DEF HeldBack, HoldsBack
  <2>7. Phase'
    BY <1>2, <1>3, <2>3 DEF Phase, Phases
  <2>8. \A o \in Preparing : ~At(o)'
    BY <2>3, NothingPreparedNext
  <2>9. Coordinated'
    BY <2>1, <2>8 DEF Coordinated, None
  <2>10. Agreed'
    BY <1>3, <1>4, <1>5 DEF Agreed
  <2>11. Tentative'
    BY <2>1, NotTentative
  <2> QED
    BY <2>3, <2>4, <2>5, <2>6, <2>7, <2>9, <2>10, <2>11 DEF IInv, Control
<1>6. CASE /\ BreakCoordination /\ SelectorThrows
           /\ routes' = routes \ ({machine} \ {MachineOf[document]})
           /\ Do(<<Later("restore")>>)
           /\ UNCHANGED machine
  <2>1. /\ active' = Cancelled(Removed) /\ contexts' \subseteq contexts
        /\ changed # {} /\ records' = Retain(records, revision, changed)
        /\ savepoint' = [savepoint EXCEPT !.settled = TRUE]
        /\ throws' = throws + 1
    BY <1>6 DEF BreakCoordination, SelectorThrows
  <2> HIDE DEF changed
  <2>2. /\ AgendaOK'
        /\ \A o : At(o)' <=> "restore" = o
        /\ ~Pending("drain")' /\ ~Pending("disposed")' /\ ~Pending("quarantined")'
        /\ \E o \in Phases : Pending(o)'
    BY <1>1, <1>3, <1>6, LaterFacts DEF Preparing
  <2>3. GraphTypes'
    BY <1>1, <1>3, <2>1, CommitGraphTypes DEF changed
  <2>4. throws' \in Nat /\ throws' > 0
    BY <2>1 DEF IInv, ControlTypes
  <2>5. ControlTypes' /\ Publication'
    BY <1>3, <2>4, SamePublication DEF IInv, ControlTypes
  <2>6. "settled" \in DOMAIN savepoint' /\ savepoint'.settled = TRUE /\ savepoint' # None
    <3>1. DOMAIN savepoint' = DOMAIN savepoint /\ savepoint'.settled = TRUE
      BY <1>2, <2>1
    <3> QED
      BY <1>2, <3>1 DEF None
  <2>7. HeldBack'
    BY <1>2, <1>3, <2>2, <2>6 DEF HeldBack, HoldsBack, None
  <2>8. Phase'
    BY <1>2, <1>3, <2>2, <2>6 DEF Phase
  <2>9. Coordinated'
    BY <1>2, <1>3, <2>2, <2>4, <2>6 DEF Coordinated, None
  <2>10. Agreed'
    BY <2>6 DEF Agreed, None
  <2>11. Tentative'
    BY <2>6, NotTentative
  <2> QED
    BY <2>2, <2>3, <2>5, <2>7, <2>8, <2>9, <2>10, <2>11 DEF IInv, Control
<1> QED
  BY <1>5, <1>6 DEF CommitCandidate

-----------------------------------------------------------------------------
(* The inductive invariant holds in every state.                           *)

LEMMA InitInvariant ==
  ASSUME Init
  PROVE  IInv
<1>1. /\ document \in Documents /\ MachineOf[document] \in {MachineOf[document]}
      /\ NodesOf[document] \in SUBSET Nodes /\ IsFiniteSet(Nodes) /\ InitialValue \in Values
      /\ Retention \in Nat
  BY RuntimeAssumption, ApplicationAssumption DEF Init
<1> DEFINE s == << >>
<1>2. IsStack(s) /\ Len(s) = 0 /\ DOMAIN s = {}
  BY EmptyStack
<1>3. agenda = s /\ records = s /\ agenda = << >>
  BY DEF Init
<1>4. AgendaOK
  <2>1. /\ IsStack(agenda) /\ Len(agenda) = 0
    BY <1>2, <1>3
  <2> QED
    BY <2>1 DEF AgendaOK, Typed, Ordered, OnlyOne
<1>5. GraphTypes
  <2>1. DOMAIN records = {} /\ Cardinality({}) = 0 /\ IsFiniteSet({})
    BY <1>2, <1>3, FS_EmptySet
  <2>2. Fresh(InitialValue) \in ControlOf(requests)
    BY <1>1 DEF Init, Fresh, ControlOf, NoRequest, NoVerdict
  <2>3. DOMAIN nodes \subseteq Nodes /\ nodes \in [DOMAIN nodes -> ControlOf(requests)]
    BY <1>1, <2>2 DEF Init
  <2>4. active \in [Nodes -> 0..requests] /\ contexts \subseteq 1..requests
    BY DEF Init, NoRequest
  <2>5. DOMAIN rendered \subseteq Nodes
    BY <1>1 DEF Init, Page
  <2>6. adapter \in [Nodes -> Values] /\ requests \in Nat /\ revision \in Nat /\ answers = {}
    BY <1>1 DEF Init
  <2> QED
    BY <1>1, <2>1, <2>3, <2>4, <2>5, <2>6 DEF GraphTypes
<1>6. ControlTypes
  BY <1>1 DEF Init, ControlTypes
<1>7. Publication
  <2>1. outbox = [open |-> FALSE, facts |-> s] /\ sequence = 0 /\ delivered = 0
    BY DEF Init, Closed
  <2> HIDE DEF s
  <2>2. outbox.facts = s /\ outbox = [open |-> outbox.open, facts |-> outbox.facts]
    BY <2>1
  <2> QED
    BY <1>2, <2>1, <2>2 DEF Publication
<1>8. \A op : ~Pending(op)
  <2>1. Len(agenda) = 0
    BY <1>2, <1>3
  <2> QED
    BY <2>1 DEF Pending
<1>9. \A op : ~At(op)
  BY <1>3 DEF At
<1>10. HeldBack
  BY <1>8 DEF Init, HeldBack, HoldsBack, Closed, None
<1>11. Control
  <2>1. Phase
    BY <1>8 DEF Init, Phase
  <2>2. Coordinated
    BY <1>9 DEF Init, Coordinated
  <2>3. Agreed
    <3>1. DOMAIN nodes = NodesOf[document] /\ DOMAIN rendered = NodesOf[document]
      BY DEF Init, Page
    <3> QED
      BY <3>1 DEF Init, Agreed
  <2> QED
    BY <2>1, <2>2, <2>3 DEF Control
<1>12. Tentative
  BY DEF Init, Tentative
<1> QED
  BY <1>4, <1>5, <1>6, <1>7, <1>10, <1>11, <1>12 DEF IInv

LEMMA StutterKeeps ==
  ASSUME IInv, UNCHANGED vars
  PROVE  IInv'
<1>1. /\ UNCHANGED <<agenda, lifecycle, nodes, revision, records, savepoint, sequence, outbox,
                     delivered, routes, bindings, active, contexts, requests, answers, adapter,
                     throws, document, machine, rendered, updating, unavailable>>
  BY DEF vars, runtimeVars, applicationVars, storeVars, publisherVars, validationVars, observerVars
<1>2. AgendaOK'
  BY <1>1, AgendaNext DEF IInv, AgendaOK
<1>3. /\ \A op : Pending(op)' <=> Pending(op)
      /\ \A op : At(op)' <=> At(op)
      /\ Task' = Task
  BY <1>1 DEF Pending, At, Task
<1>4. GraphTypes' /\ ControlTypes' /\ Publication'
  BY <1>1 DEF IInv, GraphTypes, ControlTypes, Publication
<1>5. HeldBack'
  BY <1>1, <1>3 DEF IInv, HeldBack, HoldsBack, Closed, None
<1>6. Phase' /\ Coordinated' /\ Agreed'
  BY <1>1, <1>3 DEF IInv, Control, Phase, Coordinated, Agreed, None
<1>7. Tentative'
  BY <1>1, <1>3 DEF IInv, Tentative, None
<1> QED
  BY <1>2, <1>4, <1>5, <1>6, <1>7 DEF IInv, Control

LEMMA RuntimeKeeps ==
  ASSUME IInv, RuntimeNext
  PROVE  IInv' /\ (delivered' # delivered => delivered' = delivered + 1)
<1>1. UNCHANGED applicationVars
  BY DEF RuntimeNext
<1>2. CASE EmitFact
  BY <1>1, <1>2, EmitKeeps
<1>3. CASE DrainFact
  BY <1>1, <1>3, DrainKeeps
<1>4. CASE Observe
  BY <1>1, <1>4, ObserveKeeps DEF Observe, publisherVars
<1>5. CASE ExecuteCommand
  BY <1>1, <1>5, ExecuteKeeps DEF ExecuteCommand, publisherVars
<1>6. CASE Settle
  BY <1>1, <1>6, SettleKeeps DEF Settle, publisherVars
<1>7. CASE Resume
  BY <1>1, <1>7, ResumeKeeps DEF Resume, publisherVars
<1>8. CASE RequestWrite
  BY <1>1, <1>8, RequestWriteKeeps DEF RequestWrite, publisherVars
<1>9. CASE WriteStore
  BY <1>1, <1>9, WriteStoreKeeps DEF WriteStore, publisherVars
<1>10. CASE ScheduleValidation
  BY <1>1, <1>10, ScheduleKeeps DEF ScheduleValidation, publisherVars
<1>11. CASE StartValidation
  BY <1>1, <1>11, StartKeeps DEF StartValidation, publisherVars
<1>12. CASE LaunchValidation
  BY <1>1, <1>12, LaunchKeeps DEF LaunchValidation, publisherVars
<1>13. CASE FinishDisposal
  BY <1>1, <1>13, FinishDisposalKeeps DEF FinishDisposal, publisherVars
<1>14. ASSUME NEW answer \in answers, NEW verdict \in Values \cup {NoVerdict},
              AnswerValidation(answer, verdict)
       PROVE  IInv' /\ delivered' = delivered
  BY <1>1, <1>14, AnswerKeeps DEF AnswerValidation, publisherVars
<1>15. \A answer \in answers : answer.value \in Values
  BY DEF IInv, GraphTypes
<1> QED
  BY <1>2, <1>3, <1>4, <1>5, <1>6, <1>7, <1>8, <1>9, <1>10, <1>11, <1>12, <1>13, <1>14, <1>15
     DEF RuntimeNext

LEMMA ApplicationKeeps ==
  ASSUME IInv, ApplicationNext
  PROVE  IInv' /\ delivered' = delivered
<1>1. CASE ProjectFact
  BY <1>1, ProjectKeeps DEF ProjectFact, publisherVars
<1>2. CASE BeginUpdate
  BY <1>2, BeginUpdateKeeps DEF BeginUpdate, publisherVars
<1>3. CASE RenderCandidate
  BY <1>3, RenderCandidateKeeps DEF RenderCandidate, publisherVars
<1>4. CASE CommitCandidate
  BY <1>4, CommitCandidateKeeps DEF CommitCandidate, publisherVars
<1>5. CASE FinishUpdate
  BY <1>5, FinishUpdateKeeps DEF FinishUpdate, publisherVars
<1>6. CASE GiveUpCandidate
  BY <1>6, GiveUpCandidateKeeps DEF GiveUpCandidate
<1>7. CASE RestoreCandidate
  BY <1>7, RestoreCandidateKeeps DEF RestoreCandidate
<1>8. CASE FailToRestore
  BY <1>8, FailToRestoreKeeps DEF FailToRestore, publisherVars
<1>9. CASE Quarantine
  BY <1>9, QuarantineKeeps DEF Quarantine, publisherVars
<1>10. CASE DisposeApplication
  BY <1>10, DisposeApplicationKeeps DEF DisposeApplication, publisherVars
<1>11. CASE ObserveStructurally
  BY <1>11, ObserveStructurallyKeeps DEF ObserveStructurally, publisherVars
<1>12. ASSUME NEW n \in Nodes, NEW v \in Values, Input(n, v)
       PROVE  IInv' /\ delivered' = delivered
  BY <1>12, InputKeeps DEF Input, Call, publisherVars
<1>13. CASE \/ \E d \in Documents : Call(<<Update(d)>>)
            \/ Call(<<[op |-> "dispose"]>>)
  BY <1>13, HostCallKeeps DEF Call, publisherVars
<1> QED
  BY <1>1, <1>2, <1>3, <1>4, <1>5, <1>6, <1>7, <1>8, <1>9, <1>10, <1>11, <1>12, <1>13
     DEF ApplicationNext

(* The inductive invariant: what the agenda holds and in which order, the   *)
(* numbers of facts, and what an open coordination would restore (dispatch, *)
(* coordination and update of runtime.ts and application.ts).               *)
THEOREM Invariance == Spec => []IInv
<1>1. Init => IInv
  BY InitInvariant
<1>2. IInv /\ [Next]_vars => IInv'
  BY StutterKeeps, RuntimeKeeps, ApplicationKeeps DEF Next
<1> QED
  BY <1>1, <1>2, PTL DEF Spec

(* Observers are handed every fact, in the order of their numbers: also     *)
(* facts a coordination held back, also when an observer calls back into    *)
(* the runtime while they are handed out, and although the numbers of a     *)
(* discarded coordination are given again.                                  *)
THEOREM DeliveredInOrder == Spec => FactsInOrder
<1>1. IInv /\ [Next]_vars => [delivered' # delivered => delivered' = delivered + 1]_vars
  BY RuntimeKeeps, ApplicationKeeps DEF Next
<1> QED
  BY <1>1, Invariance, PTL DEF Spec, FactsInOrder

(* When the thread is at rest every surface of an available application     *)
(* shows the same document, after every successful, refused or failed       *)
(* update; without a throwing selector an unavailable one has disposed of   *)
(* its runtime.                                                             *)
THEOREM SurfacesCorrect == Spec => []SurfacesAgree
<1>1. ASSUME IInv, AtRest
      PROVE  TypeOK
  <2>1. /\ GraphTypes /\ ControlTypes /\ Publication
    BY <1>1 DEF IInv
  <2>2. ControlType = ControlOf(requests)
    BY DEF ControlType, ControlOf
  <2>3. \A n \in DOMAIN nodes : nodes[n] \in ControlType
    BY <2>1, <2>2 DEF GraphTypes
  <2>4. \A r \in DOMAIN records : r \in 1..revision
    BY <2>1 DEF GraphTypes
  <2> QED
    BY <2>1, <2>3, <2>4 DEF TypeOK, GraphTypes, ControlTypes, Publication
<1>2. ASSUME IInv, AtRest
      PROVE  /\ \A op : ~At(op) /\ ~Pending(op)
             /\ ~updating
             /\ savepoint # None => throws > 0 /\ unavailable
             /\ savepoint = None => outbox = Closed
  <2> DEFINE s == << >>
  <2>1. agenda = s /\ agenda = << >> /\ Len(s) = 0
    BY <1>2, EmptyStack DEF AtRest
  <2>2. \A op : ~At(op)
    BY <2>1 DEF At
  <2>3. \A op : ~Pending(op)
    <3>1. Len(agenda) = 0
      BY <2>1
    <3> QED
      BY <3>1 DEF Pending
  <2>4. Phase /\ Coordinated /\ HeldBack
    BY <1>2 DEF IInv, Control
  <2>5. ~updating
    BY <2>3, <2>4 DEF Phase
  <2>6. savepoint # None => throws > 0 /\ unavailable
    BY <2>2, <2>4 DEF Coordinated
  <2>7. savepoint = None => outbox = Closed
    BY <2>3, <2>4 DEF HeldBack
  <2> QED
    BY <2>2, <2>3, <2>5, <2>6, <2>7
<1>3. IInv => SurfacesAgree
  <2> SUFFICES ASSUME IInv, AtRest
               PROVE  /\ TypeOK
                      /\ ~unavailable =>
                           /\ lifecycle = "active" /\ savepoint = None /\ outbox = Closed /\ ~updating
                           /\ DOMAIN nodes = NodesOf[document]
                           /\ DOMAIN rendered = NodesOf[document]
                           /\ bindings = document
                           /\ machine = MachineOf[document] /\ routes = {machine}
                      /\ unavailable /\ throws = 0 => Quarantined
    BY DEF SurfacesAgree
  <2>1. Phase /\ Agreed /\ ControlTypes
    BY DEF IInv, Control
  <2>2. ~updating
    BY <1>2
  <2>3. ASSUME ~unavailable
        PROVE  /\ lifecycle = "active" /\ savepoint = None /\ outbox = Closed
               /\ DOMAIN nodes = NodesOf[document]
               /\ DOMAIN rendered = NodesOf[document]
               /\ bindings = document
               /\ machine = MachineOf[document] /\ routes = {machine}
    <3>1. lifecycle = "active"
      BY <2>1, <2>3 DEF Phase, ControlTypes
    <3>2. savepoint = None /\ outbox = Closed
      BY <1>2, <2>3
    <3> QED
      BY <1>2, <2>1, <2>3, <3>1, <3>2 DEF Agreed
  <2>4. ASSUME unavailable, throws = 0
        PROVE  Quarantined
    <3>1. savepoint = None
      BY <1>2, <2>4
    <3> QED
      BY <1>2, <2>1, <2>4, <3>1 DEF Phase, Quarantined
  <2> QED
    BY <1>1, <2>2, <2>3, <2>4
<1> QED
  BY <1>3, Invariance, PTL

-----------------------------------------------------------------------------
(* Verdicts.  A validator judges the value it was handed.  If the value     *)
(* changes before it answers, a task that validates the control anew is on  *)
(* the agenda, and no exception drops it while the application is active.   *)

\* The task is about to name this request to its control, or to launch it.
Names(task, r) ==
  \/ task.op = "launch" /\ task.request = r
  \/ task.op = "execute" /\ task.command.type = "start" /\ task.command.request = r

Resolves(task) == task.op = "execute" /\ task.command.type = "resolve"

\* Only controls with validators are validated.
ForValidated(task) ==
  /\ task.op \in {"schedule", "start", "launch"} => task.node \in Validated
  /\ task.op = "settle" =>
       \A i \in 1..Len(task.work) : task.work[i].op = "schedule" => task.work[i].node \in Validated

Modest(task) ==
  /\ ForValidated(task) /\ task.op # "launch"
  /\ task.op = "execute" => task.command.type \notin {"start", "resolve"}

\* A request is named before it is launched, launched once, and answered later
\* (A: the answers that may come); an answer is taken at once.
Asked(s, A) ==
  /\ \A i \in 1..Len(s) : ForValidated(s[i])
  /\ \A i \in 1..Len(s) : Resolves(s[i]) => i = 1
  /\ \A i, j \in 1..Len(s) : s[i].op = "launch" /\ Names(s[j], s[i].request) => j <= i
  /\ \A i \in 1..Len(s) : \A x \in A : ~Names(s[i], x.request)

NoneResolves(s) == \A i \in 1..Len(s) : ~Resolves(s[i])

\* Tasks that throw in a disposed application only.
Quiet(task) == task.op \in {"emit", "project", "observe", "contained", "write", "perform"}

\* Every task of p is quiet or shielded by one below it.
Tame(p) == \A j \in 1..Len(p) : Quiet(p[j]) \/ \E c \in (j + 1)..Len(p) : p[c].op = "contained"

\* No exception of the tasks above it drops the i-th one.
Shielded(s, i) ==
  \A j \in 1..(i - 1) : Quiet(s[j]) \/ \E c \in (j + 1)..(i - 1) : s[c].op = "contained"

Schedules(task, n) == task.op = "schedule" /\ task.node = n

Reschedules(task, n) ==
  \/ Schedules(task, n)
  \/ /\ task.op = "settle"
     /\ \E j \in 1..Len(task.work) :
          Schedules(task.work[j], n) /\ \A k \in 1..(j - 1) : Quiet(task.work[k])

Owed(s, n) == \E i \in 1..Len(s) : Reschedules(s[i], n) /\ Shielded(s, i)

(* What an agenda has asked for, after some of its tasks were replaced.     *)
LEMMA AskedRest ==
  ASSUME NEW s, NEW t, NEW h, NEW k, NEW A, Len(s) \in Nat, Rest(s, t, h, k), Asked(s, A),
         h = 0 => NoneResolves(s), \A j \in 1..k : Modest(t[j])
  PROVE  Asked(t, A) /\ NoneResolves(t)
<1>1. h \in 0..Len(s) /\ k \in Nat /\ Len(t) = k + (Len(s) - h)
  BY DEF Rest
<1> DEFINE d(j) == (j - k) + h
<1>2. \A j \in 1..Len(t) : j \in 1..k \/ (j \in (k + 1)..Len(t) /\ t[j] = s[d(j)] /\ d(j) \in 1..Len(s)
                                          /\ (d(j) = 1 => h = 0))
  BY <1>1 DEF Rest
<1>3. \A i, j \in (k + 1)..Len(t) : d(j) <= d(i) => j <= i
  BY <1>1
<1> HIDE DEF d
<1>4. \A j \in 1..k : ForValidated(t[j]) /\ ~Resolves(t[j]) /\ t[j].op # "launch" /\ \A r : ~Names(t[j], r)
  BY DEF Modest, Resolves, Names
<1>5. \A j \in 1..Len(t) : ForValidated(t[j]) /\ ~Resolves(t[j])
  BY <1>2, <1>4 DEF Asked, NoneResolves
<1>6. ASSUME NEW i \in 1..Len(t), NEW j \in 1..Len(t), t[i].op = "launch", Names(t[j], t[i].request)
      PROVE  j <= i
  <2>1. i \notin 1..k /\ j \notin 1..k
    BY <1>4, <1>6
  <2>2. /\ i \in (k + 1)..Len(t) /\ t[i] = s[d(i)] /\ d(i) \in 1..Len(s)
        /\ j \in (k + 1)..Len(t) /\ t[j] = s[d(j)] /\ d(j) \in 1..Len(s)
    BY <1>2, <2>1
  <2>3. d(j) <= d(i)
    BY <1>6, <2>2 DEF Asked
  <2> QED
    BY <1>3, <2>2, <2>3
<1>7. \A i \in 1..Len(t) : \A x \in A : ~Names(t[i], x.request)
  BY <1>2, <1>4 DEF Asked
<1>8. NoneResolves(t)
  BY <1>5 DEF NoneResolves
<1> QED
  BY <1>5, <1>6, <1>7, <1>8 DEF Asked

LEMMA ShieldedRest ==
  ASSUME NEW s, NEW t, NEW h, NEW k, Len(s) \in Nat, Rest(s, t, h, k),
         NEW i \in (h + 1)..Len(s), Shielded(s, i),
         \/ \E c \in (h + 1)..(i - 1) : s[c].op = "contained"
         \/ \A j \in 1..k : Quiet(t[j]) \/ \E c \in (j + 1)..k : t[c].op = "contained"
  PROVE  (i - h) + k \in 1..Len(t) /\ t[(i - h) + k] = s[i] /\ Shielded(t, (i - h) + k)
<1>1. h \in 0..Len(s) /\ k \in Nat /\ Len(t) = k + (Len(s) - h)
  BY DEF Rest
<1> DEFINE e(c) == (c - h) + k
           d(j) == (j - k) + h
<1>2. e(i) \in 1..Len(t) /\ t[e(i)] = s[i]
  <2>1. i \in Int /\ h + 1 <= i /\ i <= Len(s) /\ h \in Nat /\ k \in Nat
    BY <1>1
  <2>2. e(i) \in 1..Len(t)
    BY <1>1, <2>1
  <2>3. t[e(i)] = s[i]
    BY DEF Rest
  <2> QED
    BY <2>2, <2>3
<1>3. \A c \in (h + 1)..(i - 1) : t[e(c)] = s[c] /\ e(c) \in (k + 1)..(e(i) - 1)
  BY <1>1 DEF Rest
<1>4. \A j \in (k + 1)..(e(i) - 1) : t[j] = s[d(j)] /\ d(j) \in (h + 1)..(i - 1)
  <2> SUFFICES ASSUME NEW j \in (k + 1)..(e(i) - 1)
               PROVE  t[j] = s[d(j)] /\ d(j) \in (h + 1)..(i - 1)
    OBVIOUS
  <2>1. i \in Int /\ h \in Nat /\ k \in Nat /\ j \in Int /\ i <= Len(s)
    BY <1>1
  <2>2. k + 1 <= j /\ j + 1 <= (i - h) + k
    BY <2>1
  <2>3. j \in (k + 1)..Len(t) /\ d(j) \in (h + 1)..(i - 1)
    BY <1>1, <2>1, <2>2
  <2> QED
    BY <2>3 DEF Rest
<1>5. \A j \in (k + 1)..(e(i) - 1) : \A c \in (d(j) + 1)..(i - 1) :
        c \in (h + 1)..(i - 1) /\ e(c) \in (j + 1)..(e(i) - 1)
  <2> SUFFICES ASSUME NEW j \in (k + 1)..(e(i) - 1), NEW c \in (d(j) + 1)..(i - 1)
               PROVE  c \in (h + 1)..(i - 1) /\ e(c) \in (j + 1)..(e(i) - 1)
    OBVIOUS
  <2>1. i \in Int /\ h \in Int /\ k \in Int /\ j \in Int /\ c \in Int
    BY <1>1
  <2>2. k + 1 <= j /\ (j - k) + (h + 1) <= c /\ c + 1 <= i
    BY <2>1
  <2>3. h + 1 <= c /\ j + 1 <= (c - h) + k /\ (c - h) + k + 1 <= (i - h) + k
    BY <2>1, <2>2
  <2> QED
    BY <2>1, <2>2, <2>3
<1>6. e(i) \in Nat /\ k + 1 <= e(i)
  BY <1>1
<1> HIDE DEF e, d
<1>7. ASSUME NEW j \in 1..(e(i) - 1)
      PROVE  Quiet(t[j]) \/ \E c \in (j + 1)..(e(i) - 1) : t[c].op = "contained"
  <2>1. CASE j <= k
    <3>1. CASE \E c \in (h + 1)..(i - 1) : s[c].op = "contained"
      <4>1. PICK c \in (h + 1)..(i - 1) : s[c].op = "contained"
        BY <3>1
      <4>2. e(c) \in (k + 1)..(e(i) - 1) /\ t[e(c)].op = "contained"
        BY <1>3, <4>1
      <4>3. e(c) \in (j + 1)..(e(i) - 1)
        BY <1>1, <1>6, <2>1, <4>2
      <4> QED
        BY <4>2, <4>3
    <3>2. CASE \A m \in 1..k : Quiet(t[m]) \/ \E c \in (m + 1)..k : t[c].op = "contained"
      <4>1. j \in 1..k
        BY <1>1, <2>1
      <4>2. Quiet(t[j]) \/ \E c \in (j + 1)..k : t[c].op = "contained"
        BY <3>2, <4>1
      <4>3. \A c \in (j + 1)..k : c \in (j + 1)..(e(i) - 1)
        BY <1>1, <1>6
      <4> QED
        BY <4>2, <4>3
    <3> QED
      BY <3>1, <3>2
  <2>2. CASE ~(j <= k)
    <3>1. j \in (k + 1)..(e(i) - 1)
      BY <1>1, <1>6, <2>2
    <3>2. t[j] = s[d(j)] /\ d(j) \in (h + 1)..(i - 1)
      BY <1>4, <3>1
    <3>3. d(j) \in 1..(i - 1)
      BY <1>1, <3>2
    <3>4. Quiet(s[d(j)]) \/ \E c \in (d(j) + 1)..(i - 1) : s[c].op = "contained"
      BY <3>3 DEF Shielded
    <3>5. ASSUME NEW c \in (d(j) + 1)..(i - 1), s[c].op = "contained"
          PROVE  \E b \in (j + 1)..(e(i) - 1) : t[b].op = "contained"
      BY <1>3, <1>5, <3>1, <3>5
    <3> QED
      BY <3>2, <3>4, <3>5
  <2> QED
    BY <2>1, <2>2
<1>8. Shielded(t, e(i))
  BY <1>7 DEF Shielded
<1> QED
  BY <1>2, <1>8 DEF e

LEMMA OwedRest ==
  ASSUME NEW s, NEW t, NEW h, NEW k, NEW n, Len(s) \in Nat, Rest(s, t, h, k), Owed(s, n),
         \A i \in 1..Len(s) : Reschedules(s[i], n) /\ Shielded(s, i) =>
           /\ i > h
           /\ \/ \E c \in (h + 1)..(i - 1) : s[c].op = "contained"
              \/ \A j \in 1..k : Quiet(t[j]) \/ \E c \in (j + 1)..k : t[c].op = "contained"
  PROVE  Owed(t, n)
<1>1. PICK i \in 1..Len(s) : Reschedules(s[i], n) /\ Shielded(s, i)
  BY DEF Owed
<1>2. h \in Nat
  BY DEF Rest
<1>3. i \in (h + 1)..Len(s)
  BY <1>1, <1>2
<1>4. \/ \E c \in (h + 1)..(i - 1) : s[c].op = "contained"
      \/ \A j \in 1..k : Quiet(t[j]) \/ \E c \in (j + 1)..k : t[c].op = "contained"
  BY <1>1
<1>5. (i - h) + k \in 1..Len(t) /\ t[(i - h) + k] = s[i] /\ Shielded(t, (i - h) + k)
  BY <1>1, <1>3, <1>4, ShieldedRest
<1> QED
  BY <1>1, <1>5 DEF Owed

(* A task that may throw is above a shield of whatever is owed.             *)
LEMMA ShieldBelow ==
  ASSUME NEW s, NEW i \in 1..Len(s), Len(s) \in Nat, NEW n, Reschedules(s[i], n), Shielded(s, i),
         ~Reschedules(s[1], n)
  PROVE  i > 1 /\ (Quiet(s[1]) \/ \E c \in 2..(i - 1) : s[c].op = "contained")
<1>1. i > 1
  BY DEF Reschedules
<1>2. 1 \in 1..(i - 1)
  BY <1>1
<1> QED
  BY <1>1, <1>2 DEF Shielded

LEMMA OwedPush ==
  ASSUME NEW s, NEW p, NEW n, IsStack(s), IsStack(p), s # << >>, Owed(s, n),
         ~Reschedules(s[1], n), ~Quiet(s[1]) \/ Tame(p)
  PROVE  Owed(p \o Tail(s), n)
<1> DEFINE t == p \o Tail(s)
           k == Len(p)
<1>1. Rest(s, t, 1, k) /\ \A i \in 1..k : t[i] = p[i]
  BY Pushing
<1>2. Len(s) \in Nat /\ k \in Nat
  BY StackFacts
<1> HIDE DEF t
<1>3. ASSUME NEW i \in 1..Len(s), Reschedules(s[i], n), Shielded(s, i)
      PROVE  /\ i > 1
             /\ \/ \E c \in (1 + 1)..(i - 1) : s[c].op = "contained"
                \/ \A j \in 1..k : Quiet(t[j]) \/ \E c \in (j + 1)..k : t[c].op = "contained"
  <2>1. i > 1 /\ (Quiet(s[1]) \/ \E c \in 2..(i - 1) : s[c].op = "contained")
    BY <1>2, <1>3, ShieldBelow
  <2>2. ASSUME Tame(p)
        PROVE  \A j \in 1..k : Quiet(t[j]) \/ \E c \in (j + 1)..k : t[c].op = "contained"
    <3>1. \A j \in 1..k : \A c \in (j + 1)..k : c \in 1..k
      BY <1>2
    <3> QED
      BY <1>1, <2>2, <3>1 DEF Tame
  <2> QED
    BY <2>1, <2>2
<1>4. Owed(t, n)
  BY <1>1, <1>2, <1>3, OwedRest
<1> QED
  BY <1>4 DEF t

LEMMA OwedPrepend ==
  ASSUME NEW s, NEW p, NEW n, IsStack(s), IsStack(p), Owed(s, n), ~Reschedules(s[1], n), ~Quiet(s[1])
  PROVE  Owed(p \o s, n)
<1> DEFINE t == p \o s
           k == Len(p)
<1>1. Rest(s, t, 0, k)
  BY Prepending
<1>2. Len(s) \in Nat
  BY StackFacts
<1> HIDE DEF t
<1>3. ASSUME NEW i \in 1..Len(s), Reschedules(s[i], n), Shielded(s, i)
      PROVE  i > 0 /\ \E c \in (0 + 1)..(i - 1) : s[c].op = "contained"
  <2>1. i > 1 /\ \E c \in 2..(i - 1) : s[c].op = "contained"
    BY <1>2, <1>3, ShieldBelow
  <2> QED
    BY <2>1
<1>4. Owed(t, n)
  BY <1>1, <1>2, <1>3, OwedRest
<1> QED
  BY <1>4 DEF t

LEMMA OwedAbove ==
  ASSUME NEW p, NEW q, NEW n, IsStack(p), IsStack(q), Owed(p, n)
  PROVE  Owed(p \o q, n)
<1> DEFINE t == p \o q
<1>1. /\ Len(t) = Len(p) + Len(q) /\ Len(p) \in Nat /\ Len(q) \in Nat
      /\ \A i \in 1..Len(p) : t[i] = p[i]
  BY JoinedStack, StackFacts
<1> HIDE DEF t
<1>2. PICK i \in 1..Len(p) : Reschedules(p[i], n) /\ Shielded(p, i)
  BY DEF Owed
<1>3. \A j \in 1..i : j \in 1..Len(p)
  BY <1>1
<1>4. i \in 1..Len(t) /\ \A j \in 1..(i - 1) : j \in 1..i
  BY <1>1
<1>5. \A j \in 1..(i - 1) : \A c \in (j + 1)..(i - 1) : c \in 1..i
  BY <1>1
<1>6. Shielded(t, i)
  BY <1>1, <1>2, <1>3, <1>4, <1>5 DEF Shielded
<1>7. Owed(t, n)
  BY <1>1, <1>2, <1>4, <1>6 DEF Owed
<1> QED
  BY <1>7 DEF t

LEMMA OwedBelow ==
  ASSUME NEW p, NEW q, NEW n, IsStack(p), IsStack(q), \A i \in 1..Len(p) : Quiet(p[i]), Owed(q, n)
  PROVE  Owed(p \o q, n)
<1> DEFINE t == p \o q
           k == Len(p)
<1>1. Rest(q, t, 0, k) /\ \A i \in 1..k : t[i] = p[i]
  BY Prepending
<1>2. Len(q) \in Nat
  BY StackFacts
<1> HIDE DEF t
<1>3. \A i \in 1..Len(q) : i > 0
  OBVIOUS
<1>4. \A j \in 1..k : Quiet(t[j])
  BY <1>1
<1>5. Owed(t, n)
  BY <1>1, <1>2, <1>3, <1>4, OwedRest
<1> QED
  BY <1>5 DEF t

LEMMA OwedUnwound ==
  ASSUME NEW s, NEW t, NEW h, NEW k, NEW n, IsStack(s), UnwoundTo(s, t, h, k), Owed(s, n),
         ~Reschedules(s[1], n), ~Quiet(s[1])
  PROVE  Owed(t, n)
<1>1. /\ Len(s) \in Nat /\ Rest(s, t, h, k) /\ h \in 1..Len(s)
      /\ \A j \in 2..(h - 1) : s[j].op \notin {"contained", "rejecting"}
  BY StackFacts DEF UnwoundTo
<1>2. ASSUME NEW i \in 1..Len(s), Reschedules(s[i], n), Shielded(s, i)
      PROVE  /\ i > h
             /\ \/ \E c \in (h + 1)..(i - 1) : s[c].op = "contained"
                \/ \A j \in 1..k : Quiet(t[j]) \/ \E c \in (j + 1)..k : t[c].op = "contained"
  <2>1. PICK c \in 2..(i - 1) : s[c].op = "contained"
    BY <1>1, <1>2, ShieldBelow
  <2>2. c >= h
    BY <1>1, <2>1
  <2>3. i > h
    BY <1>1, <2>1, <2>2
  <2>4. CASE c > h
    <3>1. c \in (h + 1)..(i - 1)
      BY <1>1, <2>1, <2>4
    <3> QED
      BY <2>1, <2>3, <3>1
  <2>5. CASE c = h
    <3>1. h \in 2..h
      BY <1>1, <2>1, <2>5
    <3>2. k = 0
      BY <2>1, <2>5, <3>1 DEF UnwoundTo
    <3>3. \A j \in 1..k : FALSE
      BY <3>2
    <3> QED
      BY <2>3, <3>3
  <2> QED
    BY <1>1, <2>1, <2>2, <2>4, <2>5
<1> QED
  BY <1>1, <1>2, OwedRest

\* No verdict is about a value that the control no longer has.
FreshVerdicts(graph) == \A n \in DOMAIN graph : graph[n].verdict \in {graph[n].value, NoVerdict}

\* A validator that may still be heard judges the value its control has, or the
\* control will be validated anew.
Followed(graph, s, current, A) ==
  \A x \in A :
    x.node \in DOMAIN graph /\ current[x.node] = x.request /\ graph[x.node].request = x.request =>
      graph[x.node].value = x.value \/ Owed(s, x.node)

Honest(command) ==
  command.type = "resolve" /\ command.node \in DOMAIN nodes
    /\ nodes[command.node].request = command.request =>
      command.verdict \in {nodes[command.node].value, NoVerdict}

Judging ==
  /\ Followed(nodes, agenda, active, answers)
  /\ savepoint # None => Followed(savepoint.nodes, agenda, active, answers)
  /\ At("execute") => Honest(Task.command)

Verdicts ==
  /\ Asked(agenda, answers)
  /\ \A x \in answers : x.node \in Validated
  /\ throws = 0 =>
       /\ FreshVerdicts(nodes)
       /\ savepoint # None => FreshVerdicts(savepoint.nodes)
       /\ lifecycle = "active" => Judging

LEMMA FollowedLater ==
  ASSUME NEW graph, NEW s, NEW t, NEW current, NEW later, NEW A, NEW B,
         Followed(graph, s, current, A), B \subseteq A,
         \A x \in B : later[x.node] = x.request => current[x.node] = x.request,
         \A x \in B : Owed(s, x.node) => Owed(t, x.node)
  PROVE  Followed(graph, t, later, B)
BY DEF Followed

\* The agenda is not empty, and its first task schedules nothing.
Passing == agenda # << >> /\ \A n : ~Reschedules(agenda[1], n)

\* A step that changes neither controls nor validations.
Same ==
  /\ UNCHANGED <<nodes, active, answers, savepoint, lifecycle>>
  /\ throws \in Nat /\ throws' \in Nat /\ throws <= throws'

LEMMA NothingResolved ==
  ASSUME IsStack(agenda'), NoneResolves(agenda'), At("execute")'
  PROVE  Honest(Task.command)'
<1> DEFINE t == agenda'
<1>1. t # << >> /\ Head(t).op = "execute"
  BY DEF At, Task
<1>2. Head(t) = t[1] /\ Len(t) \in Nat /\ Len(t) # 0
  BY <1>1, StackFacts
<1>3. 1 \in 1..Len(t)
  BY <1>2
<1>4. ~Resolves(Head(t))
  BY <1>2, <1>3 DEF NoneResolves
<1>5. Head(t).command.type # "resolve"
  BY <1>1, <1>4 DEF Resolves
<1> QED
  BY <1>5 DEF Honest, Task

LEMMA SameVerdicts ==
  ASSUME Verdicts, Same, IsStack(agenda'), Asked(agenda', answers), NoneResolves(agenda'),
         throws' = 0 /\ lifecycle = "active" => \A n : Owed(agenda, n) => Owed(agenda', n)
  PROVE  Verdicts'
<1>1. throws' = 0 => throws = 0
  BY DEF Same
<1>2. UNCHANGED <<nodes, active, answers, savepoint, lifecycle>>
  BY DEF Same
<1>3. ASSUME throws' = 0, lifecycle' = "active"
      PROVE  Judging'
  <2>1. Judging /\ \A n : Owed(agenda, n) => Owed(agenda', n)
    BY <1>1, <1>2, <1>3 DEF Verdicts
  <2>2. Followed(nodes, agenda', active, answers)
    BY <2>1, FollowedLater DEF Judging
  <2>3. savepoint # None => Followed(savepoint.nodes, agenda', active, answers)
    BY <2>1, FollowedLater DEF Judging
  <2>4. At("execute")' => Honest(Task.command)'
    BY NothingResolved
  <2> QED
    BY <1>2, <2>2, <2>3, <2>4 DEF Judging, None
<1>4. throws' = 0 => FreshVerdicts(nodes') /\ (savepoint' # None => FreshVerdicts(savepoint'.nodes))
  BY <1>1, <1>2 DEF Verdicts
<1> QED
  BY <1>2, <1>3, <1>4 DEF Verdicts, None

\* A stack of tasks that name no request.
Bidden(p) == IsStack(p) /\ \A i \in 1..Len(p) : Modest(p[i])

LEMMA AgendaStack == ASSUME IInv PROVE IsStack(agenda) /\ Len(agenda) \in Nat /\ throws \in Nat
BY StackFacts DEF IInv, AgendaOK, Typed, ControlTypes

LEMMA PushAsked ==
  ASSUME NEW s, NEW p, NEW A, IsStack(s), s # << >>, Bidden(p), Asked(s, A)
  PROVE  IsStack(p \o Tail(s)) /\ Asked(p \o Tail(s), A) /\ NoneResolves(p \o Tail(s))
<1> DEFINE t == p \o Tail(s)
<1>1. IsStack(t) /\ Rest(s, t, 1, Len(p)) /\ \A i \in 1..Len(p) : t[i] = p[i]
  BY Pushing DEF Bidden
<1>2. Len(s) \in Nat
  BY StackFacts
<1> HIDE DEF t
<1>3. \A j \in 1..Len(p) : Modest(t[j])
  BY <1>1 DEF Bidden
<1>4. Asked(t, A) /\ NoneResolves(t)
  BY <1>1, <1>2, <1>3, AskedRest
<1> QED
  BY <1>1, <1>4 DEF t

(* The first task makes way for others.                                     *)
LEMMA DoVerdicts ==
  ASSUME IInv, Verdicts, Same, Passing, NEW p, Bidden(p), Do(p), ~Quiet(agenda[1]) \/ Tame(p)
  PROVE  Verdicts'
<1>1. IsStack(agenda) /\ IsStack(p)
  BY AgendaStack DEF Bidden
<1>2. IsStack(agenda') /\ Asked(agenda', answers) /\ NoneResolves(agenda')
  BY <1>1, PushAsked DEF Passing, Do, Verdicts
<1>3. \A n : Owed(agenda, n) => Owed(agenda', n)
  BY <1>1, OwedPush DEF Passing, Do
<1> QED
  BY <1>2, <1>3, SameVerdicts

LEMMA UnwoundAsked ==
  ASSUME NEW s, NEW t, NEW h, NEW k, NEW A, IsStack(s), UnwoundTo(s, t, h, k), Asked(s, A)
  PROVE  IsStack(t) /\ Asked(t, A) /\ NoneResolves(t)
<1>1. /\ IsStack(t) /\ Rest(s, t, h, k) /\ Len(s) \in Nat /\ h # 0
  BY StackFacts DEF UnwoundTo
<1>2. ASSUME NEW j \in 1..k
      PROVE  Modest(t[j])
  <2>1. /\ k = 2
        /\ t[1] = Emit("rejected", {}, revision) /\ t[2] = [op |-> "throw"]
    BY <1>2 DEF UnwoundTo
  <2>2. Modest(t[1]) /\ Modest(t[2])
    BY <2>1 DEF Modest, ForValidated, Emit
  <2>3. j = 1 \/ j = 2
    BY <1>2, <2>1
  <2> QED
    BY <2>2, <2>3
<1> QED
  BY <1>1, <1>2, AskedRest

(* The first task throws.                                                   *)
LEMMA ThrowVerdicts ==
  ASSUME IInv, Verdicts, Same, Passing, Throw, lifecycle = "active" => ~Quiet(agenda[1])
  PROVE  Verdicts'
<1>1. IsStack(agenda) /\ agenda # << >>
  BY AgendaStack DEF Passing
<1>2. PICK h \in Nat, k \in Nat : UnwoundTo(agenda, agenda', h, k)
  BY <1>1, UnwoundShape DEF Throw
<1>3. IsStack(agenda') /\ Asked(agenda', answers) /\ NoneResolves(agenda')
  BY <1>1, <1>2, UnwoundAsked DEF Verdicts
<1>4. lifecycle = "active" => \A n : Owed(agenda, n) => Owed(agenda', n)
  BY <1>1, <1>2, OwedUnwound DEF Passing
<1> QED
  BY <1>3, <1>4, SameVerdicts

LEMMA RejectionBidden == Bidden(<<Emit("rejected", {}, revision), [op |-> "throw"]>>)
<1> DEFINE x == Emit("rejected", {}, revision)
           y == [op |-> "throw"]
<1>1. Modest(x) /\ Modest(y)
  BY DEF Modest, ForValidated, Emit
<1> HIDE DEF x, y
<1>2. /\ IsStack(<<x, y>>) /\ Len(<<x, y>>) = 2
      /\ <<x, y>>[1] = x /\ <<x, y>>[2] = y
  BY StackOfTwo
<1>3. \A i \in 1..2 : i = 1 \/ i = 2
  OBVIOUS
<1>4. Bidden(<<x, y>>)
  BY <1>1, <1>2, <1>3 DEF Bidden
<1> QED
  BY <1>4 DEF x, y

(* A turn begins.                                                           *)
LEMMA TurnVerdicts ==
  ASSUME IInv, Verdicts, Same, agenda = << >>, Bidden(agenda')
  PROVE  Verdicts'
<1> DEFINE s == << >>
           t == agenda'
<1>1. Len(s) = 0 /\ agenda = s
  BY EmptyStack
<1>2. \A n : ~Owed(agenda, n)
  BY <1>1 DEF Owed
<1> HIDE DEF s
<1>3. IsStack(t) /\ \A i \in 1..Len(t) : Modest(t[i])
  BY DEF Bidden
<1>4. \A i \in 1..Len(t) : ForValidated(t[i]) /\ ~Resolves(t[i]) /\ t[i].op # "launch" /\ \A r : ~Names(t[i], r)
  BY <1>3 DEF Modest, Resolves, Names
<1>5. Asked(t, answers) /\ NoneResolves(t)
  BY <1>4 DEF Asked, NoneResolves
<1> QED
  BY <1>2, <1>3, <1>5, SameVerdicts

LEMMA BiddenNone == Bidden(<< >>) /\ Tame(<< >>)
<1> DEFINE p == << >>
<1>1. IsStack(p) /\ Len(p) = 0
  BY EmptyStack
<1> HIDE DEF p
<1>2. Bidden(p) /\ Tame(p)
  BY <1>1 DEF Bidden, Tame
<1> QED
  BY <1>2 DEF p

LEMMA BiddenOne ==
  ASSUME NEW x, Modest(x)
  PROVE  Bidden(<<x>>) /\ (Quiet(x) => Tame(<<x>>))
<1> DEFINE p == <<x>>
<1>1. IsStack(p) /\ Len(p) = 1 /\ p[1] = x
  BY StackOfOne
<1> HIDE DEF p
<1>2. \A i \in 1..1 : i = 1
  OBVIOUS
<1>3. Bidden(p) /\ (Quiet(x) => Tame(p))
  BY <1>1, <1>2 DEF Bidden, Tame
<1> QED
  BY <1>3 DEF p

LEMMA BiddenTwo ==
  ASSUME NEW x, NEW y, Modest(x), Modest(y)
  PROVE  /\ Bidden(<<x, y>>)
         /\ Quiet(y) /\ (Quiet(x) \/ y.op = "contained") => Tame(<<x, y>>)
<1> DEFINE p == <<x, y>>
<1>1. IsStack(p) /\ Len(p) = 2 /\ p[1] = x /\ p[2] = y
  BY StackOfTwo
<1> HIDE DEF p
<1>2. \A i \in 1..2 : i = 1 \/ i = 2
  OBVIOUS
<1>3. Bidden(p)
  BY <1>1, <1>2 DEF Bidden
<1>4. ASSUME Quiet(y), Quiet(x) \/ y.op = "contained"
      PROVE  Tame(p)
  <2>1. 2 \in (1 + 1)..2
    OBVIOUS
  <2> QED
    BY <1>1, <1>2, <1>4, <2>1 DEF Tame
<1>5. Bidden(p) /\ (Quiet(y) /\ (Quiet(x) \/ y.op = "contained") => Tame(p))
  BY <1>3, <1>4
<1> QED
  BY <1>5 DEF p

LEMMA BiddenJoined ==
  ASSUME NEW p, NEW q, Bidden(p), Bidden(q)
  PROVE  Bidden(p \o q)
<1> DEFINE t == p \o q
<1>1. /\ IsStack(t) /\ Len(t) = Len(p) + Len(q) /\ Len(p) \in Nat /\ Len(q) \in Nat
      /\ \A i \in 1..Len(p) : t[i] = p[i]
      /\ \A i \in 1..Len(q) : t[Len(p) + i] = q[i]
  BY JoinedStack, StackFacts DEF Bidden
<1> HIDE DEF t
<1>2. ASSUME NEW i \in 1..Len(t)
      PROVE  Modest(t[i])
  <2>1. CASE i \in 1..Len(p)
    BY <1>1, <2>1 DEF Bidden
  <2>2. CASE i \notin 1..Len(p)
    <3>1. i - Len(p) \in 1..Len(q) /\ Len(p) + (i - Len(p)) = i
      BY <1>1, <2>2
    <3> QED
      BY <1>1, <3>1 DEF Bidden
  <2> QED
    BY <2>1, <2>2
<1>3. Bidden(t)
  BY <1>1, <1>2 DEF Bidden
<1> QED
  BY <1>3 DEF t

LEMMA HeadTask ==
  ASSUME IInv, NEW op, At(op)
  PROVE  /\ agenda # << >> /\ Task = agenda[1] /\ agenda[1].op = op /\ Task.op = op
         /\ 1 \in 1..Len(agenda) /\ Len(agenda) \in Nat
         /\ TaskOK(Task, requests)
         /\ op \notin {"schedule", "settle"} => Passing
<1>1. /\ agenda # << >> /\ Task = agenda[1] /\ agenda[1].op = op /\ Len(agenda) \in Nat
      /\ Len(agenda) >= 1 /\ TaskOK(Task, requests)
  BY AtFacts DEF At, IInv
<1>2. op \notin {"schedule", "settle"} => Passing
  BY <1>1 DEF Passing, Reschedules, Schedules
<1>3. Task.op = op /\ 1 \in 1..Len(agenda)
  BY <1>1
<1> QED
  BY <1>1, <1>2, <1>3

LEMMA SameSteps ==
  ASSUME IInv, UNCHANGED <<nodes, validationVars, savepoint, lifecycle>>, UNCHANGED throws
  PROVE  Same
BY AgendaStack DEF Same, validationVars

LEMMA PopVerdicts ==
  ASSUME IInv, Verdicts, Same, NEW op, At(op), op \notin {"schedule", "settle"}, Do(<< >>)
  PROVE  Verdicts'
BY HeadTask, BiddenNone, DoVerdicts

LEMMA EmitModest ==
  ASSUME NEW kind, NEW changed, NEW at
  PROVE  Modest(Emit(kind, changed, at)) /\ Quiet(Emit(kind, changed, at))
BY DEF Modest, ForValidated, Emit, Quiet

LEMMA DeliverBidden ==
  ASSUME NEW fact
  PROVE  Bidden(Deliver(fact)) /\ Tame(Deliver(fact))
<1> DEFINE x == [op |-> "project", fact |-> fact]
           y == [op |-> "observe", fact |-> fact]
<1>1. Modest(x) /\ Modest(y) /\ Quiet(x) /\ Quiet(y)
  BY DEF Modest, ForValidated, Quiet
<1>2. Deliver(fact) = <<x, y>>
  BY DEF Deliver
<1> HIDE DEF x, y
<1> QED
  BY <1>1, <1>2, BiddenTwo

LEMMA EmitVerdicts ==
  ASSUME IInv, Verdicts, EmitFact, UNCHANGED applicationVars
  PROVE  Verdicts'
<1>1. At("emit")
  BY DEF EmitFact
<1>2. Same
  BY SameSteps DEF EmitFact, storeVars, observerVars
<1>3. CASE Do(<< >>)
  BY <1>1, <1>2, <1>3, PopVerdicts
<1>4. ASSUME NEW fact, Do(Deliver(fact))
      PROVE  Verdicts'
  BY <1>1, <1>2, <1>4, HeadTask, DeliverBidden, DoVerdicts
<1>5. CASE Throw /\ lifecycle = "disposed"
  BY <1>1, <1>2, <1>5, HeadTask, ThrowVerdicts
<1> QED
  BY <1>3, <1>4, <1>5 DEF EmitFact

LEMMA DrainVerdicts ==
  ASSUME IInv, Verdicts, DrainFact, UNCHANGED applicationVars
  PROVE  Verdicts'
<1>1. At("drain") /\ IsStack(agenda)
  BY AgendaStack DEF DrainFact
<1>2. Same
  BY SameSteps DEF DrainFact, storeVars, observerVars
<1>3. CASE Do(<< >>)
  BY <1>1, <1>2, <1>3, PopVerdicts
<1>4. Passing /\ agenda[1].op = "drain" /\ ~Quiet(agenda[1]) /\ Len(agenda) \in Nat /\ 1 \in 1..Len(agenda)
  BY <1>1, HeadTask DEF Quiet
<1>5. NoneResolves(agenda)
  <2>1. ~Resolves(agenda[1])
    BY <1>4 DEF Resolves
  <2> QED
    BY <1>4, <2>1 DEF NoneResolves, Verdicts, Asked
<1>6. CASE UNCHANGED agenda
  BY <1>1, <1>2, <1>5, <1>6, SameVerdicts DEF Verdicts
<1>7. ASSUME NEW fact, agenda' = Deliver(fact) \o <<Contained>> \o agenda
      PROVE  Verdicts'
  <2> DEFINE p == Deliver(fact) \o <<Contained>>
             t == p \o agenda
  <2>1. Bidden(p)
    <3>1. Modest(Contained)
      BY DEF Modest, ForValidated, Contained
    <3> QED
      BY <3>1, DeliverBidden, BiddenOne, BiddenJoined
  <2>2. agenda' = t
    BY <1>7
  <2> HIDE DEF p
  <2>3. IsStack(t) /\ Rest(agenda, t, 0, Len(p)) /\ \A i \in 1..Len(p) : t[i] = p[i]
    BY <1>1, <2>1, Prepending DEF Bidden
  <2>4. Asked(t, answers) /\ NoneResolves(t)
    <3> HIDE DEF t
    <3>1. \A j \in 1..Len(p) : Modest(t[j])
      BY <2>1, <2>3 DEF Bidden
    <3>2. Asked(agenda, answers)
      BY DEF Verdicts
    <3> QED
      BY <1>4, <1>5, <2>3, <3>1, <3>2, AskedRest
  <2>5. \A n : Owed(agenda, n) => Owed(t, n)
    BY <1>1, <1>4, <2>1, OwedPrepend DEF Bidden, Passing
  <2> HIDE DEF t
  <2> QED
    BY <1>2, <2>2, <2>3, <2>4, <2>5, SameVerdicts
<1> QED
  BY <1>3, <1>6, <1>7 DEF DrainFact

LEMMA ReactionVerdicts ==
  ASSUME IInv, Verdicts, Same, At("observe"), NEW task, Modest(task), Reaction(task)
  PROVE  Verdicts'
<1>1. Modest(Contained) /\ Quiet(Contained) /\ Contained.op = "contained"
  BY DEF Modest, ForValidated, Quiet, Contained
<1>2. Bidden(<<task, Contained>>) /\ Tame(<<task, Contained>>)
  BY <1>1, BiddenTwo
<1> QED
  BY <1>2, HeadTask, DoVerdicts DEF Reaction

LEMMA ObserveVerdicts ==
  ASSUME IInv, Verdicts, Observe, UNCHANGED applicationVars
  PROVE  Verdicts'
<1>1. At("observe")
  BY DEF Observe
<1>2. Same
  BY SameSteps DEF Observe, storeVars
<1>3. CASE Do(<< >>)
  BY <1>1, <1>2, <1>3, PopVerdicts
<1>4. ASSUME NEW n \in Nodes, NEW v \in Values,
             Reaction(Execute([type |-> "value", node |-> n, value |-> v]))
      PROVE  Verdicts'
  <2>1. Modest(Execute([type |-> "value", node |-> n, value |-> v]))
    BY DEF Execute, Modest, ForValidated
  <2> QED
    BY <1>1, <1>2, <1>4, <2>1, ReactionVerdicts
<1> QED
  BY <1>3, <1>4 DEF Observe

LEMMA ObserveStructurallyVerdicts ==
  ASSUME IInv, Verdicts, ObserveStructurally
  PROVE  Verdicts'
<1>1. At("observe")
  BY DEF ObserveStructurally
<1>2. Same
  BY SameSteps DEF ObserveStructurally, storeVars
<1>3. ASSUME NEW d \in Documents, Reaction(Update(d))
      PROVE  Verdicts'
  <2>1. Modest(Update(d))
    BY DEF Update, Modest, ForValidated
  <2> QED
    BY <1>1, <1>2, <1>3, <2>1, ReactionVerdicts
<1>4. CASE Reaction([op |-> "dispose"])
  <2>1. Modest([op |-> "dispose"])
    BY DEF Modest, ForValidated
  <2> QED
    BY <1>1, <1>2, <1>4, <2>1, ReactionVerdicts
<1> QED
  BY <1>3, <1>4 DEF ObserveStructurally

(* Outside the steps of an update, a coordination is open only if it broke. *)
LEMMA NoSavepoint ==
  ASSUME IInv, throws = 0, \A op \in Preparing : ~At(op)
  PROVE  savepoint = None
BY DEF IInv, Control, Coordinated

LEMMA SettleVerdicts ==
  ASSUME IInv, Verdicts, Settle, UNCHANGED applicationVars
  PROVE  Verdicts'
<1> DEFINE work == Task.work
<1>1. At("settle")
  BY DEF Settle
<1>2. /\ agenda # << >> /\ Task = agenda[1] /\ agenda[1].op = "settle" /\ Task.op = "settle"
      /\ 1 \in 1..Len(agenda) /\ TaskOK(Task, requests) /\ IsStack(agenda)
  BY <1>1, HeadTask, AgendaStack
<1>3. Same
  BY SameSteps DEF Settle, storeVars, observerVars
<1>4. IsStack(work) /\ \A i \in 1..Len(work) : Writing("write", work[i]) \/ Scheduling(work[i])
  BY <1>2 DEF TaskOK
<1>5. Bidden(work)
  <2>1. ForValidated(Task)
    BY <1>2 DEF Verdicts, Asked
  <2>2. \A i \in 1..Len(work) : work[i].op = "schedule" => work[i].node \in Validated
    BY <1>2, <2>1 DEF ForValidated
  <2>3. \A i \in 1..Len(work) : Modest(work[i])
    BY <1>4, <2>2 DEF Writing, Scheduling, Modest, ForValidated
  <2> QED
    BY <1>4, <2>3 DEF Bidden
<1>6. ASSUME NEW p, Do(p), Bidden(p),
             throws' = 0 /\ lifecycle = "active" => p = work
      PROVE  Verdicts'
  <2>1. IsStack(agenda') /\ Asked(agenda', answers) /\ NoneResolves(agenda')
    BY <1>2, <1>6, PushAsked DEF Do, Verdicts
  <2>2. ASSUME throws' = 0, lifecycle = "active", NEW n, Owed(agenda, n)
        PROVE  Owed(agenda', n)
    <3>1. agenda' = work \o Tail(agenda) /\ IsStack(Tail(agenda))
      BY <1>2, <1>6, <2>2, StackFacts DEF Do
    <3>2. CASE Reschedules(agenda[1], n)
      <4>1. PICK j \in 1..Len(work) : Schedules(work[j], n) /\ \A k \in 1..(j - 1) : Quiet(work[k])
        BY <1>2, <3>2 DEF Reschedules, Schedules
      <4>2. Owed(work, n)
        BY <4>1 DEF Owed, Reschedules, Shielded
      <4> QED
        BY <1>4, <3>1, <4>2, OwedAbove
    <3>3. CASE ~Reschedules(agenda[1], n)
      <4>1. ~Quiet(agenda[1])
        BY <1>2 DEF Quiet
      <4> QED
        BY <1>2, <1>4, <2>2, <3>1, <3>3, <4>1, OwedPush
    <3> QED
      BY <3>2, <3>3
  <2> QED
    BY <1>3, <2>1, <2>2, SameVerdicts
<1>7. throws' = 0 => savepoint = None
  <2>1. \A op \in Preparing : ~At(op)
    BY <1>2 DEF At, Preparing
  <2> QED
    BY <1>3, <2>1, NoSavepoint DEF Settle, observerVars
<1> HIDE DEF work
<1>8. CASE savepoint = None
  <2>1. Do(work)
    BY <1>8 DEF Settle, work
  <2> QED
    BY <1>5, <1>6, <2>1
<1>9. CASE savepoint # None
  <2>1. Do(<< >>)
    BY <1>9 DEF Settle
  <2> QED
    BY <1>6, <1>7, <1>9, <2>1, BiddenNone
<1> QED
  BY <1>8, <1>9

LEMMA ResumeVerdicts ==
  ASSUME IInv, Verdicts, Resume, UNCHANGED applicationVars
  PROVE  Verdicts'
<1>1. PICK op \in {"contained", "rejecting", "throw"} :
        At(op) /\ (Do(<< >>) \/ (op = "throw" /\ Throw))
  BY DEF Resume
<1>2. Same
  BY SameSteps DEF Resume, storeVars, observerVars
<1>3. CASE Do(<< >>)
  BY <1>1, <1>2, <1>3, PopVerdicts
<1>4. CASE op = "throw" /\ Throw
  <2>1. Passing /\ ~Quiet(agenda[1])
    BY <1>1, <1>4, HeadTask DEF Quiet
  <2> QED
    BY <1>2, <1>4, <2>1, ThrowVerdicts
<1> QED
  BY <1>1, <1>3, <1>4

LEMMA RequestWriteVerdicts ==
  ASSUME IInv, Verdicts, RequestWrite, UNCHANGED applicationVars
  PROVE  Verdicts'
<1> DEFINE x == Emit("requested", {}, revision)
           y == [Task EXCEPT !.op = "perform"]
<1>1. At("write")
  BY DEF RequestWrite
<1>2. Passing /\ TaskOK(Task, requests) /\ Task.op = "write"
  BY <1>1, HeadTask
<1>3. Same
  BY SameSteps DEF RequestWrite, storeVars, observerVars
<1>4. Modest(x) /\ Quiet(x)
  BY EmitModest
<1>5. Modest(y) /\ Quiet(y)
  <2>1. Writing("write", Task)
    BY <1>2 DEF TaskOK
  <2>2. y.op = "perform"
    BY <2>1 DEF Writing
  <2> HIDE DEF y
  <2> QED
    BY <2>2 DEF Modest, ForValidated, Quiet
<1>6. Do(<<x, y>>)
  BY DEF RequestWrite
<1> HIDE DEF x, y
<1>7. Bidden(<<x, y>>) /\ Tame(<<x, y>>)
  BY <1>4, <1>5, BiddenTwo
<1> QED
  BY <1>2, <1>3, <1>6, <1>7, DoVerdicts

LEMMA WriteStoreVerdicts ==
  ASSUME IInv, Verdicts, WriteStore, UNCHANGED applicationVars
  PROVE  Verdicts'
<1>1. At("perform")
  BY DEF WriteStore
<1>2. Same
  BY SameSteps DEF WriteStore, storeVars, observerVars
<1>3. Bidden(<<Emit("settled", {}, revision)>>) /\ Tame(<<Emit("settled", {}, revision)>>)
  BY EmitModest, BiddenOne
<1>4. PICK p : Do(p) /\ Bidden(p) /\ Tame(p)
  BY <1>3, BiddenNone DEF WriteStore
<1> QED
  BY <1>1, <1>2, <1>4, HeadTask, DoVerdicts

LEMMA BiddenEach ==
  ASSUME NEW set \in SUBSET Validated
  PROVE  /\ Bidden(Each("schedule", set))
         /\ \A i \in 1..Len(Each("schedule", set)) :
              \E n \in set : Each("schedule", set)[i] = [op |-> "schedule", node |-> n]
<1> DEFINE s == Each("schedule", set)
<1>1. IsFiniteSet(set)
  BY RuntimeAssumption, FS_Subset
<1>2. /\ IsStack(s)
      /\ \A i \in 1..Len(s) : \E n \in set : s[i] = [op |-> "schedule", node |-> n]
  BY <1>1, EachFacts
<1> HIDE DEF s
<1>3. ASSUME NEW i \in 1..Len(s)
      PROVE  Modest(s[i])
  <2>1. PICK n \in set : s[i] = [op |-> "schedule", node |-> n]
    BY <1>2
  <2>2. s[i].op = "schedule" /\ s[i].node \in Validated
    BY <2>1
  <2> QED
    BY <2>2 DEF Modest, ForValidated
<1>4. Bidden(s) /\ \A i \in 1..Len(s) : \E n \in set : s[i] = [op |-> "schedule", node |-> n]
  BY <1>2, <1>3 DEF Bidden
<1> QED
  BY <1>4 DEF s

\* What a committed command leaves to do, its store writes and validations.
Remaining(command, set) ==
  [op |-> "settle", work |-> Writes(command, Applied(command)) \o Each("schedule", set)]

LEMMA RemainingFacts ==
  ASSUME GraphTypes, NEW command, Command(command, requests), Applicable(command),
         NEW set \in SUBSET Validated
  PROVE  /\ Modest(Remaining(command, set))
         /\ \A n : set = {n} => Reschedules(Remaining(command, set), n)
<1> DEFINE w == Writes(command, Applied(command))
           e == Each("schedule", set)
           u == w \o e
<1>1. IsStack(w) /\ \A i \in 1..Len(w) : Writing("write", w[i])
  BY WritesFacts
<1>2. Bidden(e) /\ \A i \in 1..Len(e) : \E n \in set : e[i] = [op |-> "schedule", node |-> n]
  BY BiddenEach
<1>3. \A n : set = {n} => Len(e) >= 1
  <2> SUFFICES ASSUME NEW n, set = {n} PROVE Len(e) >= 1
    OBVIOUS
  <2> DEFINE S == {[op |-> "schedule", node |-> m] : m \in set}
  <2>1. S = {[op |-> "schedule", node |-> n]}
    OBVIOUS
  <2>2. IsFiniteSet(S) /\ Cardinality(S) = 1
    BY <2>1, FS_Singleton
  <2> HIDE DEF S
  <2>3. e = SetToSeq(S)
    BY DEF Each, S
  <2>4. ExistsBijection(1..Cardinality(S), S)
    BY <2>2, FS_CardinalityType
  <2>5. \E g \in [1..Cardinality(S) -> S] : IsInjective(g)
    BY <2>4 DEF ExistsBijection, Bijection, Injection
  <2>6. SetToSeq(S) \in [1..Cardinality(S) -> S]
    BY <2>5, Zenon DEF SetToSeq
  <2>7. SetToSeq(S) \in [1..1 -> S]
    BY <2>2, <2>6
  <2>8. Len(SetToSeq(S)) = 1
    BY <2>7
  <2> QED
    BY <2>3, <2>8
<1> HIDE DEF w, e
<1>4. /\ IsStack(u) /\ Len(u) = Len(w) + Len(e) /\ Len(w) \in Nat /\ Len(e) \in Nat
      /\ \A i \in 1..Len(w) : u[i] = w[i]
      /\ \A i \in 1..Len(e) : u[Len(w) + i] = e[i]
  BY <1>1, <1>2, JoinedStack, StackFacts DEF Bidden
<1> HIDE DEF u
<1>5. \A i \in 1..Len(u) : u[i].op = "schedule" => u[i].node \in Validated
  <2> SUFFICES ASSUME NEW i \in 1..Len(u), u[i].op = "schedule" PROVE u[i].node \in Validated
    OBVIOUS
  <2>1. CASE i \in 1..Len(w)
    BY <1>1, <1>4, <2>1 DEF Writing
  <2>2. CASE i \notin 1..Len(w)
    <3>1. i - Len(w) \in 1..Len(e) /\ Len(w) + (i - Len(w)) = i
      BY <1>4, <2>2
    <3>2. Modest(u[i])
      BY <1>2, <1>4, <3>1 DEF Bidden
    <3> QED
      BY <3>2 DEF Modest, ForValidated
  <2> QED
    BY <2>1, <2>2
<1>6. Modest([op |-> "settle", work |-> u])
  BY <1>5 DEF Modest, ForValidated
<1>7. ASSUME NEW n, set = {n}
      PROVE  Reschedules([op |-> "settle", work |-> u], n)
  <2>1. 1 \in 1..Len(e) /\ Len(w) + 1 \in 1..Len(u)
    <3>1. Len(e) >= 1
      BY <1>3, <1>7
    <3> QED
      BY <1>4, <3>1
  <2>2. Schedules(u[Len(w) + 1], n)
    BY <1>2, <1>4, <1>7, <2>1 DEF Schedules
  <2>3. \A k \in 1..((Len(w) + 1) - 1) : Quiet(u[k])
    <3>1. \A k \in 1..((Len(w) + 1) - 1) : k \in 1..Len(w)
      BY <1>4
    <3> QED
      BY <1>1, <1>4, <3>1 DEF Writing, Quiet
  <2> QED
    BY <2>1, <2>2, <2>3 DEF Reschedules
<1> QED
  BY <1>6, <1>7 DEF u, w, e, Remaining

\* The tasks of a committed command: the facts, then the settlement.
Committed(command, set, changed, next) ==
  <<Emit("applied", {}, next)>>
  \o [i \in DOMAIN Writes(command, Applied(command)) |-> Emit("applied", {}, next)]
  \o (IF changed = {} THEN << >> ELSE <<Emit("transaction", changed, next)>>)
  \o <<Remaining(command, set), Rejecting>>

LEMMA CommittedTasks ==
  ASSUME GraphTypes, NEW command, Command(command, requests), Applicable(command),
         NEW set \in SUBSET Validated, NEW changed, NEW next
  PROVE  /\ Bidden(Committed(command, set, changed, next))
         /\ \A n : set = {n} => Owed(Committed(command, set, changed, next), n)
<1> DEFINE x == Emit("applied", {}, next)
           f == <<x>>
           g == [i \in DOMAIN Writes(command, Applied(command)) |-> Emit("applied", {}, next)]
           t == IF changed = {} THEN << >> ELSE <<Emit("transaction", changed, next)>>
           e == <<Remaining(command, set), Rejecting>>
<1> DEFINE Facts(p) == Bidden(p) /\ \A i \in 1..Len(p) : Quiet(p[i])
<1>1. Facts(f)
  <2>1. Modest(x) /\ Quiet(x)
    BY EmitModest
  <2> HIDE DEF x
  <2>2. Bidden(f) /\ IsStack(f) /\ Len(f) = 1 /\ f[1] = x
    BY <2>1, BiddenOne, StackOfOne
  <2>3. \A i \in 1..1 : i = 1
    OBVIOUS
  <2> HIDE DEF f
  <2> QED
    BY <2>1, <2>2, <2>3
<1>2. Facts(g)
  <2>1. IsStack(Writes(command, Applied(command)))
    BY WritesFacts
  <2> DEFINE n == Len(Writes(command, Applied(command)))
  <2>2. g = [i \in 1..n |-> x] /\ n \in Nat
    BY <2>1, StackFacts
  <2>3. Modest(x) /\ Quiet(x)
    BY EmitModest
  <2> HIDE DEF x, n, g
  <2>4. g \in Seq({x}) /\ Len(g) = n
    BY <2>2
  <2>5. \A i \in 1..Len(g) : g[i] = x
    BY <2>2, <2>4
  <2> QED
    BY <2>3, <2>4, <2>5 DEF Bidden, IsStack
<1>3. Facts(t)
  <2>1. CASE changed = {}
    <3>1. t = << >> /\ Len(t) = 0 /\ Bidden(t)
      BY <2>1, BiddenNone, EmptyStack
    <3> HIDE DEF t
    <3> QED
      BY <3>1
  <2>2. CASE changed # {}
    <3> DEFINE y == Emit("transaction", changed, next)
    <3>1. Modest(y) /\ Quiet(y) /\ t = <<y>>
      BY <2>2, EmitModest
    <3> HIDE DEF y, t
    <3>2. Bidden(t) /\ Len(t) = 1 /\ t[1] = y
      BY <3>1, BiddenOne, StackOfOne
    <3>3. \A i \in 1..1 : i = 1
      OBVIOUS
    <3> QED
      BY <3>1, <3>2, <3>3
  <2> QED
    BY <2>1, <2>2
<1>4. ASSUME NEW p, NEW q, Facts(p), Facts(q)
      PROVE  Facts(p \o q)
  <2> DEFINE u == p \o q
  <2>1. /\ Bidden(u) /\ Len(u) = Len(p) + Len(q) /\ Len(p) \in Nat /\ Len(q) \in Nat
        /\ \A i \in 1..Len(p) : u[i] = p[i]
        /\ \A i \in 1..Len(q) : u[Len(p) + i] = q[i]
    BY <1>4, BiddenJoined, JoinedStack, StackFacts DEF Bidden
  <2> HIDE DEF u
  <2>2. ASSUME NEW i \in 1..Len(u)
        PROVE  Quiet(u[i])
    <3>1. CASE i \in 1..Len(p)
      BY <1>4, <2>1, <3>1
    <3>2. CASE i \notin 1..Len(p)
      <4>1. i - Len(p) \in 1..Len(q) /\ Len(p) + (i - Len(p)) = i
        BY <2>1, <3>2
      <4> QED
        BY <1>4, <2>1, <4>1
    <3> QED
      BY <3>1, <3>2
  <2>3. Facts(u)
    BY <2>1, <2>2
  <2> QED
    BY <2>3 DEF u
<1>5. /\ Modest(Remaining(command, set))
      /\ \A n : set = {n} => Reschedules(Remaining(command, set), n)
  BY RemainingFacts
<1> HIDE DEF f, g, t, Facts
<1>6. Facts(f \o g \o t)
  BY <1>1, <1>2, <1>3, <1>4
<1>7. Bidden(e) /\ \A n : set = {n} => Owed(e, n)
  <2> DEFINE y == Remaining(command, set)
  <2>1. Modest(Rejecting)
    BY DEF Modest, ForValidated, Rejecting
  <2>2. Bidden(e)
    BY <1>5, <2>1, BiddenTwo
  <2>3. e = <<y, Rejecting>>
    OBVIOUS
  <2> HIDE DEF y, e
  <2>4. Len(e) = 2 /\ e[1] = y
    BY <2>3, StackOfTwo
  <2>5. Shielded(e, 1) /\ 1 \in 1..2
    BY DEF Shielded
  <2> QED
    BY <1>5, <2>2, <2>4, <2>5 DEF Owed, y
<1> HIDE DEF e
<1>8. Bidden(f \o g \o t \o e)
  BY <1>6, <1>7, BiddenJoined DEF Facts
<1>9. \A n : set = {n} => Owed(f \o g \o t \o e, n)
  BY <1>6, <1>7, OwedBelow DEF Facts, Bidden
<1> QED
  BY <1>8, <1>9 DEF f, g, t, e, x, Committed

(* What a command makes of a control.                                       *)
LEMMA AppliedFacts ==
  ASSUME GraphTypes, NEW command, Command(command, requests), Applicable(command)
  PROVE  LET after == Applied(command)
             n == command.node
         IN  /\ DOMAIN after = DOMAIN nodes /\ n \in DOMAIN nodes
             /\ \A m \in DOMAIN nodes \ {n} : after[m] = nodes[m]
             /\ command.type = "value" =>
                  after[n].verdict = NoVerdict /\ after[n].request = nodes[n].request
             /\ command.type = "start" =>
                  after[n].verdict = NoVerdict /\ after[n].request = command.request
             /\ command.type \in {"resolve", "cancel"} =>
                  \/ after[n] = nodes[n]
                  \/ /\ nodes[n].request = command.request
                     /\ after[n].value = nodes[n].value /\ after[n].request = NoRequest
                     /\ after[n].verdict =
                          IF command.type = "resolve" THEN command.verdict ELSE NoVerdict
<1> DEFINE n == command.node
           c == nodes[n]
<1>1. n \in DOMAIN nodes /\ c \in ControlOf(requests)
  BY DEF GraphTypes, Applicable
<1>2. ASSUME NEW d, Applied(command) = [nodes EXCEPT ![n] = d]
      PROVE  /\ DOMAIN Applied(command) = DOMAIN nodes /\ Applied(command)[n] = d
             /\ \A m \in DOMAIN nodes \ {n} : Applied(command)[m] = nodes[m]
  BY <1>1, <1>2 DEF GraphTypes
<1>3. CASE command.type = "value"
  <2>1. Applied(command) = [nodes EXCEPT ![n] = Edited(c, command.value)]
    BY <1>3 DEF Applied
  <2>2. Edited(c, command.value).verdict = NoVerdict /\ Edited(c, command.value).request = c.request
    BY <1>1 DEF Edited, ControlOf
  <2>3. command.type \notin {"start", "resolve", "cancel"}
    BY <1>3
  <2> QED
    BY <1>1, <1>2, <2>1, <2>2, <2>3
<1>4. CASE command.type = "start"
  <2>1. Applied(command) = [nodes EXCEPT ![n] = Started(c, command.request)]
    BY <1>4 DEF Applied
  <2>2. Started(c, command.request).verdict = NoVerdict /\ Started(c, command.request).request = command.request
    BY <1>1 DEF Started, ControlOf
  <2>3. command.type \notin {"value", "resolve", "cancel"}
    BY <1>4
  <2> QED
    BY <1>1, <1>2, <2>1, <2>2, <2>3
<1>5. ASSUME NEW v
      PROVE  LET d == Judged(c, command.request, v)
             IN  \/ d = c
                 \/ /\ c.request = command.request
                    /\ d.value = c.value /\ d.request = NoRequest /\ d.verdict = v
  <2>1. CASE c.request # command.request
    BY <2>1 DEF Judged
  <2>2. CASE c.request = command.request
    <3>1. Judged(c, command.request, v) = [c EXCEPT !.request = NoRequest, !.verdict = v]
      BY <2>2 DEF Judged
    <3> QED
      BY <1>1, <2>2, <3>1 DEF ControlOf
  <2> QED
    BY <2>1, <2>2
<1>6. CASE command.type = "resolve"
  <2>1. Applied(command) = [nodes EXCEPT ![n] = Judged(c, command.request, command.verdict)]
    BY <1>6 DEF Applied
  <2> DEFINE d == Judged(c, command.request, command.verdict)
  <2>2. \/ d = c
        \/ /\ c.request = command.request
           /\ d.value = c.value /\ d.request = NoRequest /\ d.verdict = command.verdict
    BY <1>5
  <2>3. Applied(command)[n] = d /\ DOMAIN Applied(command) = DOMAIN nodes
        /\ \A m \in DOMAIN nodes \ {n} : Applied(command)[m] = nodes[m]
    BY <1>2, <2>1
  <2> HIDE DEF d
  <2>4. command.type \notin {"value", "start", "cancel"}
    BY <1>6
  <2> QED
    BY <1>1, <1>6, <2>2, <2>3, <2>4
<1>7. CASE command.type = "cancel"
  <2>1. Applied(command) = [nodes EXCEPT ![n] = Judged(c, command.request, NoVerdict)]
    BY <1>7 DEF Applied
  <2> DEFINE d == Judged(c, command.request, NoVerdict)
  <2>2. \/ d = c
        \/ /\ c.request = command.request
           /\ d.value = c.value /\ d.request = NoRequest /\ d.verdict = NoVerdict
    BY <1>5
  <2>3. Applied(command)[n] = d /\ DOMAIN Applied(command) = DOMAIN nodes
        /\ \A m \in DOMAIN nodes \ {n} : Applied(command)[m] = nodes[m]
    BY <1>2, <2>1
  <2> HIDE DEF d
  <2>4. command.type \notin {"value", "start", "resolve"}
    BY <1>7
  <2> QED
    BY <1>1, <1>7, <2>2, <2>3, <2>4
<1> QED
  BY <1>3, <1>4, <1>6, <1>7 DEF Command

LEMMA ExecuteVerdicts ==
  ASSUME IInv, Verdicts, ExecuteCommand, UNCHANGED applicationVars
  PROVE  Verdicts'
<1> DEFINE command == Task.command
           n == command.node
           after == Applied(command)
           changed == Changed(nodes, after)
           set == Triggers(command, changed)
           next == IF changed = {} THEN revision ELSE revision + 1
           p == Committed(command, set, changed, next)
<1>1. At("execute") /\ GraphTypes /\ IsStack(agenda) /\ throws \in Nat
  BY AgendaStack DEF ExecuteCommand, IInv
<1>2. /\ Passing /\ Task = agenda[1] /\ 1 \in 1..Len(agenda) /\ Task.op = "execute"
      /\ Command(command, requests) /\ ~Quiet(agenda[1]) /\ agenda # << >>
  <2>1. /\ Passing /\ Task = agenda[1] /\ 1 \in 1..Len(agenda) /\ Task.op = "execute"
        /\ TaskOK(Task, requests) /\ agenda # << >>
    BY <1>1, HeadTask
  <2> QED
    BY <2>1 DEF TaskOK, Quiet
<1>3. UNCHANGED <<active, answers, savepoint, lifecycle>> /\ IsStack(Tail(agenda))
  BY <1>1, <1>2, StackFacts DEF ExecuteCommand, validationVars
<1>4. CASE Throw /\ UNCHANGED <<storeVars, throws>>
  <2>1. Same
    BY <1>1, <1>3, <1>4 DEF Same, storeVars
  <2> QED
    BY <1>2, <1>4, <2>1, ThrowVerdicts
<1>5. CASE /\ agenda' = Unwound(<<Rejecting>> \o Tail(agenda))
           /\ UNCHANGED <<storeVars, throws>>
  <2>1. Same
    BY <1>1, <1>3, <1>5 DEF Same, storeVars
  <2>2. Do(<<Emit("rejected", {}, revision), [op |-> "throw"]>>)
    BY <1>3, <1>5, RejectedHere DEF Do
  <2> QED
    BY <1>2, <2>1, <2>2, RejectionBidden, DoVerdicts
<1>6. ASSUME lifecycle = "active", savepoint = None, Applicable(command), Commit(command)
      PROVE  Verdicts'
  <2>1. set \in SUBSET Validated
    BY DEF Triggers
  <2>2. Bidden(p) /\ \A m : set = {m} => Owed(p, m)
    <3> HIDE DEF command, changed, set, next
    <3> QED
      BY <1>1, <1>2, <1>6, <2>1, CommittedTasks
  <2>3. nodes' = after /\ throws' \in Nat /\ throws <= throws'
    BY <1>1, <1>6 DEF Commit, SelectorThrows
  <2>4. \/ Do(p)
        \/ agenda' = Unwound(<<Rejecting>> \o Tail(agenda)) /\ throws' # 0
    <3>1. p = <<Emit("applied", {}, next)>>
              \o [i \in DOMAIN Writes(command, after) |-> Emit("applied", {}, next)]
              \o (IF changed = {} THEN << >> ELSE <<Emit("transaction", changed, next)>>)
              \o <<[op |-> "settle",
                    work |-> Writes(command, after)
                             \o Each("schedule", Triggers(command, changed))],
                   Rejecting>>
      BY DEF Remaining, Committed
    <3>2. SelectorThrows => throws' # 0
      BY <1>1 DEF SelectorThrows
    <3> HIDE DEF p
    <3> QED
      BY <1>6, <3>1, <3>2 DEF Commit
  <2> HIDE DEF p
  <2>5. IsStack(agenda') /\ Asked(agenda', answers) /\ NoneResolves(agenda')
    <3>1. \E q : Do(q) /\ Bidden(q)
      <4>1. CASE agenda' = Unwound(<<Rejecting>> \o Tail(agenda))
        <5>1. Do(<<Emit("rejected", {}, revision), [op |-> "throw"]>>)
          BY <1>3, <4>1, RejectedHere DEF Do
        <5> QED
          BY <5>1, RejectionBidden
      <4> QED
        BY <2>2, <2>4, <4>1
    <3> QED
      BY <1>1, <1>2, <3>1, PushAsked DEF Do, Verdicts
  <2>6. ASSUME throws' = 0
        PROVE  FreshVerdicts(after) /\ Followed(after, agenda', active, answers)
    <3>1. throws = 0 /\ Do(p)
      BY <1>1, <2>3, <2>4, <2>6
    <3>2. FreshVerdicts(nodes) /\ Followed(nodes, agenda, active, answers) /\ Honest(command)
      BY <1>1, <1>6, <3>1 DEF Verdicts, Judging
    <3>3. /\ DOMAIN after = DOMAIN nodes /\ n \in DOMAIN nodes
          /\ \A m \in DOMAIN nodes \ {n} : after[m] = nodes[m]
          /\ command.type = "value" =>
               after[n].verdict = NoVerdict /\ after[n].request = nodes[n].request
          /\ command.type = "start" =>
               after[n].verdict = NoVerdict /\ after[n].request = command.request
          /\ command.type \in {"resolve", "cancel"} =>
               \/ after[n] = nodes[n]
               \/ /\ nodes[n].request = command.request
                  /\ after[n].value = nodes[n].value /\ after[n].request = NoRequest
                  /\ after[n].verdict =
                       IF command.type = "resolve" THEN command.verdict ELSE NoVerdict
      BY <1>1, <1>2, <1>6, AppliedFacts
    <3>4. command.type \in {"value", "start", "resolve", "cancel"}
      BY <1>2 DEF Command
    <3>5. after[n].verdict \in {after[n].value, NoVerdict}
      <4> HIDE DEF after, command
      <4>1. CASE command.type \in {"value", "start"}
        BY <3>3, <4>1
      <4>2. CASE command.type \in {"resolve", "cancel"}
        <5>1. CASE after[n] = nodes[n]
          BY <3>2, <3>3, <5>1 DEF FreshVerdicts
        <5>2. CASE after[n] # nodes[n]
          BY <3>2, <3>3, <4>2, <5>2 DEF Honest
        <5> QED
          BY <5>1, <5>2
      <4> QED
        BY <3>4, <4>1, <4>2
    <3>6. FreshVerdicts(after)
      BY <3>2, <3>3, <3>5 DEF FreshVerdicts
    <3>7. \A m : Owed(agenda, m) => Owed(agenda', m)
      BY <1>1, <1>2, <2>2, <3>1, OwedPush DEF Passing, Bidden, Do
    <3>8. ASSUME NEW x \in answers, x.node \in DOMAIN after, active[x.node] = x.request,
                 after[x.node].request = x.request
          PROVE  after[x.node].value = x.value \/ Owed(agenda', x.node)
      <4>1. ASSUME after[x.node] = nodes[x.node]
            PROVE  after[x.node].value = x.value \/ Owed(agenda', x.node)
        BY <3>2, <3>3, <3>7, <3>8, <4>1 DEF Followed
      <4>2. CASE x.node # n
        BY <3>3, <3>8, <4>1, <4>2
      <4>3. CASE x.node = n /\ command.type = "value" /\ after[n] # nodes[n]
        <5>1. n \in Validated
          BY <4>3 DEF Verdicts
        <5>2. changed = {n}
          <6> HIDE DEF after
          <6> QED
            BY <3>3, <4>3 DEF Changed
        <5>3. set = {n}
          BY <4>3, <5>1, <5>2 DEF Triggers
        <5>4. Owed(p, n)
          BY <2>2, <5>3
        <5>5. Owed(agenda', n)
          BY <1>3, <2>2, <3>1, <5>4, OwedAbove DEF Do, Bidden
        <5> QED
          BY <4>3, <5>5
      <4>4. CASE x.node = n /\ command.type = "start"
        <5>1. ~Names(agenda[1], x.request)
          BY <1>2 DEF Verdicts, Asked
        <5>2. command.request = x.request
          BY <3>3, <3>8, <4>4
        <5> QED
          BY <1>2, <4>4, <5>1, <5>2 DEF Names
      <4>5. CASE x.node = n /\ command.type \in {"resolve", "cancel"} /\ after[n] # nodes[n]
        <5>1. x.request # NoRequest
          BY <1>1 DEF GraphTypes, NoRequest
        <5> QED
          BY <3>3, <3>8, <4>5, <5>1
      <4> QED
        BY <3>4, <4>1, <4>2, <4>3, <4>4, <4>5
    <3> HIDE DEF after
    <3>9. Followed(after, agenda', active, answers)
      BY <3>8 DEF Followed
    <3> QED
      BY <3>6, <3>9
  <2>7. throws' = 0 => (At("execute")' => Honest(Task.command)')
    BY <2>5, NothingResolved
  <2> HIDE DEF after
  <2>8. throws' = 0 => FreshVerdicts(nodes') /\ Followed(nodes', agenda', active', answers')
    BY <1>3, <2>3, <2>6
  <2>9. savepoint' = None /\ answers' = answers
    BY <1>3, <1>6
  <2>10. throws' = 0 => Judging'
    BY <2>7, <2>8, <2>9 DEF Judging, None
  <2>11. \A x \in answers' : x.node \in Validated
    BY <2>9 DEF Verdicts
  <2> QED
    BY <2>5, <2>8, <2>9, <2>10, <2>11 DEF Verdicts, None
<1> QED
  BY <1>4, <1>5, <1>6 DEF ExecuteCommand

-----------------------------------------------------------------------------
(* Steps that change controls, validations or the coordination.             *)

LEMMA PushedVerdicts ==
  ASSUME IInv, Verdicts, agenda # << >>, NEW p, Bidden(p), Do(p), answers' = answers,
         throws' = 0 =>
           /\ FreshVerdicts(nodes')
           /\ savepoint' # None => FreshVerdicts(savepoint'.nodes)
           /\ lifecycle' = "active" =>
                /\ Followed(nodes', agenda', active', answers)
                /\ savepoint' # None => Followed(savepoint'.nodes, agenda', active', answers)
  PROVE  Verdicts'
<1>1. IsStack(agenda') /\ Asked(agenda', answers) /\ NoneResolves(agenda')
  BY AgendaStack, PushAsked DEF Do, Verdicts
<1>2. At("execute")' => Honest(Task.command)'
  BY <1>1, NothingResolved
<1>3. throws' = 0 /\ lifecycle' = "active" => Judging'
  BY <1>2 DEF Judging, None
<1>4. \A x \in answers' : x.node \in Validated
  BY DEF Verdicts
<1> QED
  BY <1>1, <1>3, <1>4 DEF Verdicts, None

LEMMA FollowedPushed ==
  ASSUME IInv, agenda # << >>, NEW p, Bidden(p), Do(p), ~Quiet(agenda[1]), NEW graph, NEW later,
         Followed(graph, agenda, active, answers),
         \A x \in answers : x.node \in DOMAIN graph /\ later[x.node] = x.request =>
           active[x.node] = x.request /\ ~Reschedules(agenda[1], x.node)
  PROVE  Followed(graph, agenda', later, answers)
<1>1. IsStack(agenda) /\ IsStack(p)
  BY AgendaStack DEF Bidden
<1>2. \A n : ~Reschedules(agenda[1], n) /\ Owed(agenda, n) => Owed(agenda', n)
  BY <1>1, OwedPush DEF Do
<1> QED
  BY <1>2 DEF Followed

LEMMA ThrowsCount == ASSUME IInv, UNCHANGED throws \/ SelectorThrows PROVE throws' = 0 => throws = 0
BY AgendaStack DEF SelectorThrows

(* A validation that goes on was in progress before.                        *)
LEMMA StillCurrent ==
  ASSUME IInv, NEW x \in answers, NEW set, Cancelled(set)[x.node] = x.request
  PROVE  active[x.node] = x.request /\ x.node \notin set
<1>1. x.node \in Nodes /\ x.request # NoRequest
  BY DEF IInv, GraphTypes, NoRequest
<1> QED
  BY <1>1 DEF Cancelled

LEMMA ScheduleVerdicts ==
  ASSUME IInv, Verdicts, ScheduleValidation, UNCHANGED applicationVars
  PROVE  Verdicts'
<1> DEFINE node == Task.node
           request == active[node]
           x == Execute([type |-> "cancel", node |-> node, request |-> request])
           y == [op |-> "start", node |-> node]
<1>1. At("schedule")
  BY DEF ScheduleValidation
<1>2. /\ agenda # << >> /\ Task = agenda[1] /\ agenda[1].op = "schedule" /\ 1 \in 1..Len(agenda)
      /\ ~Quiet(agenda[1])
  BY <1>1, HeadTask DEF Quiet
<1>3. node \in Validated
  BY <1>2 DEF Verdicts, Asked, ForValidated
<1>4. \A n : n # node => ~Reschedules(agenda[1], n)
  BY <1>2 DEF Reschedules, Schedules
<1>5. UNCHANGED <<nodes, answers, savepoint, lifecycle, throws>>
  BY DEF ScheduleValidation, storeVars, observerVars
<1>6. \/ node \notin DOMAIN nodes /\ active' = active
      \/ active' = Cancelled({node})
  BY DEF ScheduleValidation
<1>7. \/ Do(<< >>)
      \/ Do((IF request = NoRequest THEN << >> ELSE <<x>>)
            \o (IF CanValidate(nodes[node]) THEN <<y>> ELSE << >>))
  BY DEF ScheduleValidation
<1>8. Modest(x) /\ Modest(y)
  BY <1>3 DEF Execute, Modest, ForValidated
<1> HIDE DEF x, y, request
<1>9. PICK p : Do(p) /\ Bidden(p)
  <2>1. Bidden(<< >>) /\ Bidden(<<x>>) /\ Bidden(<<y>>)
    BY <1>8, BiddenNone, BiddenOne
  <2>2. \A p, q : p \in {<< >>, <<x>>} /\ q \in {<< >>, <<y>>} => Bidden(p \o q)
    BY <2>1, BiddenJoined
  <2>3. Do(<< >>) \/ \E p \in {<< >>, <<x>>}, q \in {<< >>, <<y>>} : Do(p \o q)
    BY <1>7
  <2> QED
    BY <2>1, <2>2, <2>3
<1>10. \A a \in answers : a.node \in DOMAIN nodes /\ active'[a.node] = a.request =>
         active[a.node] = a.request /\ ~Reschedules(agenda[1], a.node)
  <2> SUFFICES ASSUME NEW a \in answers, a.node \in DOMAIN nodes, active'[a.node] = a.request
               PROVE  active[a.node] = a.request /\ a.node # node
    BY <1>4
  <2>1. CASE node \notin DOMAIN nodes /\ active' = active
    BY <2>1
  <2>2. CASE active' = Cancelled({node})
    BY <2>2, StillCurrent
  <2> QED
    BY <1>6, <2>1, <2>2
<1> HIDE DEF node
<1>11. ASSUME throws' = 0
       PROVE  /\ FreshVerdicts(nodes') /\ savepoint' = None
              /\ lifecycle' = "active" => Followed(nodes', agenda', active', answers)
  <2>1. throws = 0
    BY <1>5, <1>11
  <2>2. savepoint = None
    <3>1. \A op \in Preparing : ~At(op)
      BY <1>2 DEF At, Preparing
    <3> QED
      BY <2>1, <3>1, NoSavepoint
  <2>3. ASSUME lifecycle = "active"
        PROVE  Followed(nodes, agenda', active', answers)
    <3>1. Followed(nodes, agenda, active, answers)
      BY <2>1, <2>3 DEF Verdicts, Judging
    <3> QED
      BY <1>2, <1>9, <1>10, <3>1, FollowedPushed
  <2> QED
    BY <1>5, <2>1, <2>2, <2>3 DEF Verdicts
<1> QED
  BY <1>2, <1>5, <1>9, <1>11, PushedVerdicts

(* A new request is named first, launched afterwards.                       *)
LEMMA StartAsked ==
  ASSUME GraphTypes, AgendaOK, At("start"), Asked(agenda, answers),
         NEW r, r = requests + 1, NEW x, NEW y, x.op = "execute", x.command.type = "start",
         x.command.request = r,
         y.op = "launch", y.request = r, y.node \in Validated
  PROVE  LET t == <<x, y>> \o Tail(agenda)
         IN  IsStack(t) /\ Asked(t, answers) /\ NoneResolves(t)
<1> DEFINE p == <<x, y>>
           t == p \o Tail(agenda)
<1>1. /\ IsStack(agenda) /\ agenda # << >> /\ agenda[1].op = "start" /\ Len(agenda) \in Nat
      /\ \A i \in 1..Len(agenda) : TaskOK(agenda[i], requests)
  BY AtFacts, StackFacts DEF At, AgendaOK, Typed
<1>2. IsStack(p) /\ Len(p) = 2 /\ p[1] = x /\ p[2] = y
  BY StackOfTwo
<1> HIDE DEF p
<1>3. /\ IsStack(t) /\ Rest(agenda, t, 1, Len(p)) /\ \A i \in 1..Len(p) : t[i] = p[i]
  <2>1. IsStack(agenda) /\ IsStack(p) /\ agenda # << >>
    BY <1>1, <1>2
  <2> QED
    BY <2>1, Pushing
<1> HIDE DEF t
<1>4. t[1] = x /\ t[2] = y
  BY <1>2, <1>3
<1> DEFINE d(j) == (j - 2) + 1
<1>5. /\ Len(t) \in Nat
      /\ \A j \in 1..Len(t) : \/ j = 1 \/ j = 2
                              \/ j > 2 /\ t[j] = agenda[d(j)] /\ d(j) \in 2..Len(agenda) /\ d(j) = j - 1
  BY <1>1, <1>2, <1>3 DEF Rest
<1> HIDE DEF d
<1>6. requests \in Nat /\ r \in Nat /\ r > requests
  BY DEF GraphTypes
<1>7. \A i \in 2..Len(agenda) : ~Names(agenda[i], r) /\ i \in 1..Len(agenda)
  <2> SUFFICES ASSUME NEW i \in 2..Len(agenda), Names(agenda[i], r) PROVE FALSE
    BY <1>1
  <2>1. TaskOK(agenda[i], requests)
    BY <1>1
  <2>2. r \in 0..requests
    BY <2>1 DEF Names, TaskOK, Command
  <2> QED
    BY <1>6, <2>2
<1>8. \A j \in 1..Len(t) : ForValidated(t[j]) /\ ~Resolves(t[j])
  <2> SUFFICES ASSUME NEW j \in 1..Len(t) PROVE ForValidated(t[j]) /\ ~Resolves(t[j])
    OBVIOUS
  <2>1. CASE j = 1
    BY <1>4, <2>1 DEF ForValidated, Resolves
  <2>2. CASE j = 2
    BY <1>4, <2>2 DEF ForValidated, Resolves
  <2>3. CASE j > 2 /\ t[j] = agenda[d(j)] /\ d(j) \in 2..Len(agenda)
    <3>1. d(j) \in 1..Len(agenda) /\ d(j) # 1
      BY <1>1, <2>3
    <3> QED
      BY <2>3, <3>1 DEF Asked
  <2> QED
    BY <1>5, <2>1, <2>2, <2>3
<1>9. ASSUME NEW i \in 1..Len(t), NEW j \in 1..Len(t), t[i].op = "launch", Names(t[j], t[i].request)
      PROVE  j <= i
  <2>1. CASE i = 1
    BY <1>4, <1>9, <2>1
  <2>2. CASE i = 2
    <3>1. Names(t[j], r)
      BY <1>4, <1>9, <2>2
    <3> QED
      BY <1>5, <1>7, <2>2, <3>1
  <2>3. CASE i > 2 /\ t[i] = agenda[d(i)] /\ d(i) \in 2..Len(agenda) /\ d(i) = i - 1
    <3>1. CASE j <= 2
      BY <2>3, <3>1
    <3>2. CASE j > 2 /\ t[j] = agenda[d(j)] /\ d(j) \in 2..Len(agenda) /\ d(j) = j - 1
      <4>1. d(j) <= d(i)
        BY <1>7, <1>9, <2>3, <3>2 DEF Asked
      <4> QED
        BY <2>3, <3>2, <4>1
    <3> QED
      BY <1>5, <3>1, <3>2
  <2> QED
    BY <1>5, <2>1, <2>2, <2>3
<1>10. \A j \in 1..Len(t) : \A a \in answers : ~Names(t[j], a.request)
  <2> SUFFICES ASSUME NEW j \in 1..Len(t), NEW a \in answers PROVE ~Names(t[j], a.request)
    OBVIOUS
  <2>1. a.request \in 1..requests /\ a.request # r
    BY <1>6 DEF GraphTypes
  <2>2. CASE j = 1
    BY <1>4, <2>1, <2>2 DEF Names
  <2>3. CASE j = 2
    BY <1>4, <2>1, <2>3 DEF Names
  <2>4. CASE j > 2 /\ t[j] = agenda[d(j)] /\ d(j) \in 2..Len(agenda)
    BY <1>7, <2>4 DEF Asked
  <2> QED
    BY <1>5, <2>2, <2>3, <2>4
<1>11. Asked(t, answers) /\ NoneResolves(t)
  BY <1>8, <1>9, <1>10 DEF Asked, NoneResolves
<1> QED
  BY <1>3, <1>11 DEF t, p

LEMMA StartVerdicts ==
  ASSUME IInv, Verdicts, StartValidation, UNCHANGED applicationVars
  PROVE  Verdicts'
<1> DEFINE r == requests + 1
           x == Execute([type |-> "start", node |-> Task.node, request |-> r])
           y == [op |-> "launch", node |-> Task.node, request |-> r]
           p == <<x, y>>
<1>1. At("start") /\ AgendaOK /\ GraphTypes /\ IsStack(agenda)
  BY AgendaStack DEF StartValidation, IInv
<1>2. /\ agenda # << >> /\ Task = agenda[1] /\ agenda[1].op = "start" /\ 1 \in 1..Len(agenda)
      /\ ~Quiet(agenda[1]) /\ Passing
  BY <1>1, HeadTask DEF Quiet
<1>3. Task.node \in Validated
  BY <1>2 DEF Verdicts, Asked, ForValidated
<1>4. Same
  BY AgendaStack DEF Same, StartValidation, storeVars, observerVars
<1>5. Do(p)
  BY DEF StartValidation
<1>6. /\ x.op = "execute" /\ x.command.type = "start" /\ x.command.request = r
      /\ y.op = "launch" /\ y.request = r /\ y.node \in Validated
  BY <1>3 DEF Execute
<1>7. Asked(agenda, answers)
  BY DEF Verdicts
<1>8. r = requests + 1
  OBVIOUS
<1> HIDE DEF r, x, y
<1>9. IsStack(p \o Tail(agenda)) /\ Asked(p \o Tail(agenda), answers) /\ NoneResolves(p \o Tail(agenda))
  BY <1>1, <1>6, <1>7, <1>8, StartAsked
<1>10. IsStack(p)
  BY StackOfTwo
<1> HIDE DEF p
<1>11. \A n : Owed(agenda, n) => Owed(p \o Tail(agenda), n)
  BY <1>1, <1>2, <1>10, OwedPush DEF Passing
<1> QED
  BY <1>4, <1>5, <1>9, <1>11, SameVerdicts DEF Do

LEMMA LaunchVerdicts ==
  ASSUME IInv, Verdicts, LaunchValidation, UNCHANGED applicationVars
  PROVE  Verdicts'
<1> DEFINE node == Task.node
           a == [node |-> node, request |-> Task.request, value |-> nodes[node].value]
           e == << >>
<1>1. At("launch")
  BY DEF LaunchValidation
<1>2. /\ agenda # << >> /\ Task = agenda[1] /\ agenda[1].op = "launch" /\ 1 \in 1..Len(agenda)
      /\ ~Quiet(agenda[1]) /\ Passing /\ IsStack(agenda) /\ Len(agenda) \in Nat
      /\ TaskOK(Task, requests)
  BY <1>1, HeadTask, AgendaStack DEF Quiet
<1>3. UNCHANGED <<nodes, savepoint, lifecycle, throws>> /\ Do(e)
  BY DEF LaunchValidation, storeVars, observerVars
<1>4. CASE UNCHANGED <<active, answers>>
  <2>1. Same
    BY <1>3, <1>4, AgendaStack DEF Same
  <2> QED
    BY <1>1, <1>3, <2>1, PopVerdicts
<1>5. CASE /\ node \in DOMAIN nodes
           /\ active' = [active EXCEPT ![node] = Task.request]
           /\ answers' = answers \cup {a}
  <2>1. node \in Validated /\ node \in Nodes
    BY <1>2 DEF Verdicts, Asked, ForValidated, TaskOK
  <2>2. /\ active'[node] = Task.request
        /\ \A n \in Nodes \ {node} : active'[n] = active[n]
    BY <1>5, <2>1 DEF IInv, GraphTypes
  <2>3. a.node = node /\ a.request = Task.request /\ a.value = nodes[node].value
    OBVIOUS
  <2> HIDE DEF a
  <2>4. Bidden(e)
    BY BiddenNone
  <2>5. IsStack(e) /\ Len(e) = 0
    BY EmptyStack
  <2> HIDE DEF e
  <2>6. IsStack(agenda') /\ Asked(agenda', answers) /\ NoneResolves(agenda')
    BY <1>2, <1>3, <2>4, PushAsked DEF Verdicts, Do
  <2>7. \A j \in 1..Len(agenda') : ~Names(agenda'[j], Task.request)
    <3>1. Rest(agenda, e \o Tail(agenda), 1, Len(e))
      BY <1>2, <2>5, Pushing
    <3>2. Rest(agenda, agenda', 1, 0)
      BY <1>3, <2>5, <3>1 DEF Do
    <3> SUFFICES ASSUME NEW j \in 1..Len(agenda'), Names(agenda'[j], Task.request) PROVE FALSE
      OBVIOUS
    <3> DEFINE i == (j - 0) + 1
    <3>3. agenda'[j] = agenda[i] /\ i \in 2..Len(agenda) /\ i \in 1..Len(agenda)
      BY <1>2, <3>2 DEF Rest
    <3> HIDE DEF i
    <3>4. i <= 1
      BY <1>2, <3>3 DEF Verdicts, Asked
    <3> QED
      BY <3>3, <3>4
  <2>8. Asked(agenda', answers')
    BY <1>5, <2>3, <2>6, <2>7 DEF Asked
  <2>9. \A x \in answers' : x.node \in Validated
    BY <1>5, <2>1, <2>3 DEF Verdicts
  <2>10. At("execute")' => Honest(Task.command)'
    BY <2>6, NothingResolved
  <2>11. ASSUME throws' = 0
         PROVE  /\ FreshVerdicts(nodes') /\ savepoint' = None
                /\ lifecycle' = "active" => Followed(nodes', agenda', active', answers')
    <3>1. throws = 0
      BY <1>3, <2>11
    <3>2. savepoint = None
      <4>1. \A op \in Preparing : ~At(op)
        BY <1>2 DEF At, Preparing
      <4> QED
        BY <3>1, <4>1, NoSavepoint
    <3>3. ASSUME lifecycle = "active"
          PROVE  Followed(nodes, agenda', active', answers')
      <4>1. Followed(nodes, agenda, active, answers)
        BY <3>1, <3>3 DEF Verdicts, Judging
      <4>2. ASSUME NEW x \in answers, x.node \in DOMAIN nodes, active'[x.node] = x.request
            PROVE  active[x.node] = x.request /\ ~Reschedules(agenda[1], x.node)
        <5>1. x.node # node
          <6>1. ~Names(agenda[1], x.request)
            BY <1>2 DEF Verdicts, Asked
          <6> QED
            BY <1>2, <2>2, <4>2, <6>1 DEF Names
        <5>2. x.node \in Nodes
          BY DEF IInv, GraphTypes
        <5> QED
          BY <1>2, <2>2, <4>2, <5>1, <5>2 DEF Passing
      <4>3. Followed(nodes, agenda', active', answers)
        BY <1>2, <1>3, <2>4, <4>1, <4>2, FollowedPushed
      <4> QED
        BY <1>5, <2>3, <4>3 DEF Followed
    <3> QED
      BY <1>3, <3>1, <3>2, <3>3 DEF Verdicts
  <2>12. throws' = 0 /\ lifecycle' = "active" => Judging'
    BY <2>10, <2>11 DEF Judging, None
  <2> QED
    BY <2>8, <2>9, <2>11, <2>12 DEF Verdicts, None
<1> QED
  BY <1>4, <1>5 DEF LaunchValidation

LEMMA FinishDisposalVerdicts ==
  ASSUME IInv, Verdicts, FinishDisposal, UNCHANGED applicationVars
  PROVE  Verdicts'
<1>1. At("disposed") /\ Do(<< >>) /\ lifecycle' = "disposed"
  BY DEF FinishDisposal
<1>2. UNCHANGED <<nodes, savepoint, answers, throws>>
  BY DEF FinishDisposal, observerVars
<1>3. agenda # << >>
  BY <1>1, HeadTask
<1>4. Bidden(<< >>)
  BY BiddenNone
<1>5. lifecycle' # "active"
  BY <1>1
<1> QED
  BY <1>1, <1>2, <1>3, <1>4, <1>5, PushedVerdicts DEF Verdicts, None

(* An answer is about the value the control has: nothing is owed then.      *)
LEMMA AnswerVerdicts ==
  ASSUME IInv, Verdicts, NEW answer \in answers, NEW verdict \in {answer.value, NoVerdict},
         AnswerValidation(answer, verdict), UNCHANGED applicationVars
  PROVE  Verdicts'
<1> DEFINE x == Execute([type |-> "resolve", node |-> answer.node,
                         request |-> answer.request, verdict |-> verdict])
           s == << >>
<1>1. agenda = s /\ Len(s) = 0 /\ IsStack(s) /\ agenda = << >>
  BY EmptyStack DEF AnswerValidation
<1>2. \A n : ~Owed(agenda, n)
  BY <1>1 DEF Owed
<1>3. /\ UNCHANGED <<lifecycle, savepoint, nodes, throws>>
      /\ answers' = answers \ {answer}
  BY DEF AnswerValidation, storeVars, observerVars
<1>4. /\ active' = active \/ active' = Cancelled({answer.node})
      /\ agenda' = s \/ (agenda' = <<x>> /\ active[answer.node] = answer.request)
  BY <1>1 DEF AnswerValidation, Current
<1>5. x.op = "execute" /\ x.command.type = "resolve" /\ ForValidated(x) /\ \A r : ~Names(x, r)
  BY DEF Execute, ForValidated, Names
<1>6. /\ x.command.node = answer.node /\ x.command.request = answer.request
      /\ x.command.verdict = verdict
  BY DEF Execute
<1> HIDE DEF x, s
<1>7. /\ Len(agenda') \in {0, 1}
      /\ \A i \in 1..Len(agenda') : i = 1 /\ agenda'[i] = x /\ active[answer.node] = answer.request
  <2>1. CASE agenda' = s
    <3>1. Len(agenda') = 0
      BY <1>1, <2>1
    <3> QED
      BY <3>1
  <2>2. CASE agenda' = <<x>> /\ active[answer.node] = answer.request
    <3>1. Len(agenda') = 1 /\ agenda'[1] = x
      BY <2>2, StackOfOne
    <3>2. \A i \in 1..1 : i = 1
      OBVIOUS
    <3> QED
      BY <2>2, <3>1, <3>2
  <2> QED
    BY <1>4, <2>1, <2>2
<1>8. Asked(agenda', answers')
  BY <1>5, <1>7 DEF Asked
<1>9. \A a \in answers' : a.node \in Validated
  BY <1>3 DEF Verdicts
<1>10. ASSUME throws' = 0
       PROVE  /\ FreshVerdicts(nodes') /\ savepoint' = None
              /\ lifecycle' = "active" => Judging'
  <2>1. throws = 0
    BY <1>3, <1>10
  <2>2. savepoint = None
    <3>1. \A op \in Preparing : ~At(op)
      BY <1>1 DEF At
    <3> QED
      BY <2>1, <3>1, NoSavepoint
  <2>3. ASSUME lifecycle = "active"
        PROVE  Judging'
    <3>1. Followed(nodes, agenda, active, answers)
      BY <2>1, <2>3 DEF Verdicts, Judging
    <3>2. \A a \in answers : /\ a.node \in DOMAIN nodes /\ active[a.node] = a.request
                             /\ nodes[a.node].request = a.request
                             => nodes[a.node].value = a.value
      BY <1>2, <3>1 DEF Followed
    <3>3. \A a \in answers : active'[a.node] = a.request => active[a.node] = a.request
      BY <1>4, StillCurrent
    <3>4. Followed(nodes', agenda', active', answers')
      BY <1>3, <3>2, <3>3 DEF Followed
    <3>5. ASSUME At("execute")'
          PROVE  Honest(Task.command)'
      <4>1. agenda' # << >> /\ agenda' # s
        BY <3>5 DEF At, s
      <4>2. agenda' = <<x>> /\ active[answer.node] = answer.request
        BY <1>4, <4>1
      <4>3. Task' = x
        BY <4>2 DEF Task
      <4>4. /\ answer.node \in DOMAIN nodes /\ nodes[answer.node].request = answer.request
            => nodes[answer.node].value = answer.value
        BY <3>2, <4>2
      <4> QED
        BY <1>3, <1>6, <4>3, <4>4 DEF Honest
    <3> QED
      BY <1>3, <2>2, <3>4, <3>5 DEF Judging, None
  <2> QED
    BY <1>3, <2>1, <2>2, <2>3 DEF Verdicts
<1> QED
  BY <1>8, <1>9, <1>10 DEF Verdicts, None

-----------------------------------------------------------------------------
(* Steps of an update and of a disposal.                                    *)

LEMMA ModestTask ==
  ASSUME NEW task, task.op \notin {"schedule", "start", "launch", "settle", "execute"}
  PROVE  Modest(task)
BY DEF Modest, ForValidated

LEMMA EndVerdicts ==
  ASSUME IInv, Verdicts, ProjectFact \/ FinishUpdate \/ Quarantine
  PROVE  Verdicts'
<1>1. Same
  BY SameSteps DEF ProjectFact, FinishUpdate, Quarantine, storeVars, observerVars
<1>2. Do(<< >>) /\ (At("project") \/ At("finish") \/ At("quarantined"))
  BY DEF ProjectFact, FinishUpdate, Quarantine
<1> QED
  BY <1>1, <1>2, PopVerdicts

LEMMA QuarantineTasks == Bidden(<<[op |-> "dispose"], [op |-> "quarantined"]>>)
<1> DEFINE x == [op |-> "dispose"]
           y == [op |-> "quarantined"]
<1>1. Modest(x) /\ Modest(y)
  BY ModestTask
<1> HIDE DEF x, y
<1>2. Bidden(<<x, y>>)
  BY <1>1, BiddenTwo
<1> QED
  BY <1>2 DEF x, y

LEMMA FailToRestoreVerdicts ==
  ASSUME IInv, Verdicts, FailToRestore
  PROVE  Verdicts'
<1>1. Same
  BY SameSteps DEF FailToRestore, storeVars, observerVars
<1>2. At("restore") /\ Do(<<[op |-> "dispose"], [op |-> "quarantined"]>>)
  BY DEF FailToRestore
<1>3. Passing /\ ~Quiet(agenda[1])
  BY <1>2, HeadTask DEF Quiet
<1> QED
  BY <1>1, <1>2, <1>3, QuarantineTasks, DoVerdicts

LEMMA DisposeApplicationVerdicts ==
  ASSUME IInv, Verdicts, DisposeApplication
  PROVE  Verdicts'
<1> DEFINE x == Emit("disposed", {}, revision)
           y == [op |-> "disposed"]
<1>1. Same
  BY SameSteps DEF DisposeApplication, storeVars, observerVars
<1>2. At("dispose")
  BY DEF DisposeApplication
<1>3. Passing /\ ~Quiet(agenda[1])
  BY <1>2, HeadTask DEF Quiet
<1>4. Modest(x) /\ Modest(y)
  BY EmitModest, ModestTask
<1>5. Do(<< >>) \/ Do(<<x, y>>)
  BY DEF DisposeApplication, Dispose
<1> HIDE DEF x, y
<1>6. Bidden(<<x, y>>) /\ Bidden(<< >>)
  BY <1>4, BiddenTwo, BiddenNone
<1> QED
  BY <1>1, <1>3, <1>5, <1>6, DoVerdicts

LEMMA BiddenLater ==
  ASSUME NEW op \in {"commit", "restore"}
  PROVE  Bidden(<<Later(op)>>)
<1>1. Modest(Later(op))
  BY ModestTask DEF Later
<1> QED
  BY <1>1, BiddenOne

LEMMA RenderCandidateVerdicts ==
  ASSUME IInv, Verdicts, RenderCandidate
  PROVE  Verdicts'
<1>1. Same
  BY SameSteps DEF RenderCandidate, storeVars, observerVars
<1>2. At("render")
  BY DEF RenderCandidate
<1>3. Passing /\ ~Quiet(agenda[1])
  BY <1>2, HeadTask DEF Quiet
<1>4. PICK p : Do(p) /\ Bidden(p)
  BY BiddenLater DEF RenderCandidate
<1> QED
  BY <1>1, <1>3, <1>4, DoVerdicts

LEMMA CommitTasksBidden ==
  ASSUME NEW S \in SUBSET Validated
  PROVE  Bidden(CommitTasks(S))
<1> DEFINE d == <<[op |-> "drain"]>>
           e == Each("schedule", S)
           c == <<Contained>>
           f == <<[op |-> "finish"]>>
<1>1. Bidden(d) /\ Bidden(c) /\ Bidden(f)
  <2>1. Modest([op |-> "drain"]) /\ Modest(Contained) /\ Modest([op |-> "finish"])
    BY ModestTask DEF Contained
  <2> QED
    BY <2>1, BiddenOne
<1>2. Bidden(e)
  BY BiddenEach
<1> HIDE DEF d, e, c, f
<1>3. Bidden(((d \o e) \o c) \o f)
  BY <1>1, <1>2, BiddenJoined
<1> QED
  BY <1>3 DEF CommitTasks, d, e, c, f

LEMMA CommitCandidateVerdicts ==
  ASSUME IInv, Verdicts, CommitCandidate
  PROVE  Verdicts'
<1>1. At("commit") /\ throws \in Nat
  BY AgendaStack DEF CommitCandidate
<1>2. agenda # << >> /\ ~Quiet(agenda[1]) /\ \A n : ~Reschedules(agenda[1], n)
  BY <1>1, HeadTask DEF Quiet, Passing
<1>3. UNCHANGED <<nodes, answers, lifecycle>>
  BY DEF CommitCandidate
<1>4. CASE CommitCoordination(<<[op |-> "finish"]>>) /\ UNCHANGED throws
  <2> DEFINE S == Changed(savepoint.nodes, nodes) \cap Validated
  <2>1. /\ Do(CommitTasks(S)) /\ savepoint' = None /\ active' = Cancelled(Removed)
    BY <1>4 DEF CommitCoordination, CommitTasks
  <2>2. Bidden(CommitTasks(S))
    BY CommitTasksBidden
  <2> HIDE DEF S
  <2>3. \A x \in answers : x.node \in DOMAIN nodes /\ active'[x.node] = x.request =>
          active[x.node] = x.request /\ ~Reschedules(agenda[1], x.node)
    BY <1>2, <2>1, StillCurrent
  <2>4. ASSUME throws' = 0
        PROVE  /\ FreshVerdicts(nodes')
               /\ lifecycle' = "active" => Followed(nodes', agenda', active', answers)
    <3>1. FreshVerdicts(nodes) /\ (lifecycle = "active" => Followed(nodes, agenda, active, answers))
      BY <1>4, <2>4 DEF Verdicts, Judging
    <3>2. ASSUME lifecycle = "active"
          PROVE  Followed(nodes, agenda', active', answers)
      BY <1>2, <2>1, <2>2, <2>3, <3>1, <3>2, FollowedPushed
    <3> QED
      BY <1>3, <3>1, <3>2
  <2> QED
    BY <1>2, <1>3, <2>1, <2>2, <2>4, PushedVerdicts
<1>5. CASE SelectorThrows /\ Do(<<Later("restore")>>)
  <2>1. throws' # 0
    BY <1>1, <1>5 DEF SelectorThrows
  <2>2. Bidden(<<Later("restore")>>)
    BY BiddenLater
  <2> QED
    BY <1>2, <1>3, <1>5, <2>1, <2>2, PushedVerdicts
<1> QED
  BY <1>4, <1>5 DEF CommitCandidate

(* What a discarded coordination brings back was not out of date either.    *)
LEMMA DiscardVerdicts ==
  ASSUME IInv, Verdicts, NEW op \in Preparing, At(op), op # "restore" \/ ~savepoint.settled,
         DiscardCoordination, UNCHANGED <<lifecycle, validationVars, throws>>,
         NEW p, Bidden(p), Do(p)
  PROVE  Verdicts'
<1>1. savepoint # None
  BY PreparedFacts
<1>2. nodes' = savepoint.nodes /\ savepoint' = None /\ UNCHANGED <<active, answers>>
  BY DEF DiscardCoordination, FinishCoordination, validationVars
<1>3. agenda # << >> /\ ~Quiet(agenda[1]) /\ \A n : ~Reschedules(agenda[1], n)
  BY HeadTask DEF Quiet, Passing, Preparing
<1>4. ASSUME throws' = 0
      PROVE  /\ FreshVerdicts(savepoint.nodes)
             /\ lifecycle = "active" => Followed(savepoint.nodes, agenda', active, answers)
  <2>1. /\ FreshVerdicts(savepoint.nodes)
        /\ lifecycle = "active" => Followed(savepoint.nodes, agenda, active, answers)
    BY <1>1, <1>4 DEF Verdicts, Judging
  <2>2. ASSUME lifecycle = "active"
        PROVE  Followed(savepoint.nodes, agenda', active, answers)
    BY <1>3, <2>1, <2>2, FollowedPushed
  <2> QED
    BY <2>1, <2>2
<1> QED
  BY <1>2, <1>3, <1>4, PushedVerdicts

LEMMA GiveUpCandidateVerdicts ==
  ASSUME IInv, Verdicts, GiveUpCandidate
  PROVE  Verdicts'
<1>1. /\ At("giveUp") /\ DiscardCoordination /\ Do(<< >>)
      /\ UNCHANGED <<lifecycle, validationVars, throws>>
  BY DEF GiveUpCandidate, observerVars
<1> QED
  BY <1>1, BiddenNone, DiscardVerdicts DEF Preparing

LEMMA RestoreCandidateVerdicts ==
  ASSUME IInv, Verdicts, RestoreCandidate
  PROVE  Verdicts'
<1>1. /\ At("restore") /\ ~savepoint.settled /\ DiscardCoordination
      /\ UNCHANGED <<lifecycle, validationVars, throws>>
  BY DEF RestoreCandidate, observerVars
<1>2. PICK p : Bidden(p) /\ Do(p)
  BY BiddenNone, QuarantineTasks DEF RestoreCandidate
<1> QED
  BY <1>1, <1>2, DiscardVerdicts DEF Preparing

(* The controls of a candidate document wait for no answer.                 *)
LEMMA ReconciledFresh ==
  ASSUME GraphTypes, NEW d \in Documents
  PROVE  /\ FreshVerdicts(Reconciled(d))
         /\ \A s, current : Followed(Reconciled(d), s, current, answers)
<1>1. ASSUME NEW v, NEW r, NEW control \in ControlOf(r)
      PROVE  Migrated(control, v).verdict = NoVerdict /\ Migrated(control, v).request = NoRequest
  BY DEF Migrated, ControlOf, Fresh
<1>2. \A v : Fresh(v).verdict = NoVerdict /\ Fresh(v).request = NoRequest
  BY DEF Fresh
<1>3. ASSUME NEW n \in NodesOf[d]
      PROVE  Reconciled(d)[n].verdict = NoVerdict /\ Reconciled(d)[n].request = NoRequest
  <2>1. Reconciled(d)[n] = IF n \in DOMAIN nodes THEN Migrated(nodes[n], adapter[n])
                           ELSE Fresh(adapter[n])
    BY DEF Reconciled
  <2>2. n \in DOMAIN nodes => nodes[n] \in ControlOf(requests)
    BY DEF GraphTypes
  <2> QED
    BY <1>1, <1>2, <2>1, <2>2
<1>4. DOMAIN Reconciled(d) = NodesOf[d]
  BY DEF Reconciled
<1>5. \A x \in answers : x.request # NoRequest
  BY DEF GraphTypes, NoRequest
<1> HIDE DEF NoRequest
<1> QED
  BY <1>3, <1>4, <1>5 DEF FreshVerdicts, Followed

LEMMA BeginUpdateVerdicts ==
  ASSUME IInv, Verdicts, BeginUpdate
  PROVE  Verdicts'
<1>1. At("update") /\ GraphTypes
  BY DEF BeginUpdate, IInv
<1>2. /\ agenda # << >> /\ ~Quiet(agenda[1]) /\ \A n : ~Reschedules(agenda[1], n)
      /\ TaskOK(Task, requests) /\ Task.op = "update"
  BY <1>1, HeadTask DEF Quiet, Passing
<1>3. UNCHANGED <<lifecycle, validationVars, throws, active, answers>>
  BY DEF BeginUpdate, observerVars, validationVars
<1>4. CASE Do(<< >>) /\ UNCHANGED <<storeVars, savepoint>>
  <2>1. Same
    BY <1>3, <1>4, SameSteps DEF storeVars
  <2> QED
    BY <1>1, <1>4, <2>1, PopVerdicts
<1>5. ASSUME savepoint' = Savepoint,
             nodes' = Reconciled(Task.document) \/ nodes' = nodes,
             NEW op \in {"render", "giveUp"}, Do(<<[op |-> op, previous |-> document]>>)
      PROVE  Verdicts'
  <2> DEFINE p == <<[op |-> op, previous |-> document]>>
  <2>1. Task.document \in Documents
    BY <1>2 DEF TaskOK
  <2>2. Bidden(p)
    <3>1. Modest([op |-> op, previous |-> document])
      BY ModestTask
    <3> QED
      BY <3>1, BiddenOne
  <2>3. Do(p) /\ savepoint'.nodes = nodes
    BY <1>5 DEF Savepoint
  <2> HIDE DEF p
  <2>4. ASSUME throws' = 0
        PROVE  /\ FreshVerdicts(nodes) /\ FreshVerdicts(nodes')
               /\ lifecycle = "active" =>
                    /\ Followed(nodes, agenda', active, answers)
                    /\ Followed(nodes', agenda', active, answers)
    <3>1. FreshVerdicts(nodes) /\ (lifecycle = "active" => Followed(nodes, agenda, active, answers))
      BY <1>3, <2>4 DEF Verdicts, Judging
    <3>2. ASSUME lifecycle = "active"
          PROVE  Followed(nodes, agenda', active, answers)
      BY <1>2, <2>2, <2>3, <3>1, <3>2, FollowedPushed
    <3> QED
      BY <1>1, <1>5, <2>1, <3>1, <3>2, ReconciledFresh
  <2> QED
    BY <1>2, <1>3, <2>2, <2>3, <2>4, PushedVerdicts
<1> QED
  BY <1>4, <1>5 DEF BeginUpdate, ReconcileTentatively, storeVars

-----------------------------------------------------------------------------
(* Turns, and every step together.                                          *)

LEMMA CallVerdicts ==
  ASSUME IInv, Verdicts, NEW p, Call(p), Bidden(p)
  PROVE  Verdicts'
<1>1. Same
  BY SameSteps DEF Call, storeVars, observerVars
<1> QED
  BY <1>1, TurnVerdicts DEF Call

LEMMA InputVerdicts ==
  ASSUME IInv, Verdicts, NEW n \in Nodes, NEW v \in Values, Input(n, v)
  PROVE  Verdicts'
<1> DEFINE x == Emit("intent", {}, revision)
           y == Execute([type |-> "value", node |-> n, value |-> v])
<1>1. Call(<<x, y>>)
  BY DEF Input
<1>2. Modest(x) /\ Modest(y)
  BY EmitModest DEF Execute, Modest, ForValidated
<1> HIDE DEF x, y
<1>3. Bidden(<<x, y>>)
  BY <1>2, BiddenTwo
<1> QED
  BY <1>1, <1>3, CallVerdicts

LEMMA HostCallVerdicts ==
  ASSUME IInv, Verdicts, \/ \E d \in Documents : Call(<<Update(d)>>)
                         \/ Call(<<[op |-> "dispose"]>>)
  PROVE  Verdicts'
<1>1. \A d : Modest(Update(d))
  BY ModestTask DEF Update
<1>2. Modest([op |-> "dispose"])
  BY ModestTask
<1>3. PICK task : Modest(task) /\ Call(<<task>>)
  BY <1>1, <1>2
<1> QED
  BY <1>3, BiddenOne, CallVerdicts

LEMMA InitVerdicts ==
  ASSUME Init
  PROVE  Verdicts
<1> DEFINE s == << >>
<1>1. agenda = s /\ Len(s) = 0
  BY EmptyStack DEF Init
<1>2. Asked(agenda, answers) /\ answers = {}
  <2>1. Len(agenda) = 0
    BY <1>1
  <2> QED
    BY <2>1 DEF Asked, Init
<1>3. FreshVerdicts(nodes) /\ savepoint = None
  BY DEF Init, FreshVerdicts, Fresh
<1>4. Followed(nodes, agenda, active, answers)
  BY <1>2 DEF Followed
<1>5. ~At("execute")
  BY DEF Init, At
<1> QED
  BY <1>2, <1>3, <1>4, <1>5 DEF Verdicts, Judging

LEMMA StutterVerdicts ==
  ASSUME Verdicts, UNCHANGED vars
  PROVE  Verdicts'
<1>1. UNCHANGED <<agenda, lifecycle, nodes, savepoint, active, answers, throws>>
  BY DEF vars, runtimeVars, storeVars, validationVars, observerVars
<1>2. (At("execute")' <=> At("execute")) /\ Task' = Task
  BY <1>1 DEF At, Task
<1>3. Judging => Judging'
  BY <1>1, <1>2 DEF Judging, Honest, None
<1> QED
  BY <1>1, <1>3 DEF Verdicts, None

LEMMA RuntimeVerdicts ==
  ASSUME IInv, Verdicts, RuntimeNext
  PROVE  Verdicts'
<1>1. UNCHANGED applicationVars
  BY DEF RuntimeNext
<1>2. CASE EmitFact
  BY <1>1, <1>2, EmitVerdicts
<1>3. CASE DrainFact
  BY <1>1, <1>3, DrainVerdicts
<1>4. CASE Observe
  BY <1>1, <1>4, ObserveVerdicts
<1>5. CASE ExecuteCommand
  BY <1>1, <1>5, ExecuteVerdicts
<1>6. CASE Settle
  BY <1>1, <1>6, SettleVerdicts
<1>7. CASE Resume
  BY <1>1, <1>7, ResumeVerdicts
<1>8. CASE RequestWrite
  BY <1>1, <1>8, RequestWriteVerdicts
<1>9. CASE WriteStore
  BY <1>1, <1>9, WriteStoreVerdicts
<1>10. CASE ScheduleValidation
  BY <1>1, <1>10, ScheduleVerdicts
<1>11. CASE StartValidation
  BY <1>1, <1>11, StartVerdicts
<1>12. CASE LaunchValidation
  BY <1>1, <1>12, LaunchVerdicts
<1>13. CASE FinishDisposal
  BY <1>1, <1>13, FinishDisposalVerdicts
<1>14. ASSUME NEW answer \in answers, NEW verdict \in {answer.value, NoVerdict},
              AnswerValidation(answer, verdict)
       PROVE  Verdicts'
  BY <1>1, <1>14, AnswerVerdicts
<1> QED
  BY <1>2, <1>3, <1>4, <1>5, <1>6, <1>7, <1>8, <1>9, <1>10, <1>11, <1>12, <1>13, <1>14
     DEF RuntimeNext

LEMMA ApplicationVerdicts ==
  ASSUME IInv, Verdicts, ApplicationNext
  PROVE  Verdicts'
<1>1. CASE ProjectFact \/ FinishUpdate \/ Quarantine
  BY <1>1, EndVerdicts
<1>2. CASE BeginUpdate
  BY <1>2, BeginUpdateVerdicts
<1>3. CASE RenderCandidate
  BY <1>3, RenderCandidateVerdicts
<1>4. CASE CommitCandidate
  BY <1>4, CommitCandidateVerdicts
<1>5. CASE GiveUpCandidate
  BY <1>5, GiveUpCandidateVerdicts
<1>6. CASE RestoreCandidate
  BY <1>6, RestoreCandidateVerdicts
<1>7. CASE FailToRestore
  BY <1>7, FailToRestoreVerdicts
<1>8. CASE DisposeApplication
  BY <1>8, DisposeApplicationVerdicts
<1>9. CASE ObserveStructurally
  BY <1>9, ObserveStructurallyVerdicts
<1>10. ASSUME NEW n \in Nodes, NEW v \in Values, Input(n, v)
       PROVE  Verdicts'
  BY <1>10, InputVerdicts
<1>11. CASE \/ \E d \in Documents : Call(<<Update(d)>>)
            \/ Call(<<[op |-> "dispose"]>>)
  BY <1>11, HostCallVerdicts
<1> QED
  BY <1>1, <1>2, <1>3, <1>4, <1>5, <1>6, <1>7, <1>8, <1>9, <1>10, <1>11 DEF ApplicationNext

(* No verdict is shown about a value the control no longer has: a change of *)
(* value clears it and owes a new validation, which no observer, exception  *)
(* or update drops while the application is active, so a late answer finds  *)
(* that its request is no longer the control's (validation.ts, answering).  *)
THEOREM FreshVerdictsShown == Spec => []VerdictsFresh
<1>1. Init => Verdicts
  BY InitVerdicts
<1>2. IInv /\ Verdicts /\ [Next]_vars => Verdicts'
  BY StutterVerdicts, RuntimeVerdicts, ApplicationVerdicts DEF Next
<1>3. Verdicts => VerdictsFresh
  BY DEF Verdicts, VerdictsFresh, FreshVerdicts
<1> QED
  BY <1>1, <1>2, <1>3, Invariance, PTL DEF Spec
=============================================================================
