------------------------- MODULE StudioSessionProofs -------------------------
(***************************************************************************)
(* Proofs about StudioSession, for any documents, proposals, budgets and   *)
(* number of calls: what an evaluation accepts, the budget ledger, the     *)
(* previews, and the changes of the live document.                         *)
(***************************************************************************)
EXTENDS StudioSession, WellFoundedInduction, TLAPS

-----------------------------------------------------------------------------
(* Induction: a set that holds 0 and every successor holds every natural   *)
(* number.                                                                 *)

(* Sets of natural numbers have a least element.                           *)
LEMMA Least ==
  ASSUME NEW S \in SUBSET Nat, S # {}
  PROVE  \E n \in S : \A m \in S : n <= m
<1> DEFINE R == OpToRel(<, Nat)
<1>1. R = {ss \in Nat \X Nat : ss[1] < ss[2]}
  BY DEF OpToRel
<1>2. IsWellFoundedOn(R, Nat)
  BY NatLessThanWellFounded
<1> HIDE DEF R
<1>3. \E x \in S : \A y \in S : ~(<<y, x>> \in R)
  BY <1>2, WFMin
<1>4. \A x, y \in Nat : y < x => <<y, x>> \in R
  BY <1>1
<1>5. PICK n \in S : \A y \in S : ~(<<y, n>> \in R)
  BY <1>3
<1>6. \A m \in S : ~(m < n)
  BY <1>4, <1>5
<1> QED
  BY <1>6
(* Induction over the natural numbers, for a set.                          *)
LEMMA SetInduction ==
  ASSUME NEW S, 0 \in S, \A n \in Nat : n \in S => n + 1 \in S
  PROVE  Nat \subseteq S
<1> SUFFICES ASSUME Nat \ S # {} PROVE FALSE
  OBVIOUS
<1>1. PICK n \in Nat \ S : \A m \in Nat \ S : n <= m
  BY Least
<1>2. n # 0 /\ n - 1 \in Nat /\ n - 1 \in S
  BY <1>1
<1> QED
  BY <1>1, <1>2

-----------------------------------------------------------------------------
(* The fold of the operations of a proposal (applyUiPatchProposal).  It is *)
(* a function of the indices done, which exists by induction.              *)

Carried(made, o) == {Applied(o, d) : d \in {e \in made : TestHolds(o, e)}}

IsFold(g, base, s, n) ==
  g = [t \in SUBSET (1..n) |-> IF t = {} THEN base
                               ELSE Carried(g[t \ {Max(t)}], s[Max(t)])]

(* The candidates are the value of the fold at all operations.              *)
LEMMA PatchedIsFold ==
  ASSUME NEW d, NEW s, NEW n, DOMAIN s = 1..n
  PROVE  Patched(d, s) = (CHOOSE g : IsFold(g, {d}, s, n))[1..n]
BY DEF Patched, FoldLeft, MapThenFoldSet, IsFold, Carried

(* The fold takes the operation of the largest index last.                 *)
LEMMA LargestOfInterval ==
  ASSUME NEW n \in Nat, NEW t \in SUBSET (1..n+1), n + 1 \in t
  PROVE  Max(t) = n + 1 /\ t \ {n + 1} \in SUBSET (1..n)
<1>1. n + 1 \in t /\ \A y \in t : n + 1 >= y
  OBVIOUS
<1>2. \A x \in t : (\A y \in t : x >= y) => x = n + 1
  OBVIOUS
<1>3. Max(t) \in t /\ \A y \in t : Max(t) >= y
  <2>1. Max(t) = CHOOSE x \in t : \A y \in t : x >= y
    BY Zenon DEF Max
  <2> QED
    BY <1>1, <2>1, Zenon
<1>4. Max(t) = n + 1
  BY <1>2, <1>3, Zenon
<1>5. \A x \in t \ {n + 1} : x \in 1..n
  OBVIOUS
<1> QED
  BY <1>4, <1>5

(* A fold over n operations is part of one over n + 1.                     *)
LEMMA FoldExtends ==
  ASSUME NEW n \in Nat, NEW base, NEW s, NEW g, IsFold(g, base, s, n)
  PROVE  \E h : IsFold(h, base, s, n + 1)
<1> DEFINE h == [t \in SUBSET (1..n+1) |-> IF n + 1 \in t THEN Carried(g[t \ {n + 1}], s[n + 1]) ELSE g[t]]
<1>1. \A t \in SUBSET (1..n+1) :
        h[t] = IF t = {} THEN base ELSE Carried(h[t \ {Max(t)}], s[Max(t)])
  <2> TAKE t \in SUBSET (1..n+1)
  <2>1. CASE n + 1 \in t
    <3>1. Max(t) = n + 1 /\ t \ {n + 1} \in SUBSET (1..n)
      BY <2>1, LargestOfInterval
    <3>2. h[t \ {n + 1}] = g[t \ {n + 1}]
      BY <3>1
    <3>3. h[t] = Carried(g[t \ {n + 1}], s[n + 1])
      BY <2>1
    <3> QED
      BY <2>1, <3>1, <3>2, <3>3
  <2>2. CASE n + 1 \notin t
    <3>1. t \in SUBSET (1..n)
      BY <2>2
    <3>2. h[t] = g[t]
      BY <2>2
    <3>3. g[t] = IF t = {} THEN base ELSE Carried(g[t \ {Max(t)}], s[Max(t)])
      BY <3>1 DEF IsFold
    <3>4. t \ {Max(t)} \in SUBSET (1..n+1) /\ n + 1 \notin t \ {Max(t)}
      BY <2>2
    <3>5. h[t \ {Max(t)}] = g[t \ {Max(t)}]
      BY <3>4
    <3> QED
      BY <3>2, <3>3, <3>5
  <2> QED
    BY <2>1, <2>2
<1>2. h = [t \in SUBSET (1..n+1) |-> h[t]]
  OBVIOUS
<1> HIDE DEF h
<1>3. IsFold(h, base, s, n + 1)
  BY <1>1, <1>2 DEF IsFold
<1> QED
  BY <1>3

(* There is a fold over any number of operations.                          *)
LEMMA FoldExists ==
  ASSUME NEW base, NEW s
  PROVE  \A n \in Nat : \E g : IsFold(g, base, s, n)
<1> DEFINE S == {n \in Nat : \E g : IsFold(g, base, s, n)}
<1>1. 0 \in S
  <2> DEFINE g == [t \in SUBSET (1..0) |-> base]
  <2>1. \A t \in SUBSET (1..0) : t = {}
    OBVIOUS
  <2>2. IsFold(g, base, s, 0)
    BY <2>1 DEF IsFold
  <2> QED
    BY <2>2
<1>2. \A n \in Nat : n \in S => n + 1 \in S
  BY FoldExtends
<1> HIDE DEF S
<1>3. Nat \subseteq S
  BY <1>1, <1>2, SetInduction
<1> QED
  BY <1>3 DEF S

(* The candidates start with the document and go through one operation     *)
(* after the other.                                                        *)
LEMMA PatchedInOrder ==
  ASSUME NEW d, NEW s, NEW T, s \in Seq(T)
  PROVE  LET g == CHOOSE g : IsFold(g, {d}, s, Len(s))
         IN  /\ Patched(d, s) = g[1..Len(s)]
             /\ g[{}] = {d}
             /\ \A n \in Nat : n + 1 \in 1..Len(s) => g[1..n+1] = Carried(g[1..n], s[n + 1])
<1> DEFINE g == CHOOSE g : IsFold(g, {d}, s, Len(s))
<1>1. DOMAIN s = 1..Len(s) /\ Len(s) \in Nat
  OBVIOUS
<1>2. Patched(d, s) = g[1..Len(s)]
  BY <1>1, PatchedIsFold
<1>3. IsFold(g, {d}, s, Len(s))
  <2>1. \E h : IsFold(h, {d}, s, Len(s))
    BY <1>1, FoldExists
  <2> QED
    BY <2>1
<1> HIDE DEF g
<1>4. g[{}] = {d}
  BY <1>3 DEF IsFold
<1>5. ASSUME NEW n \in Nat, n + 1 \in 1..Len(s)
      PROVE  g[1..n+1] = Carried(g[1..n], s[n + 1])
  <2>1. /\ 1..n+1 \in SUBSET (1..Len(s)) 
        /\ n + 1 \in 1..n+1 
        /\ 1..n+1 # {}
    <3>1. \A i \in 1..n+1 : i \in 1..Len(s)
      BY <1>1, <1>5
    <3>2. n + 1 \in 1..n+1
      OBVIOUS
    <3> QED
      BY <3>1, <3>2
  <2>2. Max(1..n+1) = n + 1
    BY LargestOfInterval
  <2>3. (1..n+1) \ {n + 1} = 1..n
    OBVIOUS
  <2>4. g[1..n+1] = Carried(g[(1..n+1) \ {Max(1..n+1)}], s[Max(1..n+1)])
    BY <1>3, <2>1 DEF IsFold
  <2> QED
    BY <2>2, <2>3, <2>4
<1> QED
  BY <1>2, <1>4, <1>5 DEF g

(* A proposal of effective risk "presentation" has only such operations    *)
(* (effectiveRisk in ai/src/risk.ts).                                      *)
LEMMA LowRisk ==
  ASSUME NEW p \in Proposals \cup HostProposals, EffectiveRisk(p) = Presentation
  PROVE  \A i \in DOMAIN p.operations : OperationRisk(p.operations[i]) = Presentation
<1> DEFINE S == {p.risk} \cup {OperationRisk(o) : o \in Range(p.operations)}
<1>1. p.risk \in Nat /\ p.risk \in S /\ Max(S) = 0
  BY ProposalsAssumption DEF Risks, EffectiveRisk, Presentation
<1>2. \A y \in S : y = p.risk \/ y = 0 \/ y = 2
  BY DEF OperationRisk, Presentation, Behavior
<1>3. \A i \in DOMAIN p.operations : OperationRisk(p.operations[i]) \in S
  BY DEF Range
<1>4. \A i \in DOMAIN p.operations :
        OperationRisk(p.operations[i]) = 0 \/ OperationRisk(p.operations[i]) = 2
  BY DEF OperationRisk, Presentation, Behavior
<1> HIDE DEF S
<1>5. \E m \in S : \A y \in S : m >= y
  <2>1. CASE 2 \in S /\ p.risk <= 2
    BY <1>1, <1>2, <2>1
  <2>2. CASE 2 \notin S \/ p.risk > 2
    BY <1>1, <1>2, <2>2
  <2> QED
    BY <1>1, <2>1, <2>2
<1>6. Max(S) = CHOOSE x \in S : \A y \in S : x >= y
  BY Zenon DEF Max
<1>7. \A y \in S : Max(S) >= y
  BY <1>5, <1>6, Zenon
<1>8. \A y \in S : 0 >= y
  BY <1>1, <1>7
<1> QED
  BY <1>3, <1>4, <1>8 DEF Presentation

\* A candidate of proposal p: a document that differs from the one it was made for
\* in its presentation only if that is all the proposal's risk.
Harmless(p, c) ==
  /\ DOMAIN c = MutablePaths
  /\ EffectiveRisk(p) = Presentation => c.action = p.baseHash.action /\ c.nodes = p.baseHash.nodes

(* An allowed operation keeps a candidate harmless.                        *)
LEMMA CarriedHarmless ==
  ASSUME NEW p \in Proposals \cup HostProposals, NEW i \in DOMAIN p.operations,
         NEW made, \A e \in made : Harmless(p, e),
         NEW c \in Carried(made, p.operations[i])
  PROVE  Harmless(p, c)
<1> DEFINE o == p.operations[i]
<1>1. PICK e \in made : c = Applied(o, e)
  BY DEF Carried
<1>2. Harmless(p, e)
  OBVIOUS
<1>3. EffectiveRisk(p) = Presentation => o.op = "test" \/ o.path \in {"revision", "label"}
  BY LowRisk DEF OperationRisk, Presentation, Behavior
<1> HIDE DEF o
<1>4. CASE o.op = "test"
  BY <1>1, <1>2, <1>4 DEF Applied
<1>5. CASE o.op # "test"
  <2>1. c = [e EXCEPT ![o.path] = o.value]
    BY <1>1, <1>5 DEF Applied
  <2>2. DOMAIN c = MutablePaths /\ \A f \in MutablePaths : f # o.path => c[f] = e[f]
    BY <1>2, <2>1 DEF Harmless
  <2>3. EffectiveRisk(p) = Presentation => o.path # "action" /\ o.path # "nodes"
    BY <1>3, <1>5
  <2> QED
    BY <1>2, <2>2, <2>3 DEF Harmless, MutablePaths
<1> QED
  BY <1>4, <1>5

(* What a proposal makes of the document it was made for.                  *)
LEMMA CandidatesHarmless ==
  ASSUME NEW p \in Proposals \cup HostProposals
  PROVE  \A c \in Patched(p.baseHash, p.operations) : Harmless(p, c)
<1> DEFINE s == p.operations
           g == CHOOSE g : IsFold(g, {p.baseHash}, s, Len(s))
           S == {n \in Nat : n <= Len(s) => \A c \in g[1..n] : Harmless(p, c)}
<1>1. s \in Seq(Range(s)) /\ Len(s) \in Nat /\ DOMAIN s = 1..Len(s)
  BY ProposalsAssumption
<1>2. /\ Patched(p.baseHash, s) = g[1..Len(s)]
      /\ g[{}] = {p.baseHash}
      /\ \A n \in Nat : n + 1 \in 1..Len(s) => g[1..n+1] = Carried(g[1..n], s[n + 1])
  BY <1>1, PatchedInOrder
<1> HIDE DEF g
<1>3. 0 \in S
  <2>1. 1..0 = {}
    OBVIOUS
  <2>2. Harmless(p, p.baseHash)
    BY ProposalsAssumption DEF Harmless
  <2> QED
    BY <1>2, <2>1, <2>2
<1>4. \A n \in Nat : n \in S => n + 1 \in S
  <2> SUFFICES ASSUME NEW n \in Nat, n \in S, n + 1 <= Len(s), NEW c \in g[1..n+1]
               PROVE  Harmless(p, c)
    OBVIOUS
  <2>1. n + 1 \in 1..Len(s) /\ n <= Len(s)
    BY <1>1
  <2>2. g[1..n+1] = Carried(g[1..n], s[n + 1])
    BY <1>2, <2>1
  <2>3. \A e \in g[1..n] : Harmless(p, e)
    BY <2>1
  <2>4. n + 1 \in DOMAIN p.operations
    BY <1>1, <2>1
  <2>5. c \in Carried(g[1..n], p.operations[n + 1])
    BY <2>2
  <2>6. \A i \in DOMAIN p.operations : \A made :
          (\A e \in made : Harmless(p, e)) =>
            \A d \in Carried(made, p.operations[i]) : Harmless(p, d)
    BY CarriedHarmless
  <2> HIDE DEF s, S
  <2> QED
    BY <2>3, <2>4, <2>5, <2>6
<1> HIDE DEF S
<1>5. Nat \subseteq S
  BY <1>3, <1>4, SetInduction
<1>6. Len(s) \in S
  BY <1>1, <1>5
<1> QED
  BY <1>1, <1>2, <1>6 DEF S

-----------------------------------------------------------------------------
(* Evaluations.                                                            *)

\* Candidate c is what an evaluation of p against d accepts.
Accepts(d, p, c) ==
  /\ Evaluate(d, p, TRUE) = Accepted(c)
  /\ d = p.baseHash
  /\ c \in Patched(d, p.operations)
  /\ d.nodes \subseteq c.nodes
  /\ p.operations # << >>

(* An accepted evaluation does not depend on the approval, which only      *)
(* decides whether it is asked for (evaluateUiPatchProposal).              *)
LEMMA Acceptance ==
  ASSUME NEW d, NEW p, NEW a, Evaluate(d, p, a).status = "accepted"
  PROVE  /\ Accepts(d, p, Evaluate(d, p, a).candidate)
         /\ EffectiveRisk(p) # Presentation => a
<1> DEFINE fit == {c \in Patched(d, p.operations) : d.nodes \subseteq c.nodes /\ Compiles(c)}
           unfit == \/ \E o \in Range(p.operations) : ~AllowedOperation(o)
                    \/ ~GuardsRevision(p) \/ ~MeantFor(p, d) \/ fit = {}
           c == CHOOSE c \in fit : TRUE
<1>1. \A b : Evaluate(d, p, b) = IF unfit THEN Rejected
                              ELSE IF EffectiveRisk(p) # Presentation /\ ~b THEN ReviewRequired
                              ELSE Accepted(c)
  BY DEF Evaluate
<1>2. Rejected.status # "accepted" /\ ReviewRequired.status # "accepted"
  BY DEF Rejected, ReviewRequired
<1>3. ~unfit /\ (EffectiveRisk(p) # Presentation => a)
  <2> HIDE DEF unfit, c
  <2> QED
    BY <1>1, <1>2
<1>4. Evaluate(d, p, a) = Accepted(c) /\ Evaluate(d, p, TRUE) = Accepted(c)
  <2> HIDE DEF unfit, c
  <2> QED
    BY <1>1, <1>3
<1>5. Evaluate(d, p, a).candidate = c
  <2> HIDE DEF c
  <2> QED
    BY <1>4 DEF Accepted
<1>6. c \in fit
  BY <1>3
<1>7. d = p.baseHash /\ p.operations # << >>
  BY <1>3 DEF MeantFor, GuardsRevision
<1> QED
  BY <1>3, <1>4, <1>5, <1>6, <1>7 DEF Accepts

(* A proposal that is to be reviewed is one that guards its revision, and  *)
(* was not approved.                                                       *)
LEMMA Reviewable ==
  ASSUME NEW d, NEW p, NEW a, Evaluate(d, p, a) = ReviewRequired
  PROVE  p.operations # << >> /\ ~a
BY DEF Evaluate, ReviewRequired, Rejected, Accepted, GuardsRevision

(* What is accepted is a document, and its change is guarded.              *)
LEMMA AcceptedIsGuarded ==
  ASSUME NEW d, NEW p \in Proposals \cup HostProposals, NEW c, Accepts(d, p, c)
  PROVE  /\ DOMAIN c = MutablePaths
         /\ c # NoDocument
         /\ d.nodes \subseteq c.nodes
         /\ c.action # d.action \/ c.nodes # d.nodes => EffectiveRisk(p) # Presentation
<1>1. Harmless(p, c)
  BY CandidatesHarmless DEF Accepts
<1>2. DOMAIN NoDocument = {"revision"}
  BY DEF NoDocument
<1>3. DOMAIN c # {"revision"}
  BY <1>1 DEF Harmless, MutablePaths
<1> QED
  BY <1>1, <1>2, <1>3 DEF Accepts, Harmless

-----------------------------------------------------------------------------
(* The budget ledger.                                                      *)

Settlements ==
  [state : {"failed", "overrun"}] \cup [state : {"overrun"}, cost : Nat]
    \cup [state : {"completed"}, cost : Nat, proposal : Proposals]
GenerationType ==
  {NotStarted} \cup [stage : {"reserving", "generating"}, input : Tokens]
    \cup [stage : {"settling"}, settlement : Settlements]
    \cup [stage : {"rejected"}] \cup [stage : {"rejected"}, lost : {TRUE}]
    \cup [stage : {"succeeded"}, proposal : Proposals]
ReservationType ==
  {NoReservation} \cup [state : {"open", "failed", "overrun", "completed"}, limit : 0..CostLimit]
    \cup [state : {"overrun", "completed"}, limit : 0..CostLimit, cost : Nat]

\* What the stage of a generation says of its reservation.
Accounted(generation, reservation) ==
  /\ generation.stage = "none" => reservation = NoReservation
  /\ generation.stage = "reserving" =>
       reservation = NoReservation /\ Cost(generation.input, OutputLimit) <= CostLimit
  /\ generation.stage \in {"generating", "settling"} => reservation.state = "open"
  /\ generation.stage = "settling" /\ generation.settlement.state = "completed" =>
       generation.settlement.cost <= reservation.limit
  /\ generation.stage = "succeeded" => reservation.state = "completed"
  /\ generation.stage = "rejected" /\ "lost" \notin DOMAIN generation =>
       reservation.state \notin {"open", "completed"}
  /\ reservation.state = "completed" => "cost" \in DOMAIN reservation /\ reservation.cost <= reservation.limit

LedgerInv ==
  /\ generations \in [Requests -> GenerationType]
  /\ ledger \in [Requests -> ReservationType]
  /\ \A r \in Requests : Accounted(generations[r], ledger[r])

(* Costs are amounts.                                                      *)
LEMMA CostType ==
  ASSUME NEW input \in Nat, NEW output \in Nat
  PROVE  Cost(input, output) \in Nat
<1>1. input * InputPrice \in Nat /\ output * OutputPrice \in Nat
  BY PriceAssumption
<1> DEFINE n == input * InputPrice + output * OutputPrice + PriceUnit - 1
<1>2. n \in Nat
  BY <1>1, PriceAssumption
<1> HIDE DEF n
<1>3. n \div PriceUnit \in Nat
  BY <1>2, PriceAssumption
<1> QED
  BY <1>3 DEF Cost, n

(* What the stages of a generation carry.                                  *)
LEMMA GenerationShapes ==
  ASSUME NEW g \in GenerationType
  PROVE  /\ g.stage \in {"reserving", "generating"} => g.input \in Tokens
         /\ g.stage = "settling" => g.settlement \in Settlements
         /\ g.stage = "none" => g = NotStarted
         /\ g.stage = "succeeded" => g.proposal \in Proposals /\ "lost" \notin DOMAIN g
<1>1. CASE g = NotStarted
  BY <1>1 DEF NotStarted
<1>2. CASE g \in [stage : {"reserving", "generating"}, input : Tokens]
  BY <1>2
<1>3. CASE g \in [stage : {"settling"}, settlement : Settlements]
  <2> HIDE DEF Settlements
  <2> QED
    BY <1>3
<1>4. CASE g \in [stage : {"rejected"}] \/ g \in [stage : {"rejected"}, lost : {TRUE}]
  BY <1>4
<1>5. CASE g \in [stage : {"succeeded"}, proposal : Proposals]
  BY <1>5
<1> QED
  BY <1>1, <1>2, <1>3, <1>4, <1>5 DEF GenerationType

(* A reservation that was made has a limit.                                *)
LEMMA ReservationShapes ==
  ASSUME NEW l \in ReservationType
  PROVE  /\ l.state # "none" => l.limit \in 0..CostLimit
         /\ l.state = "none" => l = NoReservation
BY DEF ReservationType, NoReservation

(* A generation that goes on changes nothing but its own entries.          *)
LEMMA LedgerEntry ==
  ASSUME LedgerInv, NEW r \in Requests,
         NEW g \in GenerationType, NEW l \in ReservationType, Accounted(g, l),
         generations' = [generations EXCEPT ![r] = g], ledger' = [ledger EXCEPT ![r] = l]
  PROVE  LedgerInv'
BY DEF LedgerInv

(* The server keeps the accounts at every step, whether or not the ledger  *)
(* has carried out what it did not answer.                                 *)
LEMMA ServeAccounts ==
  ASSUME LedgerInv, NEW r \in Requests, Serve(r)
  PROVE  LedgerInv'
<1>0. /\ generations[r] \in GenerationType
      /\ ledger[r] \in ReservationType
      /\ Accounted(generations[r], ledger[r])
      /\ ledger = [ledger EXCEPT ![r] = ledger[r]]
  BY DEF LedgerInv
<1>1. CASE Prepare(r)
  <2>1. ledger[r] = NoReservation /\ ledger' = [ledger EXCEPT ![r] = NoReservation]
    BY <1>0, <1>1 DEF Prepare, Accounted, NotStarted
  <2>2. CASE Reject(r)
    BY <2>1, <2>2, LedgerEntry DEF Reject, GenerationType, ReservationType, Accounted, NoReservation
  <2>3. ASSUME NEW estimate \in Tokens, Cost(estimate, OutputLimit) <= CostLimit,
               generations' = [generations EXCEPT ![r] = [stage |-> "reserving", input |-> estimate]]
        PROVE  LedgerInv'
    BY <2>1, <2>3, LedgerEntry DEF GenerationType, ReservationType, Accounted, NoReservation
  <2> QED
    BY <1>1, <2>2, <2>3 DEF Prepare
<1>2. CASE ReserveBudget(r)
  <2> DEFINE input == generations[r].input
             reservation == [state |-> "open", limit |-> Cost(input, OutputLimit)]
  <2>1. input \in Tokens /\ Cost(input, OutputLimit) \in 0..CostLimit /\ ledger[r] = NoReservation
    <3>1. input \in Tokens /\ Cost(input, OutputLimit) <= CostLimit /\ ledger[r] = NoReservation
      BY <1>0, <1>2, GenerationShapes DEF ReserveBudget, Accounted
    <3>2. Cost(input, OutputLimit) \in Nat
      BY <3>1, CostType, TokensAssumption, LimitsAssumption
    <3> QED
      BY <3>1, <3>2, LimitsAssumption
  <2>2. reservation \in ReservationType
    BY <2>1 DEF ReservationType
  <2>3. CASE /\ ledger' = [ledger EXCEPT ![r] = reservation]
             /\ generations' = [generations EXCEPT ![r] = [stage |-> "generating", input |-> input]]
    <3>1. [stage |-> "generating", input |-> input] \in GenerationType
      BY <2>1 DEF GenerationType
    <3>2. Accounted([stage |-> "generating", input |-> input], reservation)
      BY DEF Accounted
    <3> QED
      BY <2>2, <2>3, <3>1, <3>2, LedgerEntry
  <2>4. CASE Reject(r) /\ UNCHANGED ledger
    <3>1. Accounted([stage |-> "rejected"], NoReservation)
      BY DEF Accounted, NoReservation
    <3>2. [stage |-> "rejected"] \in GenerationType /\ NoReservation \in ReservationType
      BY DEF GenerationType, ReservationType
    <3> QED
      BY <1>0, <2>1, <2>4, <3>1, <3>2, LedgerEntry DEF Reject
  <2>5. CASE RejectLost(r) /\ ledger' \in {ledger, [ledger EXCEPT ![r] = reservation]}
    <3> DEFINE g == [stage |-> "rejected", lost |-> TRUE]
    <3>1. Accounted(g, NoReservation) /\ Accounted(g, reservation)
      BY DEF Accounted, NoReservation
    <3>2. g \in GenerationType /\ NoReservation \in ReservationType
      BY DEF GenerationType, ReservationType
    <3>3. generations' = [generations EXCEPT ![r] = g]
      BY <2>5 DEF RejectLost
    <3> HIDE DEF g, reservation
    <3> QED
      BY <1>0, <2>1, <2>2, <2>5, <3>1, <3>2, <3>3, LedgerEntry
  <2> QED
    BY <1>2, <2>3, <2>4, <2>5 DEF ReserveBudget
<1>3. CASE GenerateText(r)
  <2>1. /\ ledger[r].state = "open" /\ ledger[r].limit \in 0..CostLimit
        /\ ledger' = [ledger EXCEPT ![r] = ledger[r]]
    BY <1>0, <1>3 DEF GenerateText, Accounted, ReservationType, NoReservation
  <2>2. ASSUME NEW t \in Settlements, Settling(r, t),
               t.state = "completed" => t.cost <= ledger[r].limit
        PROVE  LedgerInv'
    <3> DEFINE g == [stage |-> "settling", settlement |-> t]
    <3>1. g \in GenerationType
      BY DEF GenerationType
    <3>2. Accounted(g, ledger[r])
      BY <2>1, <2>2 DEF Accounted
    <3>3. generations' = [generations EXCEPT ![r] = g]
      BY <2>2 DEF Settling
    <3> HIDE DEF g
    <3> QED
      BY <1>0, <2>1, <3>1, <3>2, <3>3, LedgerEntry
  <2>3. CASE Settling(r, [state |-> "failed"])
    BY <2>2, <2>3 DEF Settlements
  <2>4. CASE Settling(r, [state |-> "overrun"])
    BY <2>2, <2>4 DEF Settlements
  <2>5. ASSUME NEW input \in Tokens, NEW output \in Tokens, NEW p \in Proposals,
               Settling(r, IF Cost(input, output) > ledger[r].limit
                           THEN [state |-> "overrun", cost |-> Cost(input, output)]
                           ELSE [state |-> "completed", cost |-> Cost(input, output), proposal |-> p])
        PROVE  LedgerInv'
    <3> DEFINE cost == Cost(input, output)
    <3>1. cost \in Nat
      BY CostType, TokensAssumption
    <3> HIDE DEF cost
    <3>2. [state |-> "overrun", cost |-> cost] \in Settlements
      BY <3>1 DEF Settlements
    <3>3. [state |-> "completed", cost |-> cost, proposal |-> p] \in Settlements
      BY <3>1 DEF Settlements
    <3>4. CASE cost > ledger[r].limit
      BY <2>2, <2>5, <3>2, <3>4 DEF cost
    <3>5. CASE ~(cost > ledger[r].limit)
      <4>1. cost <= ledger[r].limit
        BY <2>1, <3>1, <3>5
      <4> QED
        BY <2>2, <2>5, <3>3, <3>5, <4>1 DEF cost
    <3> QED
      BY <3>4, <3>5
  <2> QED
    BY <1>3, <2>3, <2>4, <2>5 DEF GenerateText
<1>4. CASE SettleBudget(r)
  <2> DEFINE t == generations[r].settlement
             l == [f \in {"state", "limit"} \cup (DOMAIN t \cap {"cost"}) |->
                     IF f = "limit" THEN ledger[r].limit ELSE t[f]]
  <2>1. /\ t \in Settlements
        /\ ledger[r].state = "open" 
        /\ t.state = "completed" => t.cost <= ledger[r].limit
    BY <1>0, <1>4, GenerationShapes DEF SettleBudget, Accounted
  <2>2. ledger[r].limit \in 0..CostLimit
    BY <1>0, <2>1, ReservationShapes
  <2>3. l \in ReservationType /\ l.state = t.state
    <3>1. CASE "cost" \in DOMAIN t
      <4>1. t.cost \in Nat /\ t.state \in {"overrun", "completed"}
        BY <2>1, <3>1 DEF Settlements
      <4>2. l = [state |-> t.state, limit |-> ledger[r].limit, cost |-> t.cost]
        BY <3>1
      <4> QED
        BY <2>2, <4>1, <4>2 DEF ReservationType
    <3>2. CASE "cost" \notin DOMAIN t
      <4>1. t.state \in {"failed", "overrun"}
        BY <2>1, <3>2 DEF Settlements
      <4>2. l = [state |-> t.state, limit |-> ledger[r].limit]
        BY <3>2
      <4> QED
        BY <2>2, <4>1, <4>2 DEF ReservationType
    <3> QED
      BY <3>1, <3>2
  <2>4. t.state = "completed" =>
          "cost" \in DOMAIN l /\ l.cost = t.cost /\ l.limit = ledger[r].limit /\ t.proposal \in Proposals
    <3>1. t.state = "completed" => "cost" \in DOMAIN t /\ t.proposal \in Proposals
      BY <2>1 DEF Settlements
    <3> QED
      BY <3>1
  <2>5. t.state \in {"failed", "overrun", "completed"}
    BY <2>1 DEF Settlements
  <2> DEFINE lost == [stage |-> "rejected", lost |-> TRUE]
             rejected == [stage |-> "rejected"]
             succeeded == [stage |-> "succeeded", proposal |-> t.proposal]
  <2>6. /\ lost \in GenerationType /\ rejected \in GenerationType
        /\ t.state = "completed" => succeeded \in GenerationType
    BY <2>4 DEF GenerationType
  <2>7. /\ Accounted(lost, l) /\ Accounted(lost, ledger[r])
        /\ t.state = "completed" => Accounted(succeeded, l)
        /\ t.state # "completed" => Accounted(rejected, l)
    <3> HIDE DEF l, t
    <3> QED
      BY <2>1, <2>3, <2>4, <2>5 DEF Accounted
  <2>8. \/ /\ t.state = "completed"
           /\ ledger' = [ledger EXCEPT ![r] = l]
           /\ generations' = [generations EXCEPT ![r] = succeeded]
        \/ /\ t.state # "completed"
           /\ ledger' = [ledger EXCEPT ![r] = l]
           /\ generations' = [generations EXCEPT ![r] = rejected]
        \/ /\ generations' = [generations EXCEPT ![r] = lost]
           /\ ledger' = [ledger EXCEPT ![r] = ledger[r]] \/ ledger' = [ledger EXCEPT ![r] = l]
    BY <1>0, <1>4 DEF SettleBudget, Reject, RejectLost
  <2> HIDE DEF l, t, lost, rejected, succeeded
  <2> QED
    BY <1>0, <2>3, <2>6, <2>7, <2>8, LedgerEntry
<1> QED
  BY <1>1, <1>2, <1>3, <1>4 DEF Serve

-----------------------------------------------------------------------------
(* The session.                                                            *)

OperationType ==
  {NoOperation} \cup [stage : {"done"}] \cup [stage : {"proposing"}, base : Documents]
    \cup [stage : {"evaluating"}, base : Documents, proposal : Proposals, request : Requests,
          approval : BOOLEAN]
    \cup [stage : {"diffing", "opening"}, base : Documents, proposal : Proposals, request : Requests,
          candidate : Documents]
    \cup [stage : {"revalidating"}, base : Documents, proposal : Proposals, approval : BOOLEAN]
CommitType ==
  {NoOperation} \cup [stage : {"refused"}]
    \cup [stage : {"evaluating", "applied"}, base : Documents, proposal : HostProposals,
          approval : BOOLEAN]
DataType ==
  [proposal : Proposals \cup {NoProposal}, request : Requests \cup {0},
   base : Documents \cup {NoDocument}, candidate : Documents \cup {NoDocument}]
SessionType ==
  [state : States, operation : 0..MaxOperations, approval : BOOLEAN, data : DataType,
   preview : Operations \cup {NoPreview}]

Types ==
  /\ live \in Documents /\ edits \in 0..MaxEdits
  /\ session \in SessionType
  /\ operations \in [Operations -> OperationType]
  /\ open \subseteq Operations
  /\ commit \in CommitType
  /\ approved \subseteq Requests

\* A request whose proposal was delivered, and paid for.
Delivered(r) == r \in Requests /\ generations[r].stage = "succeeded"

\* What an operation carries, whether or not it is still the current one.
Carries(o) ==
  LET operation == operations[o]
  IN  /\ o > session.operation => operation = NoOperation
      /\ operation.stage = "proposing" => o \in Requests
      /\ operation.stage \in {"evaluating", "diffing", "opening"} => Delivered(operation.request)
      /\ operation.stage = "evaluating" /\ operation.approval => operation.request \in approved
      /\ operation.stage \in {"diffing", "opening"} =>
           Accepts(operation.base, operation.proposal, operation.candidate)

\* How the session goes along with its current operation.
Together(o) ==
  LET operation == operations[o]
  IN  /\ operation.stage \in {"proposing", "evaluating", "diffing", "opening"} =>
           session.state = "generating"
      /\ operation.stage = "proposing" => ~session.approval
      /\ operation.stage = "evaluating" => (session.approval <=> operation.approval)
      /\ operation.stage \in {"diffing", "opening"} /\ session.approval =>
           operation.request \in approved
      /\ operation.stage = "revalidating" =>
           /\ session.state = "applying"
           /\ operation.proposal = session.data.proposal
           /\ operation.approval <=> session.approval

\* What the session holds for the user to approve or to apply.
Held ==
  /\ session.state \in {"review-required", "preview-ready", "applying"} =>
       /\ Delivered(session.data.request)
       /\ session.data.proposal \in Proposals
       /\ session.data.proposal.operations # << >>
  /\ session.state \in {"preview-ready", "applying"} =>
       Accepts(session.data.base, session.data.proposal, session.data.candidate)
  /\ session.approval /\ session.data.request # 0 => session.data.request \in approved

Opening == {o \in Operations : operations[o].stage = "opening"}

Previews ==
  /\ open = ({session.preview} \ {NoPreview}) \cup Opening
  /\ session.preview # NoPreview <=> session.state \in {"preview-ready", "applying"}
  /\ session.preview # NoPreview => operations[session.preview].stage = "done"

SessionInv ==
  /\ Types
  /\ \A o \in Operations : Carries(o) /\ (Current(o) => Together(o))
  /\ Held
  /\ Previews

IInv == LedgerInv /\ SessionInv

(* The transitions of the session's state machine (studioSessionMachine).  *)
LEMMA Transitions ==
  ASSUME NEW state \in States, state # "disposed"
  PROVE  /\ Sent(state, "dispose") = "disposed"
         /\ Sent(state, "failed") = "failed"
         /\ Sent(state, "request") = "generating"
         /\ state = "generating" => Sent(state, "previewed") = "preview-ready"
         /\ state = "generating" => Sent(state, "review") = "review-required"
         /\ state = "preview-ready" => Sent(state, "apply") = "applying"
         /\ state = "applying" => Sent(state, "applied") = "applied"
BY DEF Sent

(* What the stages of an operation carry.                                  *)
LEMMA OperationShapes ==
  ASSUME NEW v \in OperationType
  PROVE  /\ v.stage = "none" => v = NoOperation
         /\ v.stage \in {"proposing", "evaluating", "diffing", "opening", "revalidating"} =>
              v.base \in Documents
         /\ v.stage \in {"evaluating", "diffing", "opening"} =>
              v.proposal \in Proposals /\ v.request \in Requests
         /\ v.stage = "revalidating" => v.proposal \in Proposals /\ v.approval \in BOOLEAN
         /\ v.stage = "evaluating" => v.approval \in BOOLEAN
         /\ v.stage \in {"diffing", "opening"} => v.candidate \in Documents
         /\ v.stage = "diffing" => [v EXCEPT !.stage = "opening"] \in OperationType
<1> HIDE DEF Documents
<1>1. CASE v = NoOperation \/ v \in [stage : {"done"}]
  BY <1>1 DEF NoOperation
<1>2. CASE v \in [stage : {"proposing"}, base : Documents]
  BY <1>2
<1>3. CASE v \in [stage : {"evaluating"}, base : Documents, proposal : Proposals, request : Requests,
                 approval : BOOLEAN]
  BY <1>3
<1>4. CASE v \in [stage : {"diffing", "opening"}, base : Documents, proposal : Proposals,
                 request : Requests, candidate : Documents]
  <2>1. [v EXCEPT !.stage = "opening"] \in OperationType
    BY <1>4 DEF OperationType
  <2> QED
    BY <1>4, <2>1
<1>5. CASE v \in [stage : {"revalidating"}, base : Documents, proposal : Proposals, approval : BOOLEAN]
  BY <1>5
<1> QED
  BY <1>1, <1>2, <1>3, <1>4, <1>5 DEF OperationType

(* What an operation carries stays true of it while it does not go on.     *)
LEMMA CarriesKept ==
  ASSUME NEW o \in Operations, Carries(o), operations'[o] = operations[o],
         o > session'.operation => o > session.operation,
         approved \subseteq approved', \A r : Delivered(r) => Delivered(r)'
  PROVE  Carries(o)'
BY DEF Carries

(* An operation is what it goes to.                                        *)
LEMMA Gone ==
  ASSUME Types, NEW o \in Operations, NEW v, Goes(o, v)
  PROVE  /\ operations'[o] = v
         /\ \A p \in Operations : p # o => operations'[p] = operations[p]
         /\ v \in OperationType => operations' \in [Operations -> OperationType]
BY DEF Types, Goes

\* What a step of the session leaves to the others.
Outside == UNCHANGED <<generations, ledger, live, edits, commit, approved>>

(* An operation that ends without a word, and closes the preview it has    *)
(* just opened, leaves everything in order.                                *)
LEMMA EndedKeeps ==
  ASSUME SessionInv, NEW o \in Operations, operations[o].stage # "none", Ends(o),
         open' = IF operations[o].stage = "opening" THEN open \ {o} ELSE open,
         Outside, UNCHANGED session
  PROVE  SessionInv'
<1> USE DEF Outside
<1>1. Types
  BY DEF SessionInv
<1>2. /\ operations'[o] = [stage |-> "done"]
      /\ \A p \in Operations : p # o => operations'[p] = operations[p]
      /\ operations' \in [Operations -> OperationType]
  BY <1>1, Gone DEF Ends, OperationType
<1>3. Types'
  BY <1>1, <1>2 DEF Types
<1>4. ASSUME NEW p \in Operations
      PROVE  Carries(p)' /\ (Current(p)' => Together(p)')
  <2>1. CASE p = o
    <3>1. ~(o > session.operation)
      BY DEF SessionInv, Carries, NoOperation
    <3> QED
      BY <1>2, <2>1, <3>1 DEF Carries, Together
  <2>2. CASE p # o
    <3>1. Carries(p) /\ (Current(p) => Together(p))
      BY DEF SessionInv
    <3>2. operations'[p] = operations[p]
      BY <1>2, <2>2
    <3> QED
      BY <3>1, <3>2 DEF Carries, Together, Current, Delivered
  <2> QED
    BY <2>1, <2>2
<1>5. Held'
  BY DEF SessionInv, Held, Delivered
<1>6. Previews'
  <2>1. Opening' = Opening \ {o}
    BY <1>2 DEF Opening
  <2>2. session.preview # NoPreview => session.preview \in Operations
    BY <1>1 DEF Types, SessionType
  <2> QED
    BY <1>2, <2>1, <2>2 DEF SessionInv, Previews, Opening
<1> QED
  BY <1>3, <1>4, <1>5, <1>6 DEF SessionInv

(* The current operation fails the session: no preview is left but those   *)
(* that are being opened, and nothing may be approved or applied.          *)
LEMMA FailedKeeps ==
  ASSUME SessionInv, NEW o \in Operations, operations[o].stage # "none", Current(o),
         Fails(o, IF operations[o].stage = "opening" THEN open \ {o} ELSE open),
         Outside
  PROVE  SessionInv'
<1> USE DEF Outside
<1>1. Types
  BY DEF SessionInv
<1>2. /\ operations'[o] = [stage |-> "done"]
      /\ \A p \in Operations : p # o => operations'[p] = operations[p]
      /\ operations' \in [Operations -> OperationType]
  BY <1>1, Gone DEF Fails, Ends, OperationType
<1>3. /\ session' \in SessionType
      /\ session'.state = "failed" /\ session'.operation = o /\ session'.preview = NoPreview
      /\ session'.data = NoData
  <2>1. session \in SessionType /\ session.operation = o /\ session.state # "disposed"
    BY <1>1 DEF Types, Current
  <2>2. Sent(session.state, "failed") = "failed"
    BY <2>1, Transitions DEF SessionType
  <2>3. session' = [session EXCEPT !.preview = NoPreview, !.data = NoData, !.state = "failed"]
    BY <2>1, <2>2 DEF Fails, Failed, Moved, WithoutData, WithoutPreview, SessionType
  <2>4. NoData \in DataType /\ "failed" \in States
    BY DEF NoData, DataType, States
  <2> QED
    BY <2>1, <2>3, <2>4 DEF SessionType
<1>4. Types'
  BY <1>1, <1>2, <1>3 DEF Types, Fails
<1>5. ASSUME NEW p \in Operations
      PROVE  Carries(p)' /\ (Current(p)' => Together(p)')
  <2>1. CASE p = o
    <3>1. o \in Nat
      BY RequestsAssumption DEF Operations
    <3> QED
      BY <1>2, <1>3, <2>1, <3>1 DEF Carries, Together
  <2>2. CASE p # o
    <3>1. Carries(p) /\ session.operation = o
      BY DEF SessionInv, Current
    <3>2. operations'[p] = operations[p]
      BY <1>2, <2>2
    <3> QED
      BY <1>3, <2>2, <3>1, <3>2 DEF Carries, Current, Delivered
  <2> QED
    BY <2>1, <2>2
<1>6. Held'
  BY <1>3 DEF Held, NoData
<1>7. Previews'
  <2>1. Opening' = Opening \ {o}
    BY <1>2 DEF Opening
  <2>2. open' = (IF operations[o].stage = "opening" THEN open \ {o} ELSE open) \ {session.preview}
    BY DEF Fails
  <2>3. session.preview \notin Opening /\ NoPreview \notin Operations
    BY DEF SessionInv, Previews, Opening, NoPreview, Operations
  <2> QED
    BY <1>3, <2>1, <2>2, <2>3 DEF SessionInv, Previews, Opening
<1> QED
  BY <1>4, <1>5, <1>6, <1>7 DEF SessionInv

(* A call of the session supersedes the current operation: what is no      *)
(* longer current needs nothing of the session any more.                   *)
LEMMA CallKeeps ==
  ASSUME SessionInv, Callable, NEW n, n = NextOperation,
         NEW v \in OperationType, operations' = [operations EXCEPT ![n] = v],
         v.stage \in {"none", "proposing", "evaluating", "revalidating"},
         session' \in SessionType, session'.operation = n,
         approved \subseteq approved', approved' \subseteq Requests,
         UNCHANGED <<generations, ledger, live, edits, commit>>,
         Carries(n)', Together(n)', Held',
         \/ session'.preview = session.preview /\ open' = open
         \/ session'.preview = NoPreview /\ open' = open \ {session.preview},
         session'.preview # NoPreview <=> session'.state \in {"preview-ready", "applying"}
  PROVE  SessionInv'
<1>1. Types
  BY DEF SessionInv
<1>2. n \in Operations /\ session.operation \in Nat /\ n = session.operation + 1
  BY <1>1, RequestsAssumption DEF Types, SessionType, Callable, NextOperation, Operations
<1>3. operations[n] = NoOperation
  BY <1>2 DEF SessionInv, Carries
<1>4. /\ operations'[n] = v
      /\ \A p \in Operations : p # n => operations'[p] = operations[p]
      /\ operations' \in [Operations -> OperationType]
  BY <1>1, <1>2 DEF Types
<1>5. Types'
  BY <1>1, <1>4 DEF Types
<1>6. ASSUME NEW p \in Operations, p # n
      PROVE  Carries(p)' /\ ~Current(p)'
  <2>1. Carries(p)
    BY DEF SessionInv
  <2>2. p > session'.operation => p > session.operation
    BY <1>2 DEF Operations
  <2>3. \A r : Delivered(r) => Delivered(r)'
    BY DEF Delivered
  <2>4. Carries(p)'
    BY <1>4, <1>6, <2>1, <2>2, <2>3, CarriesKept
  <2> QED
    BY <1>6, <2>4 DEF Current
<1>7. Previews'
  <2>1. Opening' = Opening /\ n \notin Opening
    BY <1>3, <1>4 DEF Opening, NoOperation
  <2>2. session.preview \notin Opening /\ (session.preview # NoPreview => session.preview # n)
    BY <1>3, RequestsAssumption DEF SessionInv, Previews, Opening, NoOperation, NoPreview, Operations
  <2>3. session.preview # NoPreview => session.preview \in Operations
    BY <1>1 DEF Types, SessionType
  <2> QED
    BY <1>4, <2>1, <2>2, <2>3 DEF SessionInv, Previews
<1> QED
  BY <1>2, <1>5, <1>6, <1>7 DEF SessionInv

(* An operation number that was not used.                                  *)
LEMMA Unused ==
  ASSUME SessionInv, Callable
  PROVE  /\ NextOperation \in Operations
         /\ NextOperation \in 0..MaxOperations
         /\ operations[NextOperation] = NoOperation
         /\ operations = [operations EXCEPT ![NextOperation] = NoOperation]
         /\ session \in SessionType /\ session.state \in States /\ session.state # "disposed"
<1>1. Types
  BY DEF SessionInv
<1>2. /\ NextOperation \in Operations
      /\ NextOperation \in 0..MaxOperations
      /\ NextOperation > session.operation
  BY <1>1, RequestsAssumption DEF Types, SessionType, Callable, NextOperation, Operations
<1>3. operations[NextOperation] = NoOperation
  BY <1>2 DEF SessionInv, Carries
<1> QED
  BY <1>1, <1>2, <1>3 DEF Types, Callable, SessionType

(* request(): what was held is forgotten.                                  *)
LEMMA RequestKeeps ==
  ASSUME SessionInv, Request
  PROVE  SessionInv'
<1> DEFINE n == NextOperation
           v == [stage |-> "proposing", base |-> live]
<1>1. /\ n \in Operations /\ n \in 0..MaxOperations /\ n \in Requests
      /\ session \in SessionType /\ session.state \in States /\ session.state # "disposed"
      /\ Callable
  BY Unused DEF Request
<1>2. v \in OperationType /\ operations' = [operations EXCEPT ![n] = v]
  BY DEF SessionInv, Types, OperationType, Request, Goes
<1>3. session' = [session EXCEPT !.preview = NoPreview, !.data = NoData, !.approval = FALSE,
                                 !.operation = n, !.state = "generating"]
  <2>1. Sent(session.state, "request") = "generating"
    BY <1>1, Transitions
  <2> QED
    BY <1>1, <2>1 DEF Request, Moved, WithoutData, WithoutPreview, SessionType
<1>4. /\ session' \in SessionType /\ session'.operation = n /\ session'.state = "generating"
      /\ session'.preview = NoPreview /\ session'.approval = FALSE /\ session'.data = NoData
  <2>1. NoData \in DataType /\ "generating" \in States /\ NoPreview \in Operations \cup {NoPreview}
    BY DEF NoData, DataType, States
  <2> HIDE DEF n
  <2> QED
    BY <1>1, <1>3, <2>1 DEF SessionType
<1>5. operations'[n] = v
  BY <1>1, <1>2 DEF SessionInv, Types
<1>6. n \in Int
  BY <1>1 DEF Operations
<1>7. /\ UNCHANGED <<generations, ledger, live, edits, commit, approved>>
      /\ approved \subseteq Requests
      /\ open' = open \ {session.preview}
  BY DEF Request, outside, SessionInv, Types
<1> SUFFICES ASSUME NEW m, m = n
             PROVE  SessionInv'
  OBVIOUS
<1>8. Carries(m)' /\ Together(m)'
  <2> HIDE DEF n
  <2> QED
    BY <1>1, <1>4, <1>5, <1>6 DEF Carries, Together
<1>9. Held'
  BY <1>4 DEF Held
<1> HIDE DEF v
<1> QED
  BY <1>1, <1>2, <1>4, <1>7, <1>8, <1>9, CallKeeps DEF v

(* approve(): the request whose proposal is held counts as approved.       *)
LEMMA ApproveKeeps ==
  ASSUME SessionInv, Approve
  PROVE  SessionInv'
<1> DEFINE n == NextOperation
           v == [stage |-> "evaluating", base |-> live, proposal |-> session.data.proposal,
                 request |-> session.data.request, approval |-> TRUE]
<1>1. /\ n \in Operations /\ n \in 0..MaxOperations
      /\ session \in SessionType /\ session.state = "review-required"
      /\ Callable
  BY Unused DEF Approve
<1>2. /\ Delivered(session.data.request) /\ session.data.proposal \in Proposals
      /\ session.data.proposal.operations # << >>
      /\ session.preview = NoPreview
  BY <1>1 DEF SessionInv, Held, Previews
<1>3. v \in OperationType /\ operations' = [operations EXCEPT ![n] = v]
  BY <1>2 DEF SessionInv, Types, OperationType, Approve, Goes, Delivered
<1>4. session' = [session EXCEPT !.approval = TRUE, !.operation = n, !.state = "generating"]
  <2>1. Sent("review-required", "request") = "generating"
    BY Transitions DEF States
  <2> QED
    BY <1>1, <2>1 DEF Approve, Moved, SessionType
<1>5. /\ session' \in SessionType /\ session'.operation = n /\ session'.state = "generating"
      /\ session'.preview = NoPreview /\ session'.approval = TRUE /\ session'.data = session.data
  <2>1. "generating" \in States
    BY DEF States
  <2> HIDE DEF n
  <2> QED
    BY <1>1, <1>2, <1>4, <2>1 DEF SessionType
<1>6. operations'[n] = v
  BY <1>1, <1>3 DEF SessionInv, Types
<1>7. n \in Int
  BY <1>1 DEF Operations
<1>8. /\ UNCHANGED <<generations, ledger, live, edits, commit>>
      /\ approved' = approved \cup {session.data.request}
      /\ approved \subseteq approved' /\ approved' \subseteq Requests
      /\ open' = open
  BY <1>2 DEF Approve, SessionInv, Types, Delivered
<1> SUFFICES ASSUME NEW m, m = n
             PROVE  SessionInv'
  OBVIOUS
<1>9. Carries(m)' /\ Together(m)'
  <2> HIDE DEF n
  <2> QED
    BY <1>2, <1>5, <1>6, <1>7, <1>8 DEF Carries, Together, Delivered
<1>10. Held'
  BY <1>5, <1>8 DEF Held
<1> HIDE DEF v
<1> QED
  BY <1>1, <1>2, <1>3, <1>5, <1>8, <1>9, <1>10, CallKeeps DEF v

(* apply(): the operation evaluates again what is held.                    *)
LEMMA ApplyKeeps ==
  ASSUME SessionInv, Apply
  PROVE  SessionInv'
<1> DEFINE n == NextOperation
           v == [stage |-> "revalidating", base |-> live, proposal |-> session.data.proposal,
                 approval |-> session.approval]
<1>1. /\ n \in Operations /\ n \in 0..MaxOperations
      /\ session \in SessionType /\ session.state = "preview-ready"
      /\ Callable
  BY Unused DEF Apply
<1>2. /\ Delivered(session.data.request) /\ session.data.proposal \in Proposals
      /\ session.preview # NoPreview
  BY <1>1 DEF SessionInv, Held, Previews
<1>3. v \in OperationType /\ operations' = [operations EXCEPT ![n] = v]
  <2>1. session.approval \in BOOLEAN
    BY <1>1 DEF SessionType
  <2>2. v \in OperationType
    BY <1>2, <2>1, Zenon DEF OperationType, SessionInv, Types
  <2> QED
    BY <2>2 DEF Apply, Goes
<1>4. session' = [session EXCEPT !.operation = n, !.state = "applying"]
  <2>1. Sent("preview-ready", "apply") = "applying"
    BY Transitions DEF States
  <2> QED
    BY <1>1, <2>1 DEF Apply, Moved, SessionType
<1>5. /\ session' \in SessionType /\ session'.operation = n /\ session'.state = "applying"
      /\ session'.preview = session.preview /\ session'.approval = session.approval
      /\ session'.data = session.data
  <2>1. "applying" \in States
    BY DEF States
  <2> HIDE DEF n
  <2> QED
    BY <1>1, <1>2, <1>4, <2>1 DEF SessionType
<1>6. operations'[n] = v
  BY <1>1, <1>3 DEF SessionInv, Types
<1>7. n \in Int
  BY <1>1 DEF Operations
<1>8. /\ UNCHANGED <<generations, ledger, live, edits, commit, approved>>
      /\ approved \subseteq Requests
      /\ open' = open
  BY DEF Apply, outside, SessionInv, Types
<1> SUFFICES ASSUME NEW m, m = n
             PROVE  SessionInv'
  OBVIOUS
<1>9. Carries(m)' /\ Together(m)'
  <2> HIDE DEF n
  <2> QED
    BY <1>5, <1>6, <1>7 DEF Carries, Together
<1>10. Held'
  BY <1>1, <1>5, <1>8 DEF SessionInv, Held, Delivered
<1> HIDE DEF v
<1> QED
  BY <1>1, <1>2, <1>3, <1>5, <1>8, <1>9, <1>10, CallKeeps DEF v

(* cancel() and dispose(): a new number with nothing under way.            *)
LEMMA StopKeeps ==
  ASSUME SessionInv, Cancel \/ Dispose
  PROVE  SessionInv'
<1> DEFINE n == NextOperation
<1>1. /\ n \in Operations /\ n \in 0..MaxOperations
      /\ session \in SessionType /\ session.state \in States /\ session.state # "disposed"
      /\ operations[n] = NoOperation
      /\ operations = [operations EXCEPT ![n] = NoOperation]
      /\ Callable
  BY Unused DEF Cancel, Dispose
<1>2. NoOperation \in OperationType /\ operations' = operations
  BY DEF OperationType, Cancel, Dispose
<1>3. /\ session' \in SessionType /\ session'.operation = n
      /\ session'.state \in {"failed", "disposed"} /\ session'.preview = NoPreview
      /\ session'.approval = session.approval
      /\ session'.data = session.data \/ session'.data = NoData
  <2>1. /\ Sent(session.state, "failed") = "failed"
        /\ Sent(session.state, "dispose") = "disposed"
    BY <1>1, Transitions
  <2>2. \/ session' = [session EXCEPT !.operation = n, !.preview = NoPreview, !.data = NoData,
                                      !.state = "failed"]
        \/ session' = [session EXCEPT !.operation = n, !.preview = NoPreview, !.state = "disposed"]
    BY <1>1, <2>1 DEF Cancel, Dispose, Failed, Moved, WithoutData, WithoutPreview, SessionType
  <2>3. /\ NoData \in DataType /\ {"failed", "disposed"} \subseteq States
        /\ NoPreview \in Operations \cup {NoPreview}
    BY DEF NoData, DataType, States
  <2> HIDE DEF n
  <2> QED
    BY <1>1, <2>2, <2>3 DEF SessionType
<1>4. n \in Int
  BY <1>1 DEF Operations
<1>5. /\ UNCHANGED <<generations, ledger, live, edits, commit, approved>>
      /\ approved \subseteq Requests
      /\ open' = open \ {session.preview}
  BY DEF Cancel, Dispose, outside, SessionInv, Types
<1> SUFFICES ASSUME NEW m, m = n
             PROVE  SessionInv'
  OBVIOUS
<1>6. Carries(m)' /\ Together(m)'
  <2> HIDE DEF n
  <2> QED
    BY <1>1, <1>2, <1>3, <1>4 DEF Carries, Together, NoOperation
<1>7. Held'
  BY <1>3, <1>5 DEF SessionInv, Held, NoData
<1> QED
  BY <1>1, <1>2, <1>3, <1>5, <1>6, <1>7, CallKeeps DEF NoOperation

(* An operation that goes on without the session.                          *)
LEMMA GoesKeeps ==
  ASSUME SessionInv, NEW o \in Operations, operations[o].stage \notin {"none", "opening", "done"},
         NEW v \in OperationType, v.stage # "done", Goes(o, v),
         open' = IF v.stage = "opening" THEN open \cup {o} ELSE open,
         Outside, UNCHANGED session,
         Carries(o)', Current(o) => Together(o)'
  PROVE  SessionInv'
<1> USE DEF Outside
<1>1. Types
  BY DEF SessionInv
<1>2. /\ operations'[o] = v
      /\ \A p \in Operations : p # o => operations'[p] = operations[p]
      /\ operations' \in [Operations -> OperationType]
  BY <1>1, Gone
<1>3. Types'
  BY <1>1, <1>2 DEF Types
<1>4. ASSUME NEW p \in Operations, p # o
      PROVE  Carries(p)' /\ (Current(p)' => Together(p)')
  <2>1. Carries(p) /\ (Current(p) => Together(p))
    BY DEF SessionInv
  <2> QED
    BY <1>2, <1>4, <2>1 DEF Carries, Together, Current, Delivered
<1>5. Current(o)' => Current(o)
  BY DEF Current
<1>6. Held'
  BY DEF SessionInv, Held, Delivered
<1>7. Previews'
  <2>1. Opening' = IF v.stage = "opening" THEN Opening \cup {o} ELSE Opening
    BY <1>2 DEF Opening
  <2>2. session.preview # NoPreview => session.preview \in Operations /\ session.preview # o
    BY <1>1 DEF Types, SessionType, SessionInv, Previews
  <2> QED
    BY <1>2, <2>1, <2>2 DEF SessionInv, Previews
<1> QED
  BY <1>3, <1>4, <1>5, <1>6, <1>7 DEF SessionInv

(* The current operation ends and moves the session.                       *)
LEMMA MovedKeeps ==
  ASSUME SessionInv, NEW o \in Operations, operations[o].stage # "none", Current(o), Ends(o),
         session' \in SessionType, session'.operation = o, live' \in Documents,
         UNCHANGED <<generations, ledger, edits, commit, approved>>,
         Held',
         session'.preview \in {session.preview, o, NoPreview},
         open' = ({session'.preview} \ {NoPreview}) \cup (Opening \ {o}),
         session'.preview # NoPreview <=> session'.state \in {"preview-ready", "applying"}
  PROVE  SessionInv'
<1>1. Types
  BY DEF SessionInv
<1>2. /\ operations'[o] = [stage |-> "done"]
      /\ \A p \in Operations : p # o => operations'[p] = operations[p]
      /\ operations' \in [Operations -> OperationType]
  BY <1>1, Gone DEF Ends, OperationType
<1>3. Types'
  <2>1. open' \subseteq Operations
    BY <1>1 DEF Types, SessionType, Opening
  <2> QED
    BY <1>1, <1>2, <2>1 DEF Types
<1>4. ASSUME NEW p \in Operations
      PROVE  Carries(p)' /\ (Current(p)' => Together(p)')
  <2>1. CASE p = o
    <3>1. o \in Nat
      BY RequestsAssumption DEF Operations
    <3> QED
      BY <1>2, <2>1, <3>1 DEF Carries, Together
  <2>2. CASE p # o
    <3>1. Carries(p) /\ session.operation = o
      BY DEF SessionInv, Current
    <3>2. operations'[p] = operations[p]
      BY <1>2, <2>2
    <3> QED
      BY <2>2, <3>1, <3>2 DEF Carries, Current, Delivered
  <2> QED
    BY <2>1, <2>2
<1>5. Previews'
  <2>1. Opening' = Opening \ {o}
    BY <1>2 DEF Opening
  <2>2. session.preview # NoPreview =>
          session.preview \in Operations /\ operations[session.preview].stage = "done"
    BY <1>1 DEF Types, SessionType, SessionInv, Previews
  <2>3. session'.preview # NoPreview => operations'[session'.preview].stage = "done"
    BY <1>2, <2>2
  <2> QED
    BY <2>1, <2>3 DEF Previews
<1> QED
  BY <1>3, <1>4, <1>5 DEF SessionInv

(* What is known of an operation that works.                               *)
LEMMA Working ==
  ASSUME SessionInv, NEW o \in Operations,
         operations[o].stage \in {"proposing", "evaluating", "diffing", "opening", "revalidating"}
  PROVE  /\ operations[o] \in OperationType
         /\ operations[o].stage # "none"
         /\ o \in Int /\ ~(o > session.operation)
         /\ Carries(o)
         /\ Current(o) => Together(o)
         /\ session \in SessionType
<1>1. o \in Int
  BY DEF Operations
<1>2. Carries(o) /\ (Current(o) => Together(o)) /\ Types
  BY DEF SessionInv
<1>3. ~(o > session.operation)
  BY <1>2 DEF Carries, NoOperation
<1> QED
  BY <1>1, <1>2, <1>3 DEF Types

(* finishFailure, wherever an operation waits: old work fails nothing.     *)
LEMMA FinishFailureKeeps ==
  ASSUME SessionInv, NEW o \in Operations,
         operations[o].stage \in {"proposing", "evaluating", "diffing", "revalidating"},
         FinishFailure(o), Outside
  PROVE  SessionInv'
<1>1. operations[o].stage # "none" /\ operations[o].stage # "opening"
  OBVIOUS
<1>2. CASE Current(o)
  BY <1>1, <1>2, FailedKeeps DEF FinishFailure
<1>3. CASE ~Current(o)
  BY <1>1, <1>3, EndedKeeps DEF FinishFailure
<1> QED
  BY <1>2, <1>3

(* The answer of the server is evaluated, unless the request was           *)
(* superseded.                                                             *)
LEMMA ProposalArrivesKeeps ==
  ASSUME LedgerInv, SessionInv, NEW o \in Operations, ProposalArrives(o)
  PROVE  SessionInv'
<1> DEFINE v == [stage |-> "evaluating", base |-> operations[o].base, request |-> o,
                 proposal |-> generations[o].proposal, approval |-> FALSE]
<1>1. operations[o].stage = "proposing" /\ Outside
  BY DEF ProposalArrives, outside, Outside
<1>2. CASE FinishFailure(o)
  BY <1>1, <1>2, FinishFailureKeeps
<1>3. CASE generations[o].stage = "succeeded" /\ Current(o) /\ Goes(o, v) /\ UNCHANGED <<session, open>>
  <2>1. /\ operations[o] \in OperationType /\ o \in Int /\ ~(o > session.operation)
        /\ o \in Requests /\ session.state = "generating" /\ ~session.approval
        /\ session.approval \in BOOLEAN
    BY <1>1, <1>3, Working DEF Carries, Together, SessionType
  <2>2. operations[o].base \in Documents
    BY <1>1, <2>1, OperationShapes
  <2>3. generations[o].proposal \in Proposals
    BY <1>3, <2>1, GenerationShapes DEF LedgerInv
  <2>4. v \in OperationType /\ v.stage = "evaluating"
    BY <2>1, <2>2, <2>3 DEF OperationType
  <2>5. operations'[o] = v
    BY <1>3, <2>4, Gone DEF SessionInv
  <2>6. Carries(o)' /\ Together(o)'
    BY <1>1, <1>3, <2>1, <2>5 DEF Carries, Together, Delivered, Outside
  <2> HIDE DEF v
  <2> QED
    BY <1>1, <1>3, <2>4, <2>6, GoesKeeps
<1>4. CASE Ends(o) /\ UNCHANGED <<session, open>>
  BY <1>1, <1>4, EndedKeeps
<1> QED
  BY <1>2, <1>3, <1>4 DEF ProposalArrives

(* An accepted candidate is one of the documents.                          *)
LEMMA CandidateIsDocument ==
  ASSUME NEW d, NEW p \in Proposals \cup HostProposals, NEW c, Accepts(d, p, c)
  PROVE  c \in Documents
BY DEF Accepts, Documents

(* finishEvaluation: what goes to a preview was accepted, what goes to     *)
(* review was not yet approved.                                            *)
LEMMA EvaluatedKeeps ==
  ASSUME SessionInv, NEW o \in Operations, Evaluated(o)
  PROVE  SessionInv'
<1> DEFINE operation == operations[o]
           evaluation == Evaluate(operation.base, operation.proposal, operation.approval)
           v == [stage |-> "diffing", base |-> operation.base, request |-> operation.request,
                 proposal |-> operation.proposal, candidate |-> evaluation.candidate]
<1>1. operation.stage = "evaluating" /\ Outside
  BY DEF Evaluated, outside, Outside
<1>2. /\ operation \in OperationType /\ o \in Int /\ ~(o > session.operation)
      /\ operation.base \in Documents /\ operation.proposal \in Proposals
      /\ operation.request \in Requests /\ operation.approval \in BOOLEAN
      /\ Delivered(operation.request)
      /\ operation.approval => operation.request \in approved
      /\ Current(o) => session.state = "generating" /\ (session.approval <=> operation.approval)
      /\ session \in SessionType
  BY <1>1, Working, OperationShapes DEF Carries, Together
<1>3. CASE FinishFailure(o)
  BY <1>1, <1>3, FinishFailureKeeps
<1>4. CASE ~Current(o) /\ Ends(o) /\ UNCHANGED <<session, open>>
  BY <1>1, <1>4, EndedKeeps
<1>5. CASE Current(o) /\ Fails(o, open)
  BY <1>1, <1>5, FailedKeeps
<1>6. CASE Current(o) /\ evaluation = ReviewRequired /\ Review(o)
  <2>1. operation.proposal.operations # << >> /\ ~operation.approval
    BY <1>6, Reviewable
  <2> DEFINE data == [NoData EXCEPT !.proposal = operation.proposal, !.request = operation.request]
  <2>2. /\ data \in DataType /\ data.proposal = operation.proposal
        /\ data.request = operation.request
    BY <1>2 DEF DataType, NoData
  <2> HIDE DEF data
  <2>3. session' = [session EXCEPT !.data = data, !.state = "review-required"]
    <3>1. Sent("generating", "review") = "review-required"
      BY Transitions DEF States
    <3> QED
      BY <1>2, <1>6, <3>1 DEF Review, Moved, SessionType, data
  <2>4. "review-required" \in States
    BY DEF States
  <2>5. /\ session' \in SessionType /\ session'.operation = o
        /\ session'.state = "review-required" /\ session'.preview = session.preview
        /\ session'.data = data /\ session'.approval = session.approval
    BY <1>2, <1>6, <2>2, <2>3, <2>4 DEF SessionType, Current
  <2>6. Held'
    <3>1. /\ session'.data.proposal = operation.proposal
          /\ session'.data.request = operation.request
      BY <2>2, <2>5
    <3> QED
      BY <1>1, <1>2, <1>6, <2>1, <2>5, <3>1 DEF Held, Delivered, Outside
  <2>7. session.preview = NoPreview /\ open = Opening /\ o \notin Opening
    BY <1>1, <1>2, <1>6 DEF SessionInv, Previews, Opening
  <2>8. /\ Ends(o) /\ open' = open /\ live' \in Documents
        /\ UNCHANGED <<generations, ledger, edits, commit, approved>>
    BY <1>1, <1>6 DEF Review, Outside, SessionInv, Types
  <2> QED
    BY <1>1, <1>6, <2>5, <2>6, <2>7, <2>8, MovedKeeps
<1>7. CASE /\ Current(o) /\ evaluation.status = "accepted"
           /\ Goes(o, v) /\ UNCHANGED <<session, open>>
  <2> DEFINE c == evaluation.candidate
  <2>1. Accepts(operation.base, operation.proposal, c)
    BY <1>7, Acceptance
  <2>2. c \in Documents
    BY <1>2, <2>1, CandidateIsDocument
  <2> HIDE DEF c
  <2>3. v \in OperationType /\ v.stage = "diffing"
    BY <1>2, <2>2 DEF OperationType, c
  <2>4. operations'[o] = v
    BY <1>7, <2>3, Gone DEF SessionInv
  <2>5. Carries(o)' /\ Together(o)'
    <3>1. /\ operations'[o].stage = "diffing" /\ operations'[o].base = operation.base
          /\ operations'[o].request = operation.request
          /\ operations'[o].proposal = operation.proposal /\ operations'[o].candidate = c
      BY <2>4 DEF c
    <3> QED
      BY <1>1, <1>2, <1>7, <2>1, <3>1 DEF Carries, Together, Delivered, Outside, Accepts
  <2> HIDE DEF v
  <2> QED
    BY <1>1, <1>7, <2>3, <2>5, GoesKeeps
<1> QED
  BY <1>1, <1>3, <1>4, <1>5, <1>6, <1>7 DEF Evaluated, FinishEvaluation

(* A preview is opened, also for an operation that is no longer current.   *)
LEMMA OpenPreviewKeeps ==
  ASSUME SessionInv, NEW o \in Operations, OpenPreview(o)
  PROVE  SessionInv'
<1> DEFINE v == [operations[o] EXCEPT !.stage = "opening"]
<1>1. operations[o].stage = "diffing" /\ Outside
  BY DEF OpenPreview, outside, Outside
<1>2. CASE FinishFailure(o)
  BY <1>1, <1>2, FinishFailureKeeps
<1>3. CASE Goes(o, v) /\ open' = open \cup {o} /\ UNCHANGED session
  <2>1. /\ operations[o] \in OperationType /\ Carries(o) /\ o \in Int /\ ~(o > session.operation)
        /\ Current(o) => Together(o)
    BY <1>1, Working
  <2>2. v \in OperationType /\ operations[o].candidate \in Documents
    BY <1>1, <2>1, OperationShapes
  <2>3. /\ v.stage = "opening" /\ v.base = operations[o].base /\ v.request = operations[o].request
        /\ v.proposal = operations[o].proposal /\ v.candidate = operations[o].candidate
    <3>1. operations[o] \in [stage : {"diffing", "opening"}, base : Documents, proposal : Proposals,
                              request : Requests, candidate : Documents]
      <4> HIDE DEF Documents
      <4> QED
        BY <1>1, <2>1 DEF OperationType, NoOperation
    <3> QED
      BY <3>1
  <2>4. operations'[o] = v
    BY <1>3, <2>2, Gone DEF SessionInv
  <2>5. Carries(o)' /\ (Current(o) => Together(o)')
    BY ZenonT(60), <1>1, <1>3, <2>1, <2>3, <2>4 DEF Carries, Together, Delivered, Outside, Accepts
  <2> HIDE DEF v
  <2> QED
    BY <1>1, <1>3, <2>2, <2>3, <2>5, GoesKeeps
<1> QED
  BY <1>2, <1>3 DEF OpenPreview

(* installPreview: a preview that comes too late is closed again.          *)
LEMMA InstallPreviewKeeps ==
  ASSUME SessionInv, NEW o \in Operations, InstallPreview(o)
  PROVE  SessionInv'
<1> DEFINE operation == operations[o]
           data == [proposal |-> operation.proposal, request |-> operation.request,
                    base |-> operation.base, candidate |-> operation.candidate]
<1>1. operation.stage = "opening" /\ Outside
  BY DEF InstallPreview, outside, Outside
<1>2. CASE Current(o) /\ Fails(o, open \ {o})
  BY <1>1, <1>2, FailedKeeps
<1>3. CASE ~Current(o) /\ Ends(o) /\ open' = open \ {o} /\ UNCHANGED session
  BY <1>1, <1>3, EndedKeeps
<1>4. CASE /\ Current(o)
           /\ session' = Moved([session EXCEPT !.preview = o, !.data = data], "previewed")
           /\ Ends(o) /\ UNCHANGED open
  <2>1. /\ operation \in OperationType /\ Carries(o) /\ Together(o)
        /\ session \in SessionType
    BY <1>1, <1>4, Working
  <2>2. /\ operation.base \in Documents /\ operation.proposal \in Proposals
        /\ operation.request \in Requests /\ operation.candidate \in Documents
    BY <1>1, <2>1, OperationShapes
  <2>3. /\ session.state = "generating"
        /\ session.approval => operation.request \in approved
        /\ Delivered(operation.request)
        /\ Accepts(operation.base, operation.proposal, operation.candidate)
    BY <1>1, <2>1 DEF Carries, Together
  <2>4. /\ data \in DataType
        /\ data.proposal = operation.proposal /\ data.request = operation.request
        /\ data.base = operation.base /\ data.candidate = operation.candidate
    BY <2>2 DEF DataType
  <2> HIDE DEF data
  <2>5. session' = [session EXCEPT !.preview = o, !.data = data, !.state = "preview-ready"]
    <3>1. Sent("generating", "previewed") = "preview-ready"
      BY Transitions DEF States
    <3> QED
      BY <1>4, <2>1, <2>3, <3>1 DEF Moved, SessionType
  <2>6. /\ session' \in SessionType /\ session'.operation = o
        /\ session'.state = "preview-ready" /\ session'.preview = o
        /\ session'.data = data /\ session'.approval = session.approval
    <3>1. "preview-ready" \in States
      BY DEF States
    <3> QED
      BY <1>4, <2>1, <2>4, <2>5, <3>1 DEF SessionType, Current
  <2>7. operation.proposal.operations # << >>
    BY <2>3 DEF Accepts
  <2>8. /\ session'.data.proposal = operation.proposal
        /\ session'.data.request = operation.request
        /\ session'.data.base = operation.base
        /\ session'.data.candidate = operation.candidate
    BY <2>4, <2>6
  <2>9. Held'
    BY <1>1, <2>2, <2>3, <2>6, <2>7, <2>8 DEF Held, Delivered, Outside, Accepts
  <2>10. session.preview = NoPreview /\ open = Opening /\ o \in Opening
    BY <1>1, <2>3 DEF SessionInv, Previews, Opening
  <2>11. o # NoPreview
    BY DEF Operations, NoPreview
  <2>12. /\ open' = ({session'.preview} \ {NoPreview}) \cup (Opening \ {o})
         /\ live' \in Documents
         /\ UNCHANGED <<generations, ledger, edits, commit, approved>>
    BY <1>1, <1>4, <2>6, <2>10, <2>11 DEF Outside, SessionInv, Types
  <2> QED
    BY <1>1, <1>4, <2>6, <2>9, <2>11, <2>12, MovedKeeps
<1> QED
  BY <1>2, <1>3, <1>4 DEF InstallPreview

(* What an application is of, when it is carried out: the candidate that   *)
(* was previewed, made for the document it replaces.                       *)
LEMMA Application ==
  ASSUME SessionInv, NEW o \in Operations, operations[o].stage = "revalidating", Current(o),
         Evaluate(operations[o].base, operations[o].proposal, operations[o].approval).status = "accepted"
  PROVE  LET c == Evaluate(operations[o].base, operations[o].proposal, operations[o].approval).candidate
         IN  /\ c = session.data.candidate /\ operations[o].base = session.data.base
             /\ session.data.proposal \in Proposals /\ Delivered(session.data.request)
             /\ Accepts(session.data.base, session.data.proposal, c)
             /\ EffectiveRisk(session.data.proposal) # Presentation => session.data.request \in approved
             /\ session.state = "applying"
<1> DEFINE operation == operations[o]
           c == Evaluate(operation.base, operation.proposal, operation.approval).candidate
<1>1. /\ operation \in OperationType /\ Together(o) /\ session \in SessionType
  BY Working
<1>2. /\ session.state = "applying" /\ operation.proposal = session.data.proposal
      /\ operation.approval <=> session.approval
  BY <1>1 DEF Together
<1>3. /\ Accepts(session.data.base, session.data.proposal, session.data.candidate)
      /\ session.data.proposal \in Proposals /\ Delivered(session.data.request)
      /\ session.approval => session.data.request \in approved
  <2>1. Delivered(session.data.request) => session.data.request # 0
    BY RequestsAssumption DEF Delivered, Operations
  <2> QED
    BY <1>2, <2>1 DEF SessionInv, Held
<1>4. /\ Accepts(operation.base, operation.proposal, c)
      /\ EffectiveRisk(operation.proposal) # Presentation => operation.approval
  BY Acceptance
<1> HIDE DEF c
<1>5. operation.base = session.data.base
  BY <1>2, <1>3, <1>4 DEF Accepts
<1>6. Accepted(c) = Accepted(session.data.candidate)
  BY <1>2, <1>3, <1>4, <1>5 DEF Accepts
<1>7. c = session.data.candidate
  BY <1>6 DEF Accepted
<1> QED
  BY <1>2, <1>3, <1>4, <1>5, <1>7 DEF c

(* applyEvaluation: the candidate becomes live, or nothing changes.        *)
LEMMA RevalidatedKeeps ==
  ASSUME SessionInv, NEW o \in Operations, Revalidated(o)
  PROVE  SessionInv'
<1> DEFINE operation == operations[o]
           c == Evaluate(operation.base, operation.proposal, operation.approval).candidate
<1>1. /\ operation.stage = "revalidating"
      /\ UNCHANGED <<generations, ledger, edits, commit, approved>>
  BY DEF Revalidated
<1>2. CASE FinishFailure(o) /\ UNCHANGED live
  BY <1>1, <1>2, FinishFailureKeeps DEF Outside
<1>3. CASE ~Current(o) /\ Ends(o) /\ UNCHANGED <<session, open, live>>
  BY <1>1, <1>3, EndedKeeps DEF Outside
<1>4. CASE Current(o) /\ Fails(o, open) /\ UNCHANGED live
  BY <1>1, <1>4, FailedKeeps DEF Outside
<1>5. CASE /\ Current(o)
           /\ Evaluate(operation.base, operation.proposal, operation.approval).status = "accepted"
           /\ live' = c
           /\ session' = Moved(WithoutPreview([session EXCEPT !.data.candidate = c]), "applied")
           /\ open' = open \ {session.preview}
           /\ Ends(o)
  <2>1. /\ c = session.data.candidate /\ session.data.proposal \in Proposals
        /\ Accepts(session.data.base, session.data.proposal, c)
        /\ session.state = "applying" /\ session \in SessionType
    BY <1>1, <1>5, Application, Working
  <2>2. c \in Documents
    BY <2>1, CandidateIsDocument
  <2> HIDE DEF c
  <2>3. session' = [session EXCEPT !.preview = NoPreview, !.state = "applied"]
    <3>1. Sent("applying", "applied") = "applied"
      BY Transitions DEF States
    <3>2. [session EXCEPT !.data.candidate = c] = session
      BY <2>1 DEF SessionType, DataType
    <3> QED
      BY <1>5, <2>1, <3>1, <3>2 DEF Moved, WithoutPreview, SessionType
  <2>4. /\ session' \in SessionType /\ session'.operation = o
        /\ session'.state = "applied" /\ session'.preview = NoPreview
        /\ session'.data = session.data /\ session'.approval = session.approval
    <3>1. "applied" \in States /\ NoPreview \in Operations \cup {NoPreview}
      BY DEF States
    <3> QED
      BY <1>5, <2>1, <2>3, <3>1 DEF SessionType, Current
  <2>5. Held'
    BY <1>1, <2>4 DEF SessionInv, Held
  <2>6. open' = ({session'.preview} \ {NoPreview}) \cup (Opening \ {o})
    <3>1. o \notin Opening /\ session.preview \notin Opening
      BY <1>1 DEF Opening, SessionInv, Previews, NoPreview, Operations
    <3> QED
      BY <1>5, <2>4, <3>1 DEF SessionInv, Previews
  <2> QED
    BY <1>1, <1>5, <2>2, <2>4, <2>5, <2>6, MovedKeeps
<1> QED
  BY <1>2, <1>3, <1>4, <1>5 DEF Revalidated, ApplyEvaluation, ApplyCandidate

-----------------------------------------------------------------------------
(* Others.                                                                 *)

(* What does not touch the session leaves it in order, as long as what was *)
(* delivered stays delivered.                                              *)
LEMMA OthersKeep ==
  ASSUME SessionInv, UNCHANGED <<session, operations, open, approved>>,
         \A r : Delivered(r) => Delivered(r)', Types'
  PROVE  SessionInv'
<1>1. ASSUME NEW p \in Operations
      PROVE  Carries(p)' /\ (Current(p)' => Together(p)')
  <2>1. Carries(p) /\ (Current(p) => Together(p))
    BY DEF SessionInv
  <2> QED
    BY <2>1 DEF Carries, Together, Current
<1>2. Held'
  BY DEF SessionInv, Held
<1>3. Previews'
  BY DEF SessionInv, Previews, Opening
<1> QED
  BY <1>1, <1>2, <1>3 DEF SessionInv

(* The server works.                                                       *)
LEMMA ServesKeeps ==
  ASSUME LedgerInv, SessionInv, NEW r \in Requests, Serves(r)
  PROVE  SessionInv'
<1>1. \A q : Delivered(q) => Delivered(q)'
  <2> SUFFICES ASSUME NEW q \in Requests, generations[q].stage = "succeeded"
               PROVE  generations'[q].stage = "succeeded"
    BY DEF Delivered
  <2>1. CASE q = r
    BY <2>1 DEF Serves, Serve, Prepare, ReserveBudget, GenerateText, SettleBudget, NotStarted
  <2>2. CASE q # r
    <3>1. generations'[q] = generations[q]
      BY <2>2 DEF LedgerInv, Serves, Serve, Prepare, ReserveBudget, GenerateText, SettleBudget,
                  Reject, RejectLost, Settling
    <3> QED
      BY <3>1
  <2> QED
    BY <2>1, <2>2
<1>2. UNCHANGED <<live, edits, session, operations, open, commit, approved>>
  BY DEF Serves
<1> QED
  BY <1>1, <1>2, OthersKeep DEF SessionInv, Types

(* The live document is edited.                                            *)
LEMMA EditKeeps ==
  ASSUME SessionInv, NEW d \in Edits, Edit(d)
  PROVE  SessionInv'
<1>1. Types' /\ UNCHANGED <<session, operations, open, approved, generations>>
  BY MaxEditsAssumption DEF Edit, SessionInv, Types, Documents
<1> QED
  BY <1>1, OthersKeep DEF Delivered

(* What is known of a commit that is being evaluated.                      *)
LEMMA CommitShapes ==
  ASSUME NEW v \in CommitType, v.stage = "evaluating"
  PROVE  /\ v.base \in Documents /\ v.proposal \in HostProposals
         /\ [v EXCEPT !.stage = "applied"] \in CommitType
         /\ [v EXCEPT !.stage = "applied"].stage = "applied"
<1>1. v \in [stage : {"evaluating", "applied"}, base : Documents, proposal : HostProposals,
             approval : BOOLEAN]
  <2> HIDE DEF Documents
  <2> QED
    BY DEF CommitType, NoOperation
<1> HIDE DEF Documents
<1> QED
  BY <1>1 DEF CommitType

(* commitUiPatchProposal of another writer.                                *)
LEMMA CommitKeeps ==
  ASSUME SessionInv,
         \/ \E p \in HostProposals, approval \in BOOLEAN : StartCommit(p, approval)
         \/ FinishCommit
  PROVE  SessionInv'
<1>1. UNCHANGED <<session, operations, open, approved, generations, edits>>
  BY DEF StartCommit, FinishCommit
<1>2. Types
  BY DEF SessionInv
<1>3. live' \in Documents /\ commit' \in CommitType
  <2>1. ASSUME NEW p \in HostProposals, NEW approval \in BOOLEAN, StartCommit(p, approval)
        PROVE  live' \in Documents /\ commit' \in CommitType
    <3>1. commit' = [stage |-> "evaluating", base |-> live, proposal |-> p, approval |-> approval]
      BY <2>1 DEF StartCommit
    <3>2. live \in Documents
      BY <1>2 DEF Types
    <3>3. commit' \in CommitType
      BY <3>1, <3>2, Zenon DEF CommitType
    <3> QED
      BY <2>1, <3>2, <3>3 DEF StartCommit
  <2>2. ASSUME FinishCommit
        PROVE  live' \in Documents /\ commit' \in CommitType
    <3> DEFINE evaluation == Evaluate(commit.base, commit.proposal, commit.approval)
    <3>1. /\ commit \in CommitType /\ commit.stage = "evaluating" /\ live \in Documents
          /\ commit.proposal \in HostProposals
          /\ [commit EXCEPT !.stage = "applied"] \in CommitType
      BY <1>2, <2>2, CommitShapes DEF FinishCommit, Types
    <3>2. CASE /\ evaluation.status = "accepted" /\ live' = evaluation.candidate
               /\ commit' = [commit EXCEPT !.stage = "applied"]
      BY <3>1, <3>2, Acceptance, CandidateIsDocument
    <3>3. CASE commit' = [stage |-> "refused"] /\ UNCHANGED live
      BY <3>1, <3>3 DEF CommitType
    <3> QED
      BY <2>2, <3>2, <3>3 DEF FinishCommit
  <2> QED
    BY <2>1, <2>2
<1>4. Types'
  BY <1>1, <1>2, <1>3 DEF Types
<1> QED
  BY <1>1, <1>4, OthersKeep DEF Delivered

-----------------------------------------------------------------------------
(* The invariant.                                                          *)

(* A behaviour starts with nothing under way.                              *)
LEMMA InitIInv == Init => IInv
<1> SUFFICES ASSUME Init
             PROVE  IInv
  OBVIOUS
<1>1. LedgerInv
  BY DEF Init, GenerationsInit, LedgerInv, GenerationType, ReservationType, Accounted, NotStarted,
         NoReservation
<1>2. Types
  <2>1. /\ session \in SessionType
    BY RequestsAssumption
       DEF Init, SessionType, DataType, NoData, States, Operations
  <2>2. operations \in [Operations -> OperationType] /\ commit \in CommitType
    BY DEF Init, OperationType, CommitType
  <2> QED
    BY <2>1, <2>2, MaxEditsAssumption DEF Init, Types, Documents
<1>3. ASSUME NEW o \in Operations
      PROVE  Carries(o) /\ Together(o)
  BY DEF Init, Carries, Together, NoOperation
<1>4. Held
  BY DEF Init, Held
<1>5. Previews
  BY DEF Init, Previews, Opening, NoPreview, NoOperation
<1> QED
  BY <1>1, <1>2, <1>3, <1>4, <1>5 DEF IInv, SessionInv

(* Every step keeps the invariant.                                         *)
LEMMA NextIInv == IInv /\ [Next]_vars => IInv'
<1> SUFFICES ASSUME LedgerInv, SessionInv, [Next]_vars
             PROVE  LedgerInv' /\ SessionInv'
  BY DEF IInv
<1>1. ASSUME UNCHANGED <<generations, ledger>>
      PROVE  LedgerInv'
  BY <1>1 DEF LedgerInv
<1>2. CASE Request
  BY <1>1, <1>2, RequestKeeps DEF Request, outside
<1>3. CASE Approve
  BY <1>1, <1>3, ApproveKeeps DEF Approve
<1>4. CASE Apply
  BY <1>1, <1>4, ApplyKeeps DEF Apply, outside
<1>5. CASE Cancel \/ Dispose
  BY <1>1, <1>5, StopKeeps DEF Cancel, Dispose, outside
<1>6. ASSUME NEW r \in Requests, Serves(r)
      PROVE  LedgerInv' /\ SessionInv'
  BY <1>6, ServesKeeps, ServeAccounts DEF Serves
<1>7. ASSUME NEW o \in Operations, Proceed(o)
      PROVE  LedgerInv' /\ SessionInv'
  <2>1. UNCHANGED <<generations, ledger>>
    BY <1>7 DEF Proceed, ProposalArrives, Evaluated, OpenPreview, InstallPreview, Revalidated, outside
  <2> QED
    BY <1>1, <1>7, <2>1, ProposalArrivesKeeps, EvaluatedKeeps, OpenPreviewKeeps, InstallPreviewKeeps,
       RevalidatedKeeps DEF Proceed
<1>8. ASSUME NEW d \in Edits, Edit(d)
      PROVE  LedgerInv' /\ SessionInv'
  BY <1>1, <1>8, EditKeeps DEF Edit
<1>9. CASE \/ \E p \in HostProposals, approval \in BOOLEAN : StartCommit(p, approval)
           \/ FinishCommit
  BY <1>1, <1>9, CommitKeeps DEF StartCommit, FinishCommit
<1>10. CASE UNCHANGED vars
  BY <1>1, <1>10, OthersKeep DEF vars, Delivered, SessionInv, Types
<1> QED
  BY <1>2, <1>3, <1>4, <1>5, <1>6, <1>7, <1>8, <1>9, <1>10 DEF Next

(* The invariant holds for ever.                                           *)
LEMMA Invariant == Spec => []IInv
BY InitIInv, NextIInv, PTL DEF Spec

-----------------------------------------------------------------------------
(* The results.                                                            *)

(* The session, its operations and the live document keep their types: the *)
(* live document is always one that somebody made.                         *)
THEOREM TypeCorrect == Spec => []TypeOK
<1>1. IInv => TypeOK
  <2> SUFFICES ASSUME IInv
               PROVE  TypeOK
    OBVIOUS
  <2>1. Types
    BY DEF IInv, SessionInv
  <2>2. ASSUME NEW o \in Operations
        PROVE  operations[o].stage \in
                 {"none", "proposing", "evaluating", "diffing", "opening", "revalidating", "done"}
    <3>1. operations[o] \in OperationType
      BY <2>1 DEF Types
    <3> HIDE DEF Documents
    <3> QED
      BY <3>1 DEF OperationType, NoOperation
  <2> QED
    BY <2>1, <2>2 DEF TypeOK, Types, SessionType, DataType
<1> QED
  BY <1>1, Invariant, PTL

(* The budget is accounted for whatever fails between the reservation and  *)
(* its settlement: nothing answered stays reserved, what is paid for is    *)
(* delivered and the other way round, within the amount reserved           *)
(* (generateGovernedUiPatchProposal, settleBudget).                        *)
THEOREM BudgetsKept == Spec => []BudgetsSettled
<1>1. IInv => BudgetsSettled
  <2> SUFFICES ASSUME LedgerInv, NEW r \in Requests
               PROVE  /\ Answered(r) /\ ~Lost(r) =>
                           /\ ledger[r].state # "open"
                           /\ ledger[r].state = "completed" <=> generations[r].stage = "succeeded"
                      /\ ledger[r].state = "completed" => ledger[r].cost <= ledger[r].limit
                      /\ ledger[r].state # "none" => ledger[r].limit <= CostLimit
    BY DEF IInv, BudgetsSettled
  <2>1. Accounted(generations[r], ledger[r]) /\ ledger[r] \in ReservationType
    BY DEF LedgerInv
  <2>2. ledger[r].state # "none" => ledger[r].limit <= CostLimit
    BY <2>1, ReservationShapes, LimitsAssumption
  <2> QED
    BY <2>1, <2>2 DEF Accounted, Answered, Lost
<1> QED
  BY <1>1, Invariant, PTL

(* Superseded, cancelled and failed work leaves no preview behind, and the *)
(* session holds one exactly while the user may apply it (installPreview,  *)
(* disposePreview).                                                        *)
THEOREM PreviewsCorrect == Spec => []PreviewsAccounted
<1>1. IInv => PreviewsAccounted
  <2> SUFFICES ASSUME SessionInv
               PROVE  PreviewsAccounted
    BY DEF IInv
  <2>1. session.state \in {"review-required", "preview-ready", "applying"} =>
          session.data.proposal # NoProposal
    BY DEF SessionInv, Held, NoProposal
  <2>2. session.state \in {"preview-ready", "applying"} => session.data.candidate # NoDocument
    <3> SUFFICES ASSUME session.state \in {"preview-ready", "applying"}
                 PROVE  session.data.candidate # NoDocument
      OBVIOUS
    <3>1. /\ session.data.proposal \in Proposals
          /\ Accepts(session.data.base, session.data.proposal, session.data.candidate)
      BY DEF SessionInv, Held
    <3> QED
      BY <3>1, AcceptedIsGuarded
  <2> QED
    BY <2>1, <2>2 DEF SessionInv, Previews, Opening, PreviewsAccounted
<1> QED
  BY <1>1, Invariant, PTL

(* What a step does to the live document, and who does it.                 *)
LEMMA Changes ==
  ASSUME IInv, [Next]_vars
  PROVE  \/ UNCHANGED live /\ ~StudioApplies /\ ~HostApplies
         \/ \E d \in Edits : Edit(d)
         \/ \E o \in Operations :
              /\ operations[o].stage = "revalidating" /\ Current(o) /\ live = operations[o].base
              /\ Evaluate(operations[o].base, operations[o].proposal, operations[o].approval).status = "accepted"
              /\ live' = Evaluate(operations[o].base, operations[o].proposal, operations[o].approval).candidate
              /\ session' = Moved(WithoutPreview([session EXCEPT !.data.candidate = live']), "applied")
              /\ UNCHANGED <<generations, ledger, edits, commit, approved>>
         \/ /\ commit.stage = "evaluating" /\ live = commit.base
            /\ Evaluate(commit.base, commit.proposal, commit.approval).status = "accepted"
            /\ live' = Evaluate(commit.base, commit.proposal, commit.approval).candidate
            /\ commit' = [commit EXCEPT !.stage = "applied"]
            /\ UNCHANGED session
<1>1. session \in SessionType /\ session.state \in States
  BY DEF IInv, SessionInv, Types, SessionType
<1>2. Sent("applying", "request") # "applied" /\ Sent("applying", "apply") # "applied"
  BY DEF Sent
<1>3. ASSUME session.state = "applying"
      PROVE  /\ Sent(session.state, "request") # "applied" /\ Sent(session.state, "failed") # "applied"
             /\ Sent(session.state, "dispose") # "applied" /\ Sent(session.state, "review") # "applied"
             /\ Sent(session.state, "previewed") # "applied"
  BY <1>3 DEF Sent
<1>4. ASSUME NEW o \in Operations, NEW S, Fails(o, S)
      PROVE  ~StudioApplies
  BY <1>1, <1>3, <1>4 DEF Fails, Failed, Moved, WithoutData, WithoutPreview, StudioApplies, SessionType
<1>5. ASSUME UNCHANGED session
      PROVE  ~StudioApplies
  BY <1>5 DEF StudioApplies
<1>6. ASSUME UNCHANGED commit
      PROVE  ~HostApplies
  BY <1>6 DEF HostApplies
<1>7. CASE Request \/ Approve \/ Apply \/ Cancel \/ Dispose
  <2>1. UNCHANGED live /\ ~HostApplies
    BY <1>6, <1>7 DEF Request, Approve, Apply, Cancel, Dispose, outside
  <2>2. CASE Approve \/ Apply
    BY <2>1, <2>2 DEF Approve, Apply, StudioApplies
  <2>3. CASE Request
    BY <1>1, <1>3, <2>1, <2>3 DEF Request, Moved, WithoutData, WithoutPreview, StudioApplies, SessionType
  <2>4. CASE Cancel
    BY <1>1, <1>3, <2>1, <2>4 DEF Cancel, Failed, Moved, WithoutData, WithoutPreview, StudioApplies,
                                  SessionType
  <2>5. CASE Dispose
    BY <1>1, <1>3, <2>1, <2>5 DEF Dispose, Moved, WithoutPreview, StudioApplies, SessionType
  <2> QED
    BY <1>7, <2>2, <2>3, <2>4, <2>5
<1>8. ASSUME NEW r \in Requests, Serves(r)
      PROVE  UNCHANGED live /\ ~StudioApplies /\ ~HostApplies
  BY <1>5, <1>6, <1>8 DEF Serves
<1>9. ASSUME NEW o \in Operations, FinishFailure(o)
      PROVE  ~StudioApplies
  BY <1>4, <1>5, <1>9 DEF FinishFailure
<1>10. ASSUME NEW o \in Operations,
              ProposalArrives(o) \/ Evaluated(o) \/ OpenPreview(o) \/ InstallPreview(o)
       PROVE  UNCHANGED live /\ ~StudioApplies /\ ~HostApplies
  <2>1. UNCHANGED live /\ ~HostApplies
    BY <1>6, <1>10 DEF ProposalArrives, Evaluated, OpenPreview, InstallPreview, outside
  <2>2. CASE ProposalArrives(o) \/ OpenPreview(o)
    BY <1>5, <1>9, <2>1, <2>2 DEF ProposalArrives, OpenPreview
  <2>3. CASE Evaluated(o)
    <3>1. CASE Review(o)
      BY <1>1, <1>3, <2>1, <3>1 DEF Review, Moved, StudioApplies, SessionType
    <3> QED
      BY <1>4, <1>5, <1>9, <2>1, <2>3, <3>1 DEF Evaluated, FinishEvaluation
  <2>4. CASE InstallPreview(o)
    <3>1. ASSUME NEW data,
                 session' = Moved([session EXCEPT !.preview = o, !.data = data], "previewed")
          PROVE  ~StudioApplies
      BY <1>1, <1>3, <3>1 DEF Moved, StudioApplies, SessionType
    <3> QED
      BY <1>4, <1>5, <2>1, <2>4, <3>1 DEF InstallPreview
  <2> QED
    BY <1>10, <2>2, <2>3, <2>4
<1>11. ASSUME NEW o \in Operations, Revalidated(o)
       PROVE  \/ UNCHANGED live /\ ~StudioApplies /\ ~HostApplies
              \/ /\ operations[o].stage = "revalidating" /\ Current(o) /\ live = operations[o].base
                 /\ Evaluate(operations[o].base, operations[o].proposal, operations[o].approval).status = "accepted"
                 /\ live' = Evaluate(operations[o].base, operations[o].proposal, operations[o].approval).candidate
                 /\ session' = Moved(WithoutPreview([session EXCEPT !.data.candidate = live']), "applied")
                 /\ UNCHANGED <<generations, ledger, edits, commit, approved>>
  BY <1>4, <1>5, <1>6, <1>9, <1>11 DEF Revalidated, ApplyEvaluation, ApplyCandidate
<1>12. CASE \/ \E p \in HostProposals, approval \in BOOLEAN : StartCommit(p, approval)
            \/ FinishCommit
  BY <1>5, <1>12 DEF StartCommit, FinishCommit, HostApplies
<1>13. CASE UNCHANGED vars
  BY <1>5, <1>6, <1>13 DEF vars
<1> QED
  BY <1>7, <1>8, <1>10, <1>11, <1>12, <1>13 DEF Next, Proceed

(* The live document changes only into the candidate that was evaluated    *)
(* for exactly the document it replaces; what the session applies is what  *)
(* it previewed, paid for, and approved for this request unless it is      *)
(* presentation only (applyEvaluation, applyCandidate,                     *)
(* commitUiPatchProposal).                                                 *)
THEOREM ChangesReviewed == Spec => AppliedAsReviewed
<1> DEFINE A ==
      /\ StudioApplies =>
           LET request == session.data.request
           IN  /\ live = session.data.base /\ live' = session.data.candidate
               /\ generations[request].stage = "succeeded"
               /\ ledger[request].state = "completed"
               /\ Guarded(request \in approved)
      /\ HostApplies => live = commit.proposal.baseHash /\ Guarded(commit.approval)
      /\ live' # live => StudioApplies \/ HostApplies \/ edits' # edits
<1>1. IInv /\ [Next]_vars => A
  <2> SUFFICES ASSUME IInv, [Next]_vars
               PROVE  A
    OBVIOUS
  <2>1. LedgerInv /\ SessionInv
    BY DEF IInv
  <2>2. ASSUME NEW d \in Edits, Edit(d)
        PROVE  A
    <3>1. ~StudioApplies /\ ~HostApplies
      BY <2>2 DEF Edit, StudioApplies, HostApplies
    <3>2. edits' # edits
      BY <2>1, <2>2, MaxEditsAssumption DEF Edit, SessionInv, Types
    <3> QED
      BY <3>1, <3>2
  <2>3. ASSUME NEW o \in Operations,
               operations[o].stage = "revalidating" /\ Current(o) /\ live = operations[o].base,
               Evaluate(operations[o].base, operations[o].proposal, operations[o].approval).status = "accepted",
               live' = Evaluate(operations[o].base, operations[o].proposal, operations[o].approval).candidate,
               session' = Moved(WithoutPreview([session EXCEPT !.data.candidate = live']), "applied"),
               UNCHANGED <<generations, ledger, edits, commit, approved>>
        PROVE  A
    <3>1. /\ live' = session.data.candidate /\ live = session.data.base
          /\ session.data.proposal \in Proposals /\ Delivered(session.data.request)
          /\ Accepts(session.data.base, session.data.proposal, live')
          /\ EffectiveRisk(session.data.proposal) # Presentation => session.data.request \in approved
          /\ session.state = "applying"
      BY <2>1, <2>3, Application
    <3>2. Guarded(session.data.request \in approved)
      BY <3>1, AcceptedIsGuarded DEF Guarded
    <3>3. /\ generations[session.data.request].stage = "succeeded"
          /\ ledger[session.data.request].state = "completed"
      BY <2>1, <3>1 DEF Delivered, LedgerInv, Accounted
    <3>4. StudioApplies
      <4>1. session \in SessionType /\ Sent("applying", "applied") = "applied"
        BY <2>1, Transitions DEF SessionInv, Types, States
      <4> QED
        BY <2>3, <3>1, <4>1 DEF StudioApplies, Moved, WithoutPreview, SessionType
    <3>5. ~HostApplies
      BY <2>3 DEF HostApplies
    <3> QED
      BY <3>1, <3>2, <3>3, <3>4, <3>5
  <2>4. ASSUME commit.stage = "evaluating" /\ live = commit.base,
               Evaluate(commit.base, commit.proposal, commit.approval).status = "accepted",
               live' = Evaluate(commit.base, commit.proposal, commit.approval).candidate,
               commit' = [commit EXCEPT !.stage = "applied"],
               UNCHANGED session
        PROVE  A
    <3>1. commit.proposal \in HostProposals /\ commit'.stage = "applied"
      BY <2>1, <2>4, CommitShapes DEF SessionInv, Types
    <3>2. /\ Accepts(live, commit.proposal, live')
          /\ EffectiveRisk(commit.proposal) # Presentation => commit.approval
      BY <2>4, Acceptance
    <3>3. live = commit.proposal.baseHash
      BY <3>2 DEF Accepts
    <3>4. Guarded(commit.approval)
      BY <3>1, <3>2, AcceptedIsGuarded DEF Guarded
    <3>5. ~StudioApplies /\ HostApplies
      BY <2>4, <3>1 DEF StudioApplies, HostApplies
    <3> QED
      BY <3>3, <3>4, <3>5
  <2>5. CASE UNCHANGED live /\ ~StudioApplies /\ ~HostApplies
    BY <2>5
  <2> HIDE DEF A
  <2> QED
    BY <2>2, <2>3, <2>4, <2>5, Changes
<1> QED
  <2>1. IInv /\ [Next]_vars => [A]_vars
    BY <1>1
  <2> QED
    BY <2>1, Invariant, PTL DEF Spec, AppliedAsReviewed
=============================================================================
