-------------------------- MODULE GovernedGeneration --------------------------
(***************************************************************************)
(* Governed generation of proposals (packages/ai/src/governed-generation   *)
(* .ts and its support module): the server side of a Studio request.  A    *)
(* generation plans its prompt, estimates its tokens, reserves the most it *)
(* may cost in the budget ledger, calls the provider, and settles the      *)
(* reservation with what became of it before it answers.                   *)
(*                                                                         *)
(* The ledger and the provider are external.  A ledger call may fail with  *)
(* or without having been carried out.                                     *)
(***************************************************************************)
EXTENDS PatchEvaluation

CONSTANTS
  Requests,      \* generations, one for each request of the Studio
  Proposals,     \* what a provider may generate
  Tokens,        \* a bound: token counts that are estimated or reported
  InputLimit,    \* the smaller of the budget's and the manifest's limit
  OutputLimit,   \* maximumOutputTokens of the budget
  InputPrice,    \* of the manifest, for PriceUnit tokens
  OutputPrice,
  PriceUnit,
  CostLimit      \* maximumCostMicroUsd of the budget

ASSUME TokensAssumption == Tokens \subseteq Nat
ASSUME LimitsAssumption == {InputLimit, OutputLimit, CostLimit} \subseteq Nat
ASSUME PriceAssumption ==
  InputPrice \in Nat /\ OutputPrice \in Nat /\ PriceUnit \in Nat \ {0}

VARIABLES
  generations,  \* request -> where its generation is
  ledger        \* external: request -> its reservation

generationVars == <<generations, ledger>>

NotStarted == [stage |-> "none"]
NoReservation == [state |-> "none"]

GenerationsInit ==
  /\ generations = [r \in Requests |-> NotStarted]
  /\ ledger = [r \in Requests |-> NoReservation]

\* What the tokens cost, rounded up.
Cost(input, output) ==
  (input * InputPrice + output * OutputPrice + PriceUnit - 1) \div PriceUnit

\* The generation of request r answers with a rejection.
Reject(r) == generations' = [generations EXCEPT ![r] = [stage |-> "rejected"]]

\* A ledger call whose answer was an error.
RejectLost(r) == generations' = [generations EXCEPT ![r] = [stage |-> "rejected", lost |-> TRUE]]

\* Preflight, route, plan and estimate: nothing has been spent yet.
Prepare(r) ==
  /\ generations[r] = NotStarted
  /\ \/ Reject(r)
     \/ \E estimate \in Tokens \ {0} :
          /\ estimate <= InputLimit
          /\ Cost(estimate, OutputLimit) <= CostLimit
          /\ generations' = [generations EXCEPT ![r] = [stage |-> "reserving", input |-> estimate]]
  /\ UNCHANGED ledger

ReserveBudget(r) ==
  /\ generations[r].stage = "reserving"
  /\ LET input == generations[r].input
         reserved == [ledger EXCEPT ![r] =
                        [state |-> "open", limit |-> Cost(input, OutputLimit)]]
     IN  \/ /\ ledger' = reserved
            /\ generations' = [generations EXCEPT ![r] = [stage |-> "generating", input |-> input]]
         \/ Reject(r) /\ UNCHANGED ledger
         \/ RejectLost(r) /\ ledger' \in {ledger, reserved}

Settling(r, settlement) ==
  generations' = [generations EXCEPT ![r] = [stage |-> "settling", settlement |-> settlement]]

\* Mutation of GenerateText: a failed generation is answered without settlement.
GenerateTextUnsettled(r) ==
  /\ generations[r].stage = "generating"
  /\ \/ Reject(r)
     \/ \E p \in Proposals :
          Settling(r, [state |-> "completed", cost |-> ledger[r].limit, proposal |-> p])
  /\ UNCHANGED ledger

\* The provider fails, is aborted or times out, reports no usage, or reports what
\* it used: more than was allowed, or a proposal that will be paid for.
GenerateText(r) ==
  /\ generations[r].stage = "generating"
  /\ \/ Settling(r, [state |-> "failed"])
     \/ \E input, output \in Tokens :
          LET within == input <= generations[r].input /\ output <= OutputLimit
              cost == Cost(input, output)
          IN  \/ ~within /\ Settling(r, [state |-> "overrun"])
              \/ /\ within
                 /\ \E p \in Proposals :
                      Settling(r, IF cost > ledger[r].limit
                                  THEN [state |-> "overrun", cost |-> cost]
                                  ELSE [state |-> "completed", cost |-> cost, proposal |-> p])
  /\ UNCHANGED ledger

\* The proposal is answered once the ledger has answered.
SettleBudget(r) ==
  /\ generations[r].stage = "settling"
  /\ LET settlement == generations[r].settlement
         settled == [ledger EXCEPT ![r] =
                       [f \in {"state", "limit"} \cup (DOMAIN settlement \cap {"cost"}) |->
                          IF f = "limit" THEN ledger[r].limit ELSE settlement[f]]]
     IN  \/ /\ settlement.state = "completed"
            /\ ledger' = settled
            /\ generations' = [generations EXCEPT ![r] =
                 [stage |-> "succeeded", proposal |-> settlement.proposal]]
         \/ settlement.state # "completed" /\ ledger' = settled /\ Reject(r)
         \/ RejectLost(r) /\ ledger' \in {ledger, settled}

Serve(r) == Prepare(r) \/ ReserveBudget(r) \/ GenerateText(r) \/ SettleBudget(r)

-----------------------------------------------------------------------------
Answered(r) == generations[r].stage \in {"succeeded", "rejected"}
Lost(r) == "lost" \in DOMAIN generations[r]

(* The budget is accounted for, whatever fails between reservation and     *)
(* settlement: an answered generation leaves no reservation open, what is  *)
(* paid for as completed is delivered and the other way round, within the  *)
(* amount reserved - unless the ledger's own answer was lost.              *)
(* docs/ai-and-export.md: "settlement failure, missing or over-limit       *)
(* usage, provider failure, cancellation, and timeout all return stable    *)
(* redacted diagnostics".                                                  *)
BudgetsSettled ==
  \A r \in Requests :
    /\ Answered(r) /\ ~Lost(r) =>
         /\ ledger[r].state # "open"
         /\ ledger[r].state = "completed" <=> generations[r].stage = "succeeded"
    /\ ledger[r].state = "completed" => ledger[r].cost <= ledger[r].limit
    /\ ledger[r].state # "none" => ledger[r].limit <= CostLimit
=============================================================================
