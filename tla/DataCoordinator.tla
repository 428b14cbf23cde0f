--------------------------- MODULE DataCoordinator ---------------------------
(***************************************************************************)
(* Remote requests of logical actors (packages/data): DataActorCoordinator *)
(* with its query cache, one coordinator per context (a tab or a worker),  *)
(* and the invalidation bus between contexts.                              *)
(*                                                                         *)
(* A call is one execute() promise.  A step is what runs between two       *)
(* awaits, so calls of one actor overlap: a request is superseded, aborted *)
(* or disposed of while its optimistic change is being applied, while the  *)
(* handler works, during the delay before a retry, and after the handler's *)
(* promise has settled but before the coordinator resumes.                 *)
(*                                                                         *)
(* The data behind a query key is its version on the server.  A mutation   *)
(* of a key declares the tag of that key, as do the results of its queries. *)
(***************************************************************************)
EXTENDS Integers, SequencesExt

CONSTANTS
  Contexts,     \* coordinators, one cache and one sourceId each
  Actors,       \* actor identities of a context
  Keys,         \* query keys, each with its invalidation tag
  Calls,        \* execute() calls of a behaviour (a bound: each is used once)
  NoCall,
  Capacity,     \* maxEntries of a cache
  MaxAttempts,  \* maxAttempts of the retry policy
  Optimistic    \* TRUE: the host installed an optimistic port

ASSUME NoCallAssumption == NoCall \notin Calls
ASSUME CapacityAssumption == Capacity \in Nat \ {0}
ASSUME AttemptsAssumption == MaxAttempts \in Nat \ {0}
ASSUME OptimisticAssumption == Optimistic \in BOOLEAN

VARIABLES
  server,      \* external: key -> version of its data
  cache,       \* context -> key -> entry or NoEntry
  recent,      \* context -> cached keys, least recently used first
  active,      \* context -> actor -> its current call, or NoCall
  subscribed,  \* context -> it is not disposed of
  heard,       \* history: context -> key -> newest version it was told of
  calls        \* call -> where it is

vars == <<server, cache, recent, active, subscribed, heard, calls>>

NoEntry == [stage |-> "none"]
NoVersion == 0

Unused == [stage |-> "unused"]

Init ==
  /\ server = [k \in Keys |-> 1]
  /\ cache = [c \in Contexts |-> [k \in Keys |-> NoEntry]]
  /\ recent = [c \in Contexts |-> << >>]
  /\ active = [c \in Contexts |-> [a \in Actors |-> NoCall]]
  /\ subscribed = [c \in Contexts |-> TRUE]
  /\ heard = [c \in Contexts |-> [k \in Keys |-> NoVersion]]
  /\ calls = [x \in Calls |-> Unused]

\* A call that execute() has just been given.  superseded and announced are
\* history: it was dropped from active, the bus took the message of its success.
NewCall(c, a, kind, k, aborted) ==
  [stage |-> "new", context |-> c, actor |-> a, kind |-> kind, key |-> k,
   aborted |-> aborted, attempts |-> 0, invoked |-> FALSE, deaf |-> FALSE,
   version |-> NoVersion, floor |-> NoVersion, lease |-> "none",
   result |-> "none", outcome |-> "none", superseded |-> FALSE, announced |-> FALSE]

InProgress == {"applying", "invoking", "waiting", "executed"}

Current(x) == active[calls[x].context][calls[x].actor] = x

-----------------------------------------------------------------------------
(* The cache.                                                              *)

\* get has an answer.
Held(c, k) == cache[c][k].stage = "held"

Used(keys, k) == Append(Remove(keys, k), k)

\* get: an expired entry is removed, one that still has its data becomes the
\* most recent one.
Get(c, k) ==
  CASE cache[c][k].stage \in {"none", "collected"} -> UNCHANGED <<cache, recent>>
    [] cache[c][k].stage = "expired" ->
         /\ cache' = [cache EXCEPT ![c][k] = NoEntry]
         /\ recent' = [recent EXCEPT ![c] = Remove(@, k)]
    [] Held(c, k) ->
         /\ recent' = [recent EXCEPT ![c] = Used(@, k)]
         /\ UNCHANGED cache

Put(c, k, entry) ==
  LET keys == Used(recent[c], k)
      full == Len(keys) > Capacity
  IN  /\ recent' = [recent EXCEPT ![c] = IF full THEN Tail(keys) ELSE keys]
      /\ cache' = [cache EXCEPT ![c] =
                     [j \in Keys |-> IF j = k THEN entry
                                     ELSE IF full /\ j = Head(keys) THEN NoEntry
                                     ELSE @[j]]]

\* Mutation of InvalidateTags: the index forgets the entries, their data stays.
InvalidateIndex(C, k) ==
  /\ recent' = [c \in Contexts |-> IF c \in C THEN Remove(recent[c], k) ELSE recent[c]]
  /\ UNCHANGED cache

\* invalidateTags in the contexts of the set C.
InvalidateTags(C, k) ==
  /\ cache' = [c \in Contexts |-> IF c \in C THEN [cache[c] EXCEPT ![k] = NoEntry] ELSE cache[c]]
  /\ recent' = [c \in Contexts |-> IF c \in C THEN Remove(recent[c], k) ELSE recent[c]]

\* External: time passes for an entry: the query client collects the data of an
\* unobserved query, and the declared retention ends.
Age(c, k) ==
  /\ cache[c][k].stage \in {"held", "collected"}
  /\ \E stage \in {"collected", "expired"} \ {cache[c][k].stage} :
       cache' = [cache EXCEPT ![c][k].stage = stage]
  /\ UNCHANGED <<server, recent, active, subscribed, heard, calls>>

-----------------------------------------------------------------------------
(* Starting a request.                                                     *)

InProgressOf(x, c) == calls[x].stage \in InProgress /\ calls[x].context = c

\* The calls after stopping those of context c in S: start() stops the request
\* it replaces, dispose all of them.
Stopped(S, c) ==
  [x \in Calls |-> IF x \in S /\ InProgressOf(x, c) /\ Current(x)
                   THEN [calls[x] EXCEPT !.aborted = TRUE, !.superseded = TRUE]
                   ELSE calls[x]]

\* invokeDataSource: an attempt, which an aborted signal stops before the handler.
Attempt(call, h) ==
  IF call.aborted
  THEN [call EXCEPT !.stage = "executed", !.attempts = @ + 1, !.result = "canceled"]
  ELSE [call EXCEPT !.stage = "invoking", !.attempts = @ + 1, !.invoked = TRUE, !.floor = h,
                    !.version = IF call.kind = "query" THEN NoVersion ELSE @]

\* What a settled call no longer needs is forgotten.
Settle(call, outcome) ==
  [call EXCEPT !.stage = "settled", !.outcome = outcome, !.result = "none",
               !.aborted = FALSE, !.attempts = 0, !.deaf = FALSE,
               !.floor = IF call.kind = "query" /\ outcome = "succeeded" THEN @ ELSE NoVersion,
               !.version = IF call.kind = "query" THEN NoVersion ELSE @,
               !.invoked = @ /\ call.kind = "mutation"]

\* An answer that needs no remote request: from the cache, or offline.
AnswerAtOnce(x, call, outcome) ==
  /\ calls' = [calls EXCEPT ![x] = Settle(call, outcome)]
  /\ UNCHANGED active

\* start(), then the first attempt of a query or the optimistic change of a mutation.
Start(x, call) ==
  /\ calls' = [Stopped({active[call.context][call.actor]}, call.context) EXCEPT ![x] =
                 IF call.kind = "query"
                 THEN Attempt(call, heard[call.context][call.key])
                 ELSE [call EXCEPT !.stage = "applying"]]
  /\ active' = [active EXCEPT ![call.context][call.actor] = x]

\* The request says how fresh an entry it accepts, and whether offline it accepts
\* any.
ExecuteQuery(x, c, a, k) ==
  /\ calls[x] = Unused
  /\ Get(c, k)
  /\ \E fresh, online, lastKnownGood, aborted \in BOOLEAN :
       LET call == NewCall(c, a, "query", k, aborted)
       IN  /\ fresh => Held(c, k)
           /\ \/ fresh /\ AnswerAtOnce(x, call, "cached")
              \/ ~fresh /\ ~online
                 /\ AnswerAtOnce(x, call, IF Held(c, k) /\ lastKnownGood THEN "cached" ELSE "failed")
              \/ ~fresh /\ online /\ Start(x, call)
  /\ UNCHANGED <<server, subscribed, heard>>

ExecuteMutation(x, c, a, k) ==
  /\ calls[x] = Unused
  /\ \E online, aborted \in BOOLEAN :
       LET call == NewCall(c, a, "mutation", k, aborted)
       IN  \/ ~online /\ AnswerAtOnce(x, call, "failed")
           \/ online /\ Start(x, call)
  /\ UNCHANGED <<server, cache, recent, subscribed, heard>>

\* cancel(), or the external signal, which is attached while the call is current.
Abort(x) ==
  /\ calls[x].stage \in InProgress
  /\ Current(x)
  /\ ~calls[x].aborted
  /\ calls' = [calls EXCEPT ![x].aborted = TRUE]
  /\ UNCHANGED <<server, cache, recent, active, subscribed, heard>>

\* The coordinator can still be used afterwards, and disposed of again.
Dispose(c) ==
  /\ calls' = Stopped(Calls, c)
  /\ active' = [active EXCEPT ![c] = [a \in Actors |-> NoCall]]
  /\ subscribed' = [subscribed EXCEPT ![c] = FALSE]
  /\ UNCHANGED <<server, cache, recent, heard>>

-----------------------------------------------------------------------------
(* The optimistic change, the handler, and retries.                        *)

RolledBack(call) ==
  [call EXCEPT !.lease = IF @ = "applied" THEN "rolledBack" ELSE @]

\* Mutation of Refusals: the optimistic change is left as it is.
RefusalsKeepingLease(call, outcome) == {Settle(call, outcome)}

\* discard, canceledResolution and commitFailure await a rollback, which may
\* itself reject and with it the call.
Refusals(call, outcome) ==
  {Settle(RolledBack(call), outcome)}
    \cup IF call.lease = "applied" THEN {Settle(RolledBack(call), "rejected")} ELSE {}

\* finish: the request stops being the current one, if it still is.
Detached(x) == [active EXCEPT ![calls[x].context][calls[x].actor] = IF @ = x THEN NoCall ELSE @]

\* The host's apply() resolves, or throws.
ApplyOptimistic(x) ==
  /\ calls[x].stage = "applying"
  /\ LET applied == [calls[x] EXCEPT !.lease = IF Optimistic THEN "applied" ELSE "none"]
     IN  \/ /\ Optimistic
            /\ calls' = [calls EXCEPT ![x] = Settle(@, "failed")]
            /\ active' = Detached(x)
         \/ /\ ~Current(x)
            /\ \E refusal \in Refusals(applied, "discarded") : calls' = [calls EXCEPT ![x] = refusal]
            /\ UNCHANGED active
         \/ /\ Current(x)
            /\ calls' = [calls EXCEPT ![x] = Attempt(applied, heard[@.context][@.key])]
            /\ UNCHANGED active
  /\ UNCHANGED <<server, cache, recent, subscribed, heard>>

\* External: the handler reads the data, or performs the mutation, which its
\* idempotency key makes happen once, possibly after its call has moved on.
ServerReads(x) ==
  /\ calls[x].stage = "invoking"
  /\ calls[x].kind = "query"
  /\ calls[x].version = NoVersion
  /\ calls' = [calls EXCEPT ![x].version = server[calls[x].key]]
  /\ UNCHANGED <<server, cache, recent, active, subscribed, heard>>

ServerApplies(x) ==
  /\ calls[x] # Unused
  /\ calls[x].kind = "mutation" /\ calls[x].invoked /\ calls[x].version = NoVersion
  /\ server' = [server EXCEPT ![calls[x].key] = @ + 1]
  /\ calls' = [calls EXCEPT ![x].version = server[calls[x].key] + 1]
  /\ UNCHANGED <<cache, recent, active, subscribed, heard>>

\* What a handler may answer: its success, a failure that may be retried (a
\* timeout included), one that may not, or canceled once its signal is aborted.
Answers(call) ==
  {"retryable", "final"} \cup (IF call.version # NoVersion THEN {"success"} ELSE {})
                         \cup (IF call.aborted THEN {"canceled"} ELSE {})

ShouldRetry(call, result) == result = "retryable" /\ call.attempts < MaxAttempts

\* The handler's promise settles.  waitForDataRetry does not see a signal that
\* was aborted before it is called, unless the delay is 0.
HandlerAnswers(x) ==
  /\ calls[x].stage = "invoking"
  /\ \E result \in Answers(calls[x]), delayed \in BOOLEAN :
       LET call == [calls[x] EXCEPT !.result = result]
       IN  calls' = [calls EXCEPT ![x] =
             IF ShouldRetry(call, result) /\ delayed
             THEN [call EXCEPT !.stage = "waiting", !.deaf = call.aborted]
             ELSE IF ShouldRetry(call, result) /\ ~call.aborted
             THEN Attempt(call, heard[call.context][call.key])
             ELSE [call EXCEPT !.stage = "executed"]]
  /\ UNCHANGED <<server, cache, recent, active, subscribed, heard>>

\* Mutation of EndWait: the abort clears the timer and resolves nothing.
EndWaitByTimer(x) ==
  /\ calls[x].stage = "waiting"
  /\ calls[x].aborted => calls[x].deaf
  /\ calls' = [calls EXCEPT ![x] = Attempt(@, heard[@.context][@.key])]
  /\ UNCHANGED <<server, cache, recent, active, subscribed, heard>>

\* The delay is over, or the abort ends it.
EndWait(x) ==
  /\ calls[x].stage = "waiting"
  /\ calls' = [calls EXCEPT ![x] =
                 IF @.aborted /\ ~@.deaf
                 THEN [@ EXCEPT !.stage = "executed"]
                 ELSE Attempt(@, heard[@.context][@.key])]
  /\ UNCHANGED <<server, cache, recent, active, subscribed, heard>>

-----------------------------------------------------------------------------
(* finalize: what becomes of a result.                                     *)

Discard(x) ==
  /\ calls[x].stage = "executed"
  /\ ~Current(x)
  /\ \E refusal \in Refusals(calls[x], "discarded") : calls' = [calls EXCEPT ![x] = refusal]
  /\ UNCHANGED <<server, cache, recent, active, subscribed, heard>>

Succeeded(call) == call.result = "success" /\ ~call.aborted

\* A canceled result, or the failure the handler answered.
Refuse(x) ==
  /\ calls[x].stage = "executed"
  /\ Current(x)
  /\ ~Succeeded(calls[x])
  /\ \E refusal \in Refusals(calls[x], "failed") :
       calls' = [calls EXCEPT ![x] = refusal]
  /\ active' = Detached(x)
  /\ UNCHANGED <<server, cache, recent, subscribed, heard>>

\* Mutation of CommitQuery: finalize commits every success, whoever is current.
CommitLateQuery(x) ==
  /\ calls[x].stage = "executed" /\ calls[x].kind = "query"
  /\ calls[x].result = "success"
  /\ LET c == calls[x].context
         k == calls[x].key
     IN  Put(c, k, [stage |-> "held", by |-> x, version |-> calls[x].version,
                    heard |-> heard[c][k]])
  /\ calls' = [calls EXCEPT ![x] = Settle(@, "succeeded")]
  /\ active' = Detached(x)
  /\ UNCHANGED <<server, subscribed, heard>>

CommitQuery(x) ==
  /\ calls[x].stage = "executed" /\ calls[x].kind = "query"
  /\ Current(x)
  /\ Succeeded(calls[x])
  /\ LET c == calls[x].context
         k == calls[x].key
     IN  Put(c, k, [stage |-> "held", by |-> x, version |-> calls[x].version,
                    heard |-> heard[c][k]])
  /\ calls' = [calls EXCEPT ![x] = Settle(@, "succeeded")]
  /\ active' = Detached(x)
  /\ UNCHANGED <<server, subscribed, heard>>

\* The request is over for its actor; commit() of the optimistic change is awaited,
\* and should it reject, commitOptimistic goes on as if it had not.
CommitMutation(x) ==
  /\ calls[x].stage = "executed" /\ calls[x].kind = "mutation"
  /\ Current(x)
  /\ Succeeded(calls[x])
  /\ calls' = [calls EXCEPT ![x].stage = "committing",
                            ![x].lease = IF @ = "applied" THEN "committed" ELSE @]
  /\ active' = Detached(x)
  /\ UNCHANGED <<server, cache, recent, subscribed, heard>>

\* Mutation of Informed: the context relies on the bus for its own cache.
InformedByBus(c, announced) == {d \in Contexts : announced /\ subscribed[d]}

\* The context itself invalidates its cache, whether it was disposed of or not; a
\* message the bus takes reaches every context that listens.
Informed(c, announced) == {c} \cup {d \in Contexts : announced /\ subscribed[d]}

\* The bus takes the message or throws, or there is none: a success all the same.
PublishInvalidation(x) ==
  /\ calls[x].stage = "committing"
  /\ \E announced \in BOOLEAN :
       LET c == calls[x].context
           k == calls[x].key
           told == Informed(c, announced)
       IN  /\ InvalidateTags(told, k)
           /\ heard' = [d \in Contexts |->
                          IF d \in told /\ heard[d][k] < calls[x].version
                          THEN [heard[d] EXCEPT ![k] = calls[x].version] ELSE heard[d]]
           /\ calls' = [calls EXCEPT ![x] = [Settle(@, "succeeded") EXCEPT !.announced = announced]]
  /\ UNCHANGED <<server, active, subscribed>>

-----------------------------------------------------------------------------
Next ==
  \/ \E c \in Contexts : Dispose(c)
  \/ \E c \in Contexts, k \in Keys : Age(c, k)
  \/ \E x \in Calls, c \in Contexts, a \in Actors, k \in Keys :
       ExecuteQuery(x, c, a, k) \/ ExecuteMutation(x, c, a, k)
  \/ \E x \in Calls :
       \/ Abort(x) \/ ApplyOptimistic(x)
       \/ ServerReads(x) \/ ServerApplies(x) \/ HandlerAnswers(x) \/ EndWait(x)
       \/ Discard(x) \/ Refuse(x) \/ CommitQuery(x) \/ CommitMutation(x)
       \/ PublishInvalidation(x)

Spec == Init /\ [][Next]_vars

Proceed(x) ==
  \/ ApplyOptimistic(x) \/ HandlerAnswers(x) \/ EndWait(x)
  \/ Discard(x) \/ Refuse(x) \/ CommitQuery(x) \/ CommitMutation(x) \/ PublishInvalidation(x)

(* Ports, handlers and timers settle; nothing else is assumed.             *)
FairSpec == Spec /\ \A x \in Calls : WF_vars(Proceed(x))

-----------------------------------------------------------------------------
Kinds == {"query", "mutation"}
Leases == {"none", "applied", "committed", "rolledBack"}
Results == {"none", "retryable", "final", "canceled", "success"}
Outcomes == {"none", "cached", "failed", "discarded", "rejected", "succeeded"}
Versions == 0..(1 + Cardinality(Calls))

CallRecord ==
  [stage : InProgress \cup {"committing", "settled"}, context : Contexts, actor : Actors,
   kind : Kinds, key : Keys, aborted : BOOLEAN, attempts : 0..MaxAttempts,
   invoked : BOOLEAN, deaf : BOOLEAN, version : Versions, floor : Versions,
   lease : Leases, result : Results, outcome : Outcomes,
   superseded : BOOLEAN, announced : BOOLEAN]

TypeOK ==
  /\ server \in [Keys -> Versions \ {NoVersion}]
  /\ \A c \in Contexts :
       /\ Len(recent[c]) <= Capacity
       /\ \A k \in Keys : cache[c][k] # NoEntry <=> k \in Range(recent[c])
  /\ active \in [Contexts -> [Actors -> Calls \cup {NoCall}]]
  /\ heard \in [Contexts -> [Keys -> Versions]]
  /\ \A x \in Calls : calls[x] = Unused \/ calls[x] \in CallRecord

(* One current request per actor: a request in progress is the current one *)
(* of its actor, or its signal is aborted; and what is current is in       *)
(* progress, so a finished request never blocks or aborts a later one.     *)
(* docs/data-sources.md: "gives each logical source one current request".  *)
CurrentOrAborted ==
  /\ \A x \in Calls :
       calls[x].stage \in InProgress => Current(x) \/ calls[x].aborted
  /\ \A c \in Contexts, a \in Actors :
       active[c][a] # NoCall =>
         LET call == calls[active[c][a]]
         IN  call.stage \in InProgress /\ call.context = c /\ call.actor = a

(* A request that was superseded, or whose coordinator was disposed of,    *)
(* leaves no trace, wherever it was awaiting: it does not enter the cache  *)
(* and its optimistic change is not committed ("a non-cooperative late     *)
(* completion is returned as discarded and cannot enter the cache or       *)
(* commit an optimistic lease").                                           *)
SupersededLeavesNoTrace ==
  \A x \in Calls :
    calls[x] # Unused /\ calls[x].superseded =>
      /\ calls[x].outcome # "succeeded"
      /\ calls[x].lease # "committed"
      /\ \A k \in Keys : cache[calls[x].context][k] # NoEntry =>
           cache[calls[x].context][k].by # x

(* An optimistic change is committed exactly with a success and rolled     *)
(* back with everything else, and no settled call leaves one pending       *)
(* ("every non-success result, cancellation, or supersession rolls the     *)
(* lease back").                                                           *)
LeaseMatchesOutcome ==
  \A x \in Calls :
    calls[x].stage = "settled" =>
      /\ calls[x].lease # "applied"
      /\ calls[x].lease = "committed" => calls[x].outcome = "succeeded"
      /\ calls[x].lease = "rolledBack" => calls[x].outcome # "succeeded"

(* The handler of a request is not called again after its signal was       *)
(* aborted, whether the abort came during the optimistic change, an        *)
(* earlier attempt or the delay before a retry.                            *)
AbortStopsHandler ==
  [][\A x \in Calls :
       calls[x] # Unused /\ calls[x].aborted /\ calls'[x].stage = "invoking" =>
         calls[x].stage = "invoking" /\ calls'[x].attempts = calls[x].attempts]_vars

(* What a cached entry may be worth: everything its context was told of    *)
(* since it was stored has removed it, and it is older than an earlier     *)
(* invalidation only if its own request was already with the handler when  *)
(* that invalidation arrived.  Nothing in the code excludes the latter.    *)
CacheFollowsInvalidations ==
  \A c \in Contexts, k \in Keys :
    cache[c][k] # NoEntry =>
      /\ cache[c][k].heard = heard[c][k]
      /\ cache[c][k].version >= heard[c][k] \/ calls[cache[c][k].by].floor < heard[c][k]

(* A mutation that is reported as a success has invalidated its tag in its *)
(* own context, also when its coordinator was disposed of meanwhile or the *)
(* bus failed, and in every context that listened unless the bus failed    *)
(* ("broadcasts successful mutation tags across tabs or workers").         *)
SuccessInvalidates ==
  \A x \in Calls :
    calls[x].stage = "settled" /\ calls[x].kind = "mutation" /\ calls[x].outcome = "succeeded" =>
      \A c \in Contexts :
        c = calls[x].context \/ (calls[x].announced /\ subscribed[c]) =>
          heard[c][calls[x].key] >= calls[x].version

(* Every call is answered, through aborts, supersession and retries.       *)
EveryCallSettles ==
  \A x \in Calls : calls[x] # Unused ~> calls[x].stage = "settled"
=============================================================================
