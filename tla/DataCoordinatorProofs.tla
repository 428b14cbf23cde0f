------------------------ MODULE DataCoordinatorProofs ------------------------
(***************************************************************************)
(* Proofs about DataCoordinator, for any contexts, actors, keys, calls,    *)
(* cache capacity and retry policy.                                        *)
(*                                                                         *)
(* Three facts strengthen the properties.  A call is well formed by itself *)
(* (WellFormed): which leases and outcomes its stage allows.  A superseded *)
(* call is never current again (SupersededIsPast).  And every cache entry  *)
(* was put there by a call that has settled with success (CachedBySuccess).*)
(*                                                                         *)
(* Two more say what the versions mean (VInv): no context was told of more *)
(* than the server has, and a call carries data at least as new as what    *)
(* its context had been told of when its handler was called (Honest).      *)
(***************************************************************************)
EXTENDS DataCoordinator, TLAPS

CallShape ==
  [stage : InProgress \cup {"new", "committing", "settled"}, context : Contexts, actor : Actors,
   kind : Kinds, key : Keys, aborted : BOOLEAN, attempts : Nat,
   invoked : BOOLEAN, deaf : BOOLEAN, version : Nat, floor : Nat,
   lease : Leases, result : Results, outcome : Outcomes,
   superseded : BOOLEAN, announced : BOOLEAN]

(* Which leases and outcomes the stage of a call allows.                   *)
WellFormed(call) ==
  /\ call.stage # "new"
  /\ call.stage \in InProgress => call.lease \in {"none", "applied"} /\ call.outcome = "none"
  /\ call.stage = "applying" => call.lease = "none" /\ call.kind = "mutation"
  /\ call.kind = "query" => call.lease = "none"
  /\ call.stage = "committing" => call.lease \in {"none", "committed"} /\ ~call.superseded
  /\ call.stage = "settled" =>
       /\ call.lease # "applied"
       /\ call.lease = "committed" => call.outcome = "succeeded"
       /\ call.lease = "rolledBack" => call.outcome # "succeeded"
  /\ call.superseded => call.lease # "committed" /\ call.outcome # "succeeded"

Types ==
  /\ server \in [Keys -> Nat]
  /\ heard \in [Contexts -> [Keys -> Nat]]
  /\ subscribed \in [Contexts -> BOOLEAN]
  /\ active \in [Contexts -> [Actors -> Calls \cup {NoCall}]]
  /\ DOMAIN calls = Calls
  /\ \A x \in Calls : calls[x] = Unused \/ (calls[x] \in CallShape /\ WellFormed(calls[x]))
  /\ DOMAIN cache = Contexts
  /\ \A c \in Contexts : DOMAIN cache[c] = Keys

SupersededIsPast == \A x \in Calls : calls[x] # Unused /\ calls[x].superseded => ~Current(x)

\* A call whose success is final.
SettledSuccess(call) ==
  call.stage = "settled" /\ call.outcome = "succeeded" /\ ~call.superseded

Entry == [stage : {"held", "collected", "expired"}, by : Calls, version : Nat, heard : Nat]

CachedBySuccess ==
  \A c \in Contexts, k \in Keys :
    \/ cache[c][k] = NoEntry
    \/ cache[c][k] \in Entry /\ SettledSuccess(calls[cache[c][k].by])

IInv == Types /\ CurrentOrAborted /\ SupersededIsPast /\ CachedBySuccess

-----------------------------------------------------------------------------
(* The operators on calls.                                                 *)

(* b is a later state of the request a of the same actor: what identifies  *)
(* it, and whether it was superseded, stay.                                *)
SameRequest(a, b) ==
  /\ b.context = a.context /\ b.actor = a.actor /\ b.kind = a.kind
  /\ b.superseded = a.superseded

(* A call that is not unused is a well-formed record.                      *)
LEMMA UsedCall ==
  ASSUME Types, NEW x \in Calls, calls[x].stage # "unused"
  PROVE  calls[x] \in CallShape /\ WellFormed(calls[x])
BY DEF Types, Unused

(* invokeDataSource (invocation.ts) moves a call to its handler or past it.*)
LEMMA Attempted ==
  ASSUME NEW call \in CallShape, NEW h \in Nat
  PROVE  /\ Attempt(call, h) \in CallShape
         /\ Attempt(call, h).stage \in {"invoking", "executed"}
         /\ SameRequest(call, Attempt(call, h))
         /\ Attempt(call, h).aborted = call.aborted
         /\ Attempt(call, h).lease = call.lease
         /\ Attempt(call, h).outcome = call.outcome
         /\ call.aborted => Attempt(call, h).stage = "executed"
<1>1. call.aborted \in BOOLEAN /\ call.attempts + 1 \in Nat /\ NoVersion \in Nat
  BY DEF CallShape, NoVersion
<1>2. CASE call.aborted
  <2>1. Attempt(call, h) = [call EXCEPT !.stage = "executed", !.attempts = call.attempts + 1,
                                        !.result = "canceled"]
    BY <1>2 DEF Attempt
  <2>2. Attempt(call, h) \in CallShape
    BY <2>1, <1>1 DEF CallShape, InProgress, Results
  <2> QED
    BY <2>1, <2>2 DEF CallShape, SameRequest
<1>3. CASE ~call.aborted
  <2>1. PICK v \in Nat :
          Attempt(call, h) = [call EXCEPT !.stage = "invoking", !.attempts = call.attempts + 1,
                                          !.invoked = TRUE, !.floor = h, !.version = v]
    BY <1>1, <1>3 DEF Attempt, CallShape
  <2>2. Attempt(call, h) \in CallShape
    BY ZenonT(60), <2>1, <1>1 DEF CallShape, InProgress
  <2> QED
    BY <2>1, <2>2, <1>3 DEF CallShape, SameRequest
<1> QED
  BY <1>1, <1>2, <1>3

(* resolution (coordinator-support.ts) settles a call.                     *)
LEMMA Settled ==
  ASSUME NEW call \in CallShape, NEW outcome \in Outcomes
  PROVE  /\ Settle(call, outcome) \in CallShape
         /\ Settle(call, outcome).stage = "settled"
         /\ SameRequest(call, Settle(call, outcome))
         /\ Settle(call, outcome).lease = call.lease
         /\ Settle(call, outcome).outcome = outcome
BY ZenonT(60) DEF Settle, CallShape, SameRequest, Results, NoVersion

(* discard, canceledResolution and commitFailure settle a call in progress *)
(* without a success and without its optimistic change.                    *)
LEMMA Refused ==
  ASSUME NEW call \in CallShape, call.lease \in {"none", "applied"},
         call.kind = "query" => call.lease = "none",
         NEW outcome \in {"discarded", "failed"},
         NEW refusal \in Refusals(call, outcome)
  PROVE  /\ refusal \in CallShape
         /\ refusal.stage = "settled"
         /\ SameRequest(call, refusal)
         /\ WellFormed(refusal)
<1>1. RolledBack(call) \in CallShape /\ SameRequest(call, RolledBack(call))
      /\ RolledBack(call).lease \in {"none", "rolledBack"}
      /\ (call.kind = "query" => RolledBack(call).lease = "none")
  BY DEF RolledBack, CallShape, SameRequest, Leases
<1>2. PICK final \in {"discarded", "failed", "rejected"} :
        refusal = Settle(RolledBack(call), final)
  BY DEF Refusals
<1>3. final \in Outcomes /\ final # "succeeded"
  BY DEF Outcomes
<1>4. refusal \in CallShape /\ refusal.stage = "settled"
      /\ SameRequest(RolledBack(call), refusal)
      /\ refusal.lease = RolledBack(call).lease /\ refusal.outcome = final
  BY <1>1, <1>2, <1>3, Settled
<1>5. SameRequest(call, refusal)
  BY <1>1, <1>4 DEF SameRequest
<1>6. WellFormed(refusal)
  BY <1>1, <1>3, <1>4, <1>5 DEF WellFormed, InProgress, SameRequest
<1> QED
  BY <1>4, <1>5, <1>6

-----------------------------------------------------------------------------
(* A step of one call x: it becomes r, and either nothing changes in       *)
(* active, or x, no longer in progress, leaves it.                         *)

CallStep(x, r) ==
  /\ calls' = [calls EXCEPT ![x] = r]
  /\ r \in CallShape /\ WellFormed(r) /\ SameRequest(calls[x], r)
  /\ r.stage \in InProgress =>
       calls[x].stage \in InProgress /\ (calls[x].aborted => r.aborted)
  /\ r.stage \notin InProgress => active' = Detached(x) \/ (active' = active /\ ~Current(x))
  /\ r.stage \in InProgress => active' = active
  /\ SettledSuccess(calls[x]) => SettledSuccess(r)
  /\ server' \in [Keys -> Nat]
  /\ heard' \in [Contexts -> [Keys -> Nat]]
  /\ UNCHANGED subscribed

(* Every entry after the step was there before, aged perhaps, or was put   *)
(* there by a settled success.                                             *)
CacheStep ==
  /\ DOMAIN cache' = Contexts
  /\ \A c \in Contexts :
       /\ DOMAIN cache'[c] = Keys
       /\ \A k \in Keys :
            \/ cache'[c][k] = NoEntry
            \/ /\ cache'[c][k] \in Entry
               /\ \/ cache[c][k] # NoEntry /\ cache'[c][k].by = cache[c][k].by
                  \/ SettledSuccess(calls'[cache'[c][k].by])

LEMMA SameCache == ASSUME IInv, UNCHANGED cache PROVE CacheStep
BY DEF IInv, Types, CacheStep, CachedBySuccess

(* finish (coordinator.ts) clears at most the entry of its own request.    *)
LEMMA DetachedEntries ==
  ASSUME IInv, NEW x \in Calls, calls[x].stage # "unused"
  PROVE  /\ Detached(x) \in [Contexts -> [Actors -> Calls \cup {NoCall}]]
         /\ \A c \in Contexts, a \in Actors :
              /\ active[c][a] # x => Detached(x)[c][a] = active[c][a]
              /\ active[c][a] = x => Detached(x)[c][a] = NoCall
<1>1. calls[x].context \in Contexts /\ calls[x].actor \in Actors
  BY UsedCall DEF IInv, CallShape
<1>2. active \in [Contexts -> [Actors -> Calls \cup {NoCall}]]
  BY DEF IInv, Types
<1>3. \A c \in Contexts, a \in Actors :
        active[c][a] = x => c = calls[x].context /\ a = calls[x].actor
  BY NoCallAssumption DEF IInv, CurrentOrAborted
<1> QED
  BY <1>1, <1>2, <1>3 DEF Detached

(* A step of one call that the coordinator may take keeps the invariant.   *)
LEMMA CallStepInvariant ==
  ASSUME IInv, NEW x \in Calls, calls[x].stage # "unused", NEW r, CallStep(x, r), CacheStep
  PROVE  IInv'
<1>1. DOMAIN calls = Calls /\ calls'[x] = r /\ DOMAIN calls' = Calls
      /\ \A y \in Calls \ {x} : calls'[y] = calls[y]
  BY DEF IInv, Types, CallStep
<1>2. r \in CallShape /\ WellFormed(r) /\ SameRequest(calls[x], r)
  BY DEF CallStep
<1>3. active' \in [Contexts -> [Actors -> Calls \cup {NoCall}]]
      /\ \A c \in Contexts, a \in Actors :
           /\ active[c][a] # x => active'[c][a] = active[c][a]
           /\ active'[c][a] = x => active[c][a] = x /\ r.stage \in InProgress
           /\ active'[c][a] \in {active[c][a], NoCall}
  <2>1. CASE r.stage \in InProgress
    BY <2>1 DEF CallStep, IInv, Types
  <2>2. CASE r.stage \notin InProgress /\ active' = Detached(x)
    BY <2>2, DetachedEntries, NoCallAssumption
  <2>3. CASE r.stage \notin InProgress /\ active' = active /\ ~Current(x)
    BY <2>3, NoCallAssumption DEF IInv, Types, CurrentOrAborted, Current
  <2> QED
    BY <2>1, <2>2, <2>3 DEF CallStep
<1>4. \A y \in Calls : calls[y].stage # "unused" =>
        calls[y].context \in Contexts /\ calls[y].actor \in Actors
  BY UsedCall DEF IInv, CallShape
<1>5. Types'
  BY <1>1, <1>2, <1>3 DEF IInv, Types, CallStep, CacheStep
<1>6. CurrentOrAborted'
  <2>1. ASSUME NEW y \in Calls, calls'[y].stage \in InProgress
        PROVE  Current(y)' \/ calls'[y].aborted
    <3>1. CASE y = x
      <4>1. active' = active /\ calls[x].stage \in InProgress
            /\ (calls[x].aborted => r.aborted)
        BY <2>1, <3>1, <1>1 DEF CallStep
      <4> QED
        BY <4>1, <3>1, <1>1, <1>2 DEF IInv, CurrentOrAborted, Current, SameRequest
    <3>2. CASE y # x
      <4>1. calls'[y] = calls[y] /\ (Current(y) \/ calls[y].aborted)
        BY <2>1, <3>2, <1>1 DEF IInv, CurrentOrAborted
      <4>2. calls[y].context \in Contexts /\ calls[y].actor \in Actors
        BY <2>1, <4>1, <1>4 DEF InProgress
      <4> QED
        BY <3>2, <4>1, <4>2, <1>3 DEF Current
    <3> QED
      BY <3>1, <3>2
  <2>2. ASSUME NEW c \in Contexts, NEW a \in Actors, active'[c][a] # NoCall
        PROVE  LET call == calls'[active'[c][a]]
               IN  call.stage \in InProgress /\ call.context = c /\ call.actor = a
    <3>1. CASE active'[c][a] = x
      BY <3>1, <1>1, <1>2, <1>3, NoCallAssumption
         DEF IInv, CurrentOrAborted, SameRequest
    <3>2. CASE active'[c][a] # x
      <4>1. active'[c][a] = active[c][a]
        BY <2>2, <1>3
      <4> QED
        BY <3>2, <4>1, <2>2, <1>1, <1>3 DEF IInv, Types, CurrentOrAborted
    <3> QED
      BY <3>1, <3>2
  <2> QED
    BY <2>1, <2>2 DEF CurrentOrAborted
<1>7. SupersededIsPast'
  <2> SUFFICES ASSUME NEW y \in Calls, calls'[y] # Unused, calls'[y].superseded, Current(y)'
               PROVE  FALSE
    BY DEF SupersededIsPast
  <2>1. calls[y].superseded /\ calls[y].stage # "unused"
        /\ calls'[y].context = calls[y].context /\ calls'[y].actor = calls[y].actor
    BY <1>1, <1>2 DEF IInv, Types, SameRequest, CallShape, InProgress
  <2>2. ~Current(y)
    BY <2>1 DEF IInv, SupersededIsPast, Unused
  <2> QED
    BY <2>1, <2>2, <1>3, <1>4, NoCallAssumption DEF Current
<1>8. CachedBySuccess'
  <2> SUFFICES ASSUME NEW c \in Contexts, NEW k \in Keys, cache'[c][k] # NoEntry
               PROVE  cache'[c][k] \in Entry /\ SettledSuccess(calls'[cache'[c][k].by])
    BY DEF CachedBySuccess
  <2>1. cache'[c][k] \in Entry /\ cache'[c][k].by \in Calls
    BY DEF CacheStep, Entry
  <2>2. CASE cache[c][k] # NoEntry /\ cache'[c][k].by = cache[c][k].by
    BY <2>1, <2>2, <1>1 DEF IInv, CachedBySuccess, CallStep
  <2> QED
    BY <2>1, <2>2 DEF CacheStep
<1> QED
  BY <1>5, <1>6, <1>7, <1>8 DEF IInv

-----------------------------------------------------------------------------
(* The actions of one call.                                                *)

(* What a well-formed call in progress has not done yet.                   *)
LEMMA InProgressCall ==
  ASSUME IInv, NEW x \in Calls, calls[x].stage \in InProgress
  PROVE  /\ calls[x].stage # "unused"
         /\ calls[x] \in CallShape /\ WellFormed(calls[x])
         /\ calls[x].lease \in {"none", "applied"} /\ calls[x].outcome = "none"
         /\ ~SettledSuccess(calls[x])
<1>1. calls[x].stage # "unused" /\ calls[x].stage # "settled"
  BY DEF InProgress
<1>2. calls[x] \in CallShape /\ WellFormed(calls[x])
  BY <1>1, UsedCall DEF IInv
<1> QED
  BY <1>1, <1>2 DEF WellFormed, SettledSuccess

(* A call moves from one stage in progress to another.                     *)
LEMMA ProgressInvariant ==
  ASSUME IInv, NEW x \in Calls, calls[x].stage \in InProgress,
         NEW r \in CallShape, calls' = [calls EXCEPT ![x] = r],
         r.stage \in InProgress \ {"applying"}, SameRequest(calls[x], r),
         calls[x].aborted => r.aborted,
         r.lease \in {"none", "applied"}, r.kind = "query" => r.lease = "none",
         r.outcome = "none",
         UNCHANGED <<server, cache, recent, active, subscribed, heard>>
  PROVE  IInv'
<1>1. WellFormed(r)
  BY DEF WellFormed, InProgress
<1>2. CallStep(x, r)
  BY <1>1, InProgressCall DEF CallStep, IInv, Types
<1> QED
  BY <1>2, SameCache, CallStepInvariant, InProgressCall

(* A call in progress settles without a success.                           *)
LEMMA RefusalInvariant ==
  ASSUME IInv, NEW x \in Calls, calls[x].stage \in InProgress,
         NEW r \in CallShape, calls' = [calls EXCEPT ![x] = r],
         r.stage = "settled", SameRequest(calls[x], r), WellFormed(r),
         active' = Detached(x) \/ (active' = active /\ ~Current(x)),
         UNCHANGED <<server, cache, recent, subscribed, heard>>
  PROVE  IInv'
<1>1. CallStep(x, r)
  BY InProgressCall DEF CallStep, IInv, Types, InProgress
<1> QED
  BY <1>1, SameCache, CallStepInvariant, InProgressCall

LEMMA AbortInvariant == ASSUME IInv, NEW x \in Calls, Abort(x) PROVE IInv'
<1> DEFINE r == [calls[x] EXCEPT !.aborted = TRUE]
<1>1. calls[x].stage \in InProgress /\ calls' = [calls EXCEPT ![x] = r]
      /\ UNCHANGED <<server, cache, recent, active, subscribed, heard>>
  BY DEF Abort
<1>2. r \in CallShape /\ SameRequest(calls[x], r) /\ r.aborted /\ r.stage = calls[x].stage
      /\ r.lease = calls[x].lease /\ r.outcome = calls[x].outcome /\ r.kind = calls[x].kind
  BY ZenonT(60), <1>1, InProgressCall DEF CallShape, SameRequest
<1>3. WellFormed(r)
  BY <1>1, <1>2, InProgressCall DEF WellFormed, SameRequest
<1>4. CallStep(x, r)
  BY <1>1, <1>2, <1>3, InProgressCall DEF CallStep, IInv, Types
<1> QED
  BY <1>1, <1>4, SameCache, CallStepInvariant, InProgressCall

LEMMA ApplyOptimisticInvariant == ASSUME IInv, NEW x \in Calls, ApplyOptimistic(x) PROVE IInv'
<1> DEFINE applied == [calls[x] EXCEPT !.lease = IF Optimistic THEN "applied" ELSE "none"]
<1>1. calls[x].stage = "applying" /\ calls[x].stage \in InProgress
      /\ UNCHANGED <<server, cache, recent, subscribed, heard>>
  BY DEF ApplyOptimistic, InProgress
<1>2. calls[x] \in CallShape /\ WellFormed(calls[x]) /\ calls[x].lease = "none"
      /\ calls[x].outcome = "none" /\ calls[x].kind = "mutation"
  BY <1>1, InProgressCall DEF WellFormed
<1>3. applied \in CallShape /\ SameRequest(calls[x], applied)
      /\ applied.lease \in {"none", "applied"} /\ applied.outcome = "none"
      /\ applied.stage = "applying" /\ applied.aborted = calls[x].aborted
      /\ applied.kind = "mutation"
  <2>1. CASE Optimistic
    <3>1. applied = [calls[x] EXCEPT !.lease = "applied"]
      BY <2>1
    <3> QED
      BY <3>1, <1>1, <1>2 DEF CallShape, Leases, SameRequest
  <2>2. CASE ~Optimistic
    <3>1. applied = [calls[x] EXCEPT !.lease = "none"]
      BY <2>2
    <3> QED
      BY <3>1, <1>1, <1>2 DEF CallShape, Leases, SameRequest
  <2> QED
    BY <2>1, <2>2
<1> HIDE DEF applied
<1>4. CASE calls' = [calls EXCEPT ![x] = Settle(calls[x], "failed")] /\ active' = Detached(x)
  <2> DEFINE r == Settle(calls[x], "failed")
  <2>1. r \in CallShape /\ r.stage = "settled" /\ SameRequest(calls[x], r)
        /\ r.lease = "none" /\ r.outcome = "failed"
    BY <1>2, Settled DEF Outcomes
  <2>2. WellFormed(r)
    BY <2>1 DEF WellFormed, InProgress
  <2> QED
    BY <1>1, <1>4, <2>1, <2>2, RefusalInvariant
<1>5. ASSUME ~Current(x), NEW refusal \in Refusals(applied, "discarded"),
             calls' = [calls EXCEPT ![x] = refusal], UNCHANGED active
      PROVE  IInv'
  <2>1. refusal \in CallShape /\ refusal.stage = "settled" /\ SameRequest(applied, refusal)
        /\ WellFormed(refusal)
    BY <1>3, Refused
  <2>2. SameRequest(calls[x], refusal)
    BY <1>3, <2>1 DEF SameRequest
  <2> QED
    BY <1>1, <1>5, <2>1, <2>2, RefusalInvariant
<1>6. ASSUME NEW h \in Nat, calls' = [calls EXCEPT ![x] = Attempt(applied, h)], UNCHANGED active
      PROVE  IInv'
  <2> DEFINE r == Attempt(applied, h)
  <2>1. r \in CallShape /\ r.stage \in {"invoking", "executed"} /\ SameRequest(applied, r)
        /\ r.aborted = applied.aborted /\ r.lease = applied.lease /\ r.outcome = applied.outcome
    BY <1>3, Attempted
  <2>2. SameRequest(calls[x], r) /\ r.kind = "mutation"
    BY <1>3, <2>1 DEF SameRequest
  <2> HIDE DEF r
  <2>3. r.stage \in InProgress \ {"applying"}
    BY <2>1 DEF InProgress
  <2> QED
    BY <1>1, <1>3, <1>6, <2>1, <2>2, <2>3, ProgressInvariant DEF r
<1>7. heard[calls[x].context][calls[x].key] \in Nat
  BY <1>2 DEF IInv, Types, CallShape
<1>8. \/ calls' = [calls EXCEPT ![x] = Settle(calls[x], "failed")] /\ active' = Detached(x)
      \/ ~Current(x) /\ UNCHANGED active
         /\ \E refusal \in Refusals(applied, "discarded") :
               calls' = [calls EXCEPT ![x] = refusal]
      \/ calls' = [calls EXCEPT ![x] =
                     Attempt(applied, heard[calls[x].context][calls[x].key])]
         /\ UNCHANGED active
  BY DEF ApplyOptimistic, applied
<1> QED
  BY <1>4, <1>5, <1>6, <1>7, <1>8

LEMMA ServerReadsInvariant == ASSUME IInv, NEW x \in Calls, ServerReads(x) PROVE IInv'
<1> DEFINE r == [calls[x] EXCEPT !.version = server[calls[x].key]]
<1>1. calls[x].stage = "invoking" /\ calls[x].stage \in InProgress
      /\ calls' = [calls EXCEPT ![x] = r]
      /\ UNCHANGED <<server, cache, recent, active, subscribed, heard>>
  BY DEF ServerReads, InProgress
<1>2. calls[x] \in CallShape /\ WellFormed(calls[x]) /\ server[calls[x].key] \in Nat
  BY <1>1, InProgressCall DEF IInv, Types, CallShape
<1>3. r \in CallShape /\ SameRequest(calls[x], r) /\ r.stage = "invoking"
      /\ r.lease = calls[x].lease /\ r.outcome = calls[x].outcome
      /\ r.aborted = calls[x].aborted /\ r.kind = calls[x].kind
  BY <1>1, <1>2 DEF CallShape, SameRequest
<1>4. r.lease \in {"none", "applied"} /\ (r.kind = "query" => r.lease = "none")
      /\ r.outcome = "none" /\ r.stage \in InProgress \ {"applying"}
  BY <1>1, <1>2, <1>3, InProgressCall DEF WellFormed
<1> HIDE DEF r
<1> QED
  BY <1>1, <1>3, <1>4, ProgressInvariant DEF r

LEMMA ServerAppliesInvariant == ASSUME IInv, NEW x \in Calls, ServerApplies(x) PROVE IInv'
<1> DEFINE v == server[calls[x].key] + 1
           r == [calls[x] EXCEPT !.version = v]
<1>1. calls[x] # Unused /\ calls' = [calls EXCEPT ![x] = r]
      /\ server' = [server EXCEPT ![calls[x].key] = server[calls[x].key] + 1]
      /\ UNCHANGED <<cache, recent, active, subscribed, heard>>
  BY DEF ServerApplies
<1>2. calls[x] \in CallShape /\ WellFormed(calls[x]) /\ server \in [Keys -> Nat]
      /\ heard \in [Contexts -> [Keys -> Nat]]
  BY <1>1 DEF IInv, Types
<1>3. server[calls[x].key] \in Nat /\ v \in Nat /\ server' \in [Keys -> Nat]
      /\ calls[x].stage # "unused"
  BY <1>1, <1>2 DEF CallShape, InProgress
<1>4. r \in CallShape /\ SameRequest(calls[x], r) /\ r.stage = calls[x].stage
      /\ r.lease = calls[x].lease /\ r.outcome = calls[x].outcome
      /\ r.aborted = calls[x].aborted
  BY <1>2, <1>3 DEF CallShape, SameRequest
<1>5. WellFormed(r)
  BY <1>2, <1>4 DEF WellFormed, SameRequest
<1>6. calls[x].stage \notin InProgress => ~Current(x)
  BY <1>2, NoCallAssumption DEF IInv, CurrentOrAborted, Current, CallShape
<1>7. CallStep(x, r)
  BY <1>1, <1>2, <1>3, <1>4, <1>5, <1>6 DEF CallStep, SettledSuccess, SameRequest
<1> QED
  BY <1>1, <1>3, <1>7, SameCache, CallStepInvariant

LEMMA HandlerAnswersInvariant == ASSUME IInv, NEW x \in Calls, HandlerAnswers(x) PROVE IInv'
<1>1. calls[x].stage = "invoking" /\ calls[x].stage \in InProgress
      /\ UNCHANGED <<server, cache, recent, active, subscribed, heard>>
  BY DEF HandlerAnswers, InProgress
<1>2. calls[x] \in CallShape /\ WellFormed(calls[x])
      /\ calls[x].lease \in {"none", "applied"} /\ calls[x].outcome = "none"
  BY <1>1, InProgressCall
<1>3. PICK result \in Answers(calls[x]), delayed \in BOOLEAN :
        LET call == [calls[x] EXCEPT !.result = result]
        IN  calls' = [calls EXCEPT ![x] =
              IF ShouldRetry(call, result) /\ delayed
              THEN [call EXCEPT !.stage = "waiting", !.deaf = call.aborted]
              ELSE IF ShouldRetry(call, result) /\ ~call.aborted
              THEN Attempt(call, heard[call.context][call.key])
              ELSE [call EXCEPT !.stage = "executed"]]
  BY DEF HandlerAnswers
<1> DEFINE call == [calls[x] EXCEPT !.result = result]
           waiting == [call EXCEPT !.stage = "waiting", !.deaf = call.aborted]
           again == Attempt(call, heard[call.context][call.key])
           executed == [call EXCEPT !.stage = "executed"]
<1>4. result \in Results
  BY DEF Answers, Results
<1>5. call \in CallShape /\ SameRequest(calls[x], call) /\ call.aborted = calls[x].aborted
      /\ call.lease = calls[x].lease /\ call.outcome = calls[x].outcome
  BY <1>2, <1>4 DEF CallShape, SameRequest
<1> HIDE DEF call
<1>6. \A r \in {waiting, again, executed} :
        /\ r \in CallShape /\ SameRequest(call, r) /\ r.aborted = call.aborted
        /\ r.stage \in {"waiting", "invoking", "executed"}
        /\ r.lease = call.lease /\ r.outcome = call.outcome
  <2>1. waiting \in CallShape /\ SameRequest(call, waiting) /\ waiting.aborted = call.aborted
        /\ waiting.stage = "waiting"
        /\ waiting.lease = call.lease /\ waiting.outcome = call.outcome
    BY <1>5 DEF CallShape, SameRequest, InProgress
  <2>2. executed \in CallShape /\ SameRequest(call, executed) /\ executed.aborted = call.aborted
        /\ executed.stage = "executed"
        /\ executed.lease = call.lease /\ executed.outcome = call.outcome
    BY <1>5 DEF CallShape, SameRequest, InProgress
  <2>3. heard[call.context][call.key] \in Nat
    BY <1>5 DEF IInv, Types, CallShape
  <2>4. again \in CallShape /\ SameRequest(call, again) /\ again.aborted = call.aborted
        /\ again.stage \in {"invoking", "executed"}
        /\ again.lease = call.lease /\ again.outcome = call.outcome
    BY <1>5, <2>3, Attempted
  <2> HIDE DEF waiting, again, executed
  <2> QED
    BY <2>1, <2>2, <2>4
<1>7. \E r \in {waiting, again, executed} : calls' = [calls EXCEPT ![x] = r]
  <2>1. CASE ShouldRetry(call, result) /\ delayed
    BY <1>3, <2>1 DEF call
  <2>2. CASE ~(ShouldRetry(call, result) /\ delayed) /\ ShouldRetry(call, result) /\ ~call.aborted
    BY <1>3, <2>2 DEF call
  <2>3. CASE ~(ShouldRetry(call, result) /\ delayed)
             /\ ~(ShouldRetry(call, result) /\ ~call.aborted)
    BY <1>3, <2>3 DEF call
  <2> QED
    BY <2>1, <2>2, <2>3
<1> HIDE DEF waiting, again, executed
<1>8. PICK r \in {waiting, again, executed} : calls' = [calls EXCEPT ![x] = r]
  BY <1>7
<1>9. r \in CallShape /\ SameRequest(calls[x], r) /\ r.aborted = calls[x].aborted
      /\ r.stage \in InProgress \ {"applying"}
      /\ r.lease = calls[x].lease /\ r.outcome = "none" /\ r.kind = calls[x].kind
  BY <1>2, <1>5, <1>6, <1>8 DEF SameRequest, InProgress
<1> QED
  BY <1>1, <1>2, <1>8, <1>9, ProgressInvariant DEF WellFormed

LEMMA EndWaitInvariant == ASSUME IInv, NEW x \in Calls, EndWait(x) PROVE IInv'
<1> DEFINE executed == [calls[x] EXCEPT !.stage = "executed"]
           again == Attempt(calls[x], heard[calls[x].context][calls[x].key])
<1>1. calls[x].stage = "waiting" /\ calls[x].stage \in InProgress
      /\ UNCHANGED <<server, cache, recent, active, subscribed, heard>>
  BY DEF EndWait, InProgress
<1>2. calls[x] \in CallShape /\ WellFormed(calls[x])
      /\ calls[x].lease \in {"none", "applied"} /\ calls[x].outcome = "none"
  BY <1>1, InProgressCall
<1>3. PICK r \in {executed, again} : calls' = [calls EXCEPT ![x] = r]
  <2>1. CASE calls[x].aborted /\ ~calls[x].deaf
    BY <2>1 DEF EndWait
  <2>2. CASE ~(calls[x].aborted /\ ~calls[x].deaf)
    BY <2>2 DEF EndWait
  <2> QED
    BY <2>1, <2>2
<1>4. executed \in CallShape /\ SameRequest(calls[x], executed)
      /\ executed.aborted = calls[x].aborted /\ executed.stage = "executed"
      /\ executed.lease = calls[x].lease /\ executed.outcome = calls[x].outcome
  BY <1>2 DEF CallShape, SameRequest, InProgress
<1>5. heard[calls[x].context][calls[x].key] \in Nat
  BY <1>2 DEF IInv, Types, CallShape
<1>6. again \in CallShape /\ SameRequest(calls[x], again) /\ again.aborted = calls[x].aborted
      /\ again.stage \in {"invoking", "executed"}
      /\ again.lease = calls[x].lease /\ again.outcome = calls[x].outcome
  BY <1>2, <1>5, Attempted
<1> HIDE DEF executed, again
<1>7. r \in CallShape /\ SameRequest(calls[x], r) /\ r.aborted = calls[x].aborted
      /\ r.stage \in InProgress \ {"applying"}
      /\ r.lease = calls[x].lease /\ r.outcome = "none" /\ r.kind = calls[x].kind
  BY <1>2, <1>3, <1>4, <1>6 DEF SameRequest, InProgress
<1> QED
  BY <1>1, <1>2, <1>3, <1>7, ProgressInvariant DEF WellFormed

LEMMA DiscardInvariant == ASSUME IInv, NEW x \in Calls, Discard(x) PROVE IInv'
<1>1. PICK refusal \in Refusals(calls[x], "discarded") : calls' = [calls EXCEPT ![x] = refusal]
  BY DEF Discard
<1>2. calls[x].stage \in InProgress /\ active' = active /\ ~Current(x)
      /\ UNCHANGED <<server, cache, recent, subscribed, heard>>
  BY DEF Discard, InProgress
<1>3. refusal \in CallShape /\ refusal.stage = "settled" /\ SameRequest(calls[x], refusal)
      /\ WellFormed(refusal)
  BY <1>2, InProgressCall, Refused DEF WellFormed
<1> QED
  BY <1>1, <1>2, <1>3, RefusalInvariant

LEMMA RefuseInvariant == ASSUME IInv, NEW x \in Calls, Refuse(x) PROVE IInv'
<1>1. PICK refusal \in Refusals(calls[x], "failed") : calls' = [calls EXCEPT ![x] = refusal]
  BY DEF Refuse
<1>2. calls[x].stage \in InProgress /\ active' = Detached(x)
      /\ UNCHANGED <<server, cache, recent, subscribed, heard>>
  BY DEF Refuse, InProgress
<1>3. refusal \in CallShape /\ refusal.stage = "settled" /\ SameRequest(calls[x], refusal)
      /\ WellFormed(refusal)
  BY <1>2, InProgressCall, Refused DEF WellFormed
<1> QED
  BY <1>1, <1>2, <1>3, RefusalInvariant

(* set (cache.ts) stores the entry and evicts at most another one.         *)
LEMMA PutStep ==
  ASSUME IInv, NEW c \in Contexts, NEW k \in Keys, NEW entry \in Entry, Put(c, k, entry),
         SettledSuccess(calls'[entry.by])
  PROVE  CacheStep
<1>1. DOMAIN cache = Contexts /\ \A d \in Contexts : DOMAIN cache[d] = Keys
  BY DEF IInv, Types
<1>2. DOMAIN cache' = Contexts /\ \A d \in Contexts : DOMAIN cache'[d] = Keys
  BY <1>1 DEF Put
<1>3. \A d \in Contexts, j \in Keys : cache'[d][j] \in {entry, NoEntry, cache[d][j]}
  BY <1>1 DEF Put
<1> QED
  BY <1>2, <1>3 DEF CacheStep, IInv, CachedBySuccess

LEMMA CommitQueryInvariant == ASSUME IInv, NEW x \in Calls, CommitQuery(x) PROVE IInv'
<1> DEFINE r == Settle(calls[x], "succeeded")
           c == calls[x].context
           k == calls[x].key
           entry == [stage |-> "held", by |-> x, version |-> calls[x].version,
                     heard |-> heard[c][k]]
<1>1. calls[x].stage \in InProgress /\ calls[x].kind = "query" /\ Current(x)
      /\ calls' = [calls EXCEPT ![x] = r] /\ active' = Detached(x) /\ Put(c, k, entry)
      /\ UNCHANGED <<server, subscribed, heard>>
  BY DEF CommitQuery, InProgress
<1>2. calls[x] \in CallShape /\ WellFormed(calls[x]) /\ c \in Contexts /\ k \in Keys
      /\ calls[x].stage # "unused" /\ ~SettledSuccess(calls[x])
  BY <1>1, InProgressCall DEF CallShape
<1>3. calls[x].superseded = FALSE
  BY <1>1, <1>2 DEF IInv, SupersededIsPast, CallShape, Unused
<1>4. r \in CallShape /\ r.stage = "settled" /\ SameRequest(calls[x], r)
      /\ r.lease = "none" /\ r.outcome = "succeeded" /\ r.superseded = FALSE
  BY <1>1, <1>2, <1>3, Settled DEF Outcomes, WellFormed, SameRequest
<1>5. WellFormed(r) /\ SettledSuccess(r)
  BY <1>4 DEF WellFormed, InProgress, SettledSuccess
<1>6. CallStep(x, r)
  BY <1>1, <1>2, <1>4, <1>5 DEF CallStep, IInv, Types, InProgress
<1>7. entry \in Entry /\ entry.by = x
  BY <1>2 DEF Entry, CallShape, IInv, Types
<1>8. calls'[x] = r
  BY <1>1 DEF IInv, Types
<1> HIDE DEF r, entry, c, k
<1>9. CacheStep
  BY <1>1, <1>2, <1>5, <1>7, <1>8, PutStep
<1> QED
  BY <1>2, <1>6, <1>9, CallStepInvariant

LEMMA CommitMutationInvariant == ASSUME IInv, NEW x \in Calls, CommitMutation(x) PROVE IInv'
<1> DEFINE r == [calls[x] EXCEPT !.stage = "committing",
                                 !.lease = IF calls[x].lease = "applied" THEN "committed"
                                           ELSE calls[x].lease]
<1>1. calls[x].stage \in InProgress /\ calls[x].kind = "mutation" /\ Current(x)
      /\ calls' = [calls EXCEPT ![x] = r] /\ active' = Detached(x)
      /\ UNCHANGED <<server, cache, recent, subscribed, heard>>
  BY DEF CommitMutation, InProgress
<1>2. calls[x] \in CallShape /\ calls[x].lease \in {"none", "applied"}
      /\ calls[x].outcome = "none"
      /\ calls[x].stage # "unused" /\ ~SettledSuccess(calls[x])
  BY <1>1, InProgressCall
<1>3. calls[x].superseded = FALSE
  BY <1>1, <1>2 DEF IInv, SupersededIsPast, CallShape, Unused
<1>4. r \in CallShape /\ r.stage = "committing" /\ SameRequest(calls[x], r)
      /\ r.lease \in {"none", "committed"} /\ r.kind = "mutation" /\ r.superseded = FALSE
  BY <1>1, <1>2, <1>3 DEF CallShape, SameRequest, Leases
<1> HIDE DEF r
<1>5. WellFormed(r)
  BY <1>4 DEF WellFormed, InProgress
<1>6. CallStep(x, r)
  BY <1>1, <1>2, <1>4, <1>5 DEF CallStep, IInv, Types, InProgress
<1> QED
  BY <1>1, <1>2, <1>6, SameCache, CallStepInvariant

(* The step that publishes, once the bus has taken the message or not.     *)
Published(x, announced) ==
  LET c == calls[x].context
      k == calls[x].key
      told == Informed(c, announced)
  IN  /\ calls[x].stage = "committing"
      /\ InvalidateTags(told, k)
      /\ heard' = [d \in Contexts |->
                     IF d \in told /\ heard[d][k] < calls[x].version
                     THEN [heard[d] EXCEPT ![k] = calls[x].version] ELSE heard[d]]
      /\ calls' = [calls EXCEPT ![x] = [Settle(calls[x], "succeeded") EXCEPT !.announced = announced]]
      /\ UNCHANGED <<server, active, subscribed>>

LEMMA PublishInvalidationInvariant ==
  ASSUME IInv, NEW x \in Calls, PublishInvalidation(x) PROVE IInv'
<1>0. PICK announced \in BOOLEAN : Published(x, announced)
  BY DEF PublishInvalidation, Published
<1> DEFINE s == Settle(calls[x], "succeeded")
           r == [s EXCEPT !.announced = announced]
           c == calls[x].context
           k == calls[x].key
           told == Informed(c, announced)
<1>1. calls[x].stage = "committing" /\ calls[x].stage # "unused"
      /\ calls' = [calls EXCEPT ![x] = r] /\ active' = active
      /\ InvalidateTags(told, k)
      /\ heard' = [d \in Contexts |->
                     IF d \in told /\ heard[d][k] < calls[x].version
                     THEN [heard[d] EXCEPT ![k] = calls[x].version] ELSE heard[d]]
      /\ UNCHANGED <<server, subscribed>>
  BY <1>0 DEF Published
<1> HIDE DEF told
<1>2. calls[x] \in CallShape /\ WellFormed(calls[x]) /\ calls[x].version \in Nat
  BY <1>1, UsedCall DEF IInv, CallShape
<1>3. calls[x].superseded = FALSE /\ calls[x].lease \in {"none", "committed"}
  BY <1>1, <1>2 DEF WellFormed, CallShape
<1>4. r \in CallShape /\ r.stage = "settled" /\ SameRequest(calls[x], r)
      /\ r.lease = calls[x].lease /\ r.outcome = "succeeded" /\ r.superseded = FALSE
      /\ (r.kind = "query" => r.lease = "none")
  <2>1. s \in CallShape /\ s.stage = "settled" /\ SameRequest(calls[x], s)
        /\ s.lease = calls[x].lease /\ s.outcome = "succeeded" /\ s.superseded = FALSE
        /\ (s.kind = "query" => s.lease = "none")
    BY <1>2, <1>3, Settled DEF Outcomes, SameRequest, WellFormed
  <2> HIDE DEF s
  <2> QED
    BY <2>1 DEF CallShape, SameRequest
<1>5. WellFormed(r) /\ SettledSuccess(r)
  <2> HIDE DEF r
  <2> QED
    BY <1>3, <1>4 DEF WellFormed, InProgress, SettledSuccess
<1>6. heard' \in [Contexts -> [Keys -> Nat]]
  BY <1>1, <1>2 DEF IInv, Types
<1>7. ~Current(x)
  BY <1>1, <1>2, NoCallAssumption DEF IInv, CurrentOrAborted, Current, CallShape, InProgress
<1>8. CallStep(x, r)
  BY <1>1, <1>4, <1>5, <1>6, <1>7 DEF CallStep, IInv, Types, InProgress
<1>9. CacheStep
  <2>1. DOMAIN cache = Contexts /\ \A d \in Contexts : DOMAIN cache[d] = Keys
    BY DEF IInv, Types
  <2>2. DOMAIN cache' = Contexts /\ \A d \in Contexts : DOMAIN cache'[d] = Keys
    BY <1>1, <2>1 DEF InvalidateTags
  <2>3. \A d \in Contexts, j \in Keys : cache'[d][j] \in {NoEntry, cache[d][j]}
    BY <1>1, <2>1 DEF InvalidateTags
  <2> QED
    BY <2>2, <2>3 DEF CacheStep, IInv, CachedBySuccess
<1> QED
  BY <1>1, <1>8, <1>9, CallStepInvariant

-----------------------------------------------------------------------------
(* The actions that start a request, dispose of a coordinator, or age an   *)
(* entry.                                                                  *)

(* What a step may do to a call other than a new one: mark a request in    *)
(* progress as aborted and superseded.                                     *)
Marked(a, b) ==
  /\ b \in CallShape /\ WellFormed(b)
  /\ b.stage = a.stage /\ b.context = a.context /\ b.actor = a.actor
  /\ a.aborted => b.aborted
  /\ a.stage \in InProgress

(* stopActive marks a request as aborted and superseded.                   *)
LEMMA Marks ==
  ASSUME NEW call \in CallShape, WellFormed(call), call.stage \in InProgress
  PROVE  /\ Marked(call, [call EXCEPT !.aborted = TRUE, !.superseded = TRUE])
         /\ [call EXCEPT !.aborted = TRUE, !.superseded = TRUE].aborted
<1>1. call.lease \in {"none", "applied"} /\ call.outcome = "none"
  BY DEF WellFormed
<1> DEFINE stopped == [call EXCEPT !.aborted = TRUE, !.superseded = TRUE]
<1>2. stopped \in CallShape
  BY DEF CallShape
<1>3. stopped.stage = call.stage /\ stopped.lease = call.lease /\ stopped.outcome = call.outcome
      /\ stopped.context = call.context /\ stopped.actor = call.actor
      /\ stopped.kind = call.kind /\ stopped.aborted
  BY DEF CallShape
<1> HIDE DEF stopped
<1>4. WellFormed(stopped)
  BY <1>1, <1>3 DEF WellFormed, InProgress
<1>5. Marked(call, stopped)
  BY <1>2, <1>3, <1>4 DEF Marked
<1> QED
  BY <1>3, <1>5 DEF stopped

CurrentAfter(y) == active'[calls'[y].context][calls'[y].actor] = y

(* A step that adds the calls N to those in being, and may mark others.    *)
NewCallsStep(N) ==
  /\ DOMAIN calls' = Calls
  /\ \A y \in N : /\ calls[y] = Unused
                  /\ calls'[y] \in CallShape /\ WellFormed(calls'[y])
                  /\ calls'[y].superseded = FALSE
                  /\ calls'[y].stage \in InProgress => CurrentAfter(y)
  /\ \A y \in Calls \ N : calls'[y] = calls[y] \/ Marked(calls[y], calls'[y])
  /\ \A y \in Calls \ N : calls[y].stage \in InProgress /\ Current(y) =>
                            CurrentAfter(y) \/ calls'[y].aborted
  /\ \A y \in Calls \ N : calls[y].stage \in InProgress /\ CurrentAfter(y) =>
                            calls'[y].superseded = calls[y].superseded
  /\ active' \in [Contexts -> [Actors -> Calls \cup {NoCall}]]
  /\ \A c \in Contexts, a \in Actors :
       \/ active'[c][a] \in {active[c][a], NoCall}
       \/ /\ active'[c][a] \in N /\ calls'[active'[c][a]].stage \in InProgress
          /\ calls'[active'[c][a]].context = c /\ calls'[active'[c][a]].actor = a
  /\ subscribed' \in [Contexts -> BOOLEAN]
  /\ UNCHANGED <<server, heard>>

LEMMA NewCallsInvariant ==
  ASSUME IInv, NEW N \in SUBSET Calls, NewCallsStep(N), CacheStep
  PROVE  IInv'
<1> USE DEF NewCallsStep
<1>1. Types'
  BY DEF IInv, Types, CacheStep, Marked
<1>2. \A y \in Calls : calls[y].stage # "unused" =>
        calls[y].context \in Contexts /\ calls[y].actor \in Actors
  BY UsedCall DEF IInv, CallShape
<1>3. \A c \in Contexts, a \in Actors : active[c][a] # NoCall =>
        active[c][a] \in Calls \ N /\ calls[active[c][a]].stage \in InProgress
        /\ calls[active[c][a]].context = c /\ calls[active[c][a]].actor = a
  BY DEF IInv, Types, CurrentOrAborted, Unused, InProgress
<1>4. CurrentOrAborted'
  <2>1. ASSUME NEW y \in Calls, calls'[y].stage \in InProgress
        PROVE  Current(y)' \/ calls'[y].aborted
    <3>1. CASE y \in N
      BY <2>1, <3>1 DEF Current, CurrentAfter
    <3>2. CASE y \notin N
      <4>1. calls[y].stage \in InProgress /\ (calls[y].aborted => calls'[y].aborted)
        BY <2>1, <3>2 DEF Marked
      <4> QED
        BY <3>2, <4>1 DEF IInv, CurrentOrAborted, Current, CurrentAfter
    <3> QED
      BY <3>1, <3>2
  <2>2. ASSUME NEW c \in Contexts, NEW a \in Actors, active'[c][a] # NoCall
        PROVE  LET call == calls'[active'[c][a]]
               IN  call.stage \in InProgress /\ call.context = c /\ call.actor = a
    BY <2>2, <1>3 DEF Marked
  <2> QED
    BY <2>1, <2>2 DEF CurrentOrAborted
<1>5. SupersededIsPast'
  <2> SUFFICES ASSUME NEW y \in Calls, calls'[y] # Unused, calls'[y].superseded, Current(y)'
               PROVE  FALSE
    BY DEF SupersededIsPast
  <2>1. y \in Calls \ N
    BY DEF CurrentAfter, Current
  <2>2. calls'[y].context = calls[y].context /\ calls'[y].actor = calls[y].actor
        /\ calls[y].stage # "unused"
    <3>1. CASE calls'[y] = calls[y]
      <4>1. calls[y] \in CallShape
        BY <3>1 DEF IInv, Types
      <4> QED
        BY <3>1, <4>1 DEF CallShape, InProgress
    <3>2. CASE Marked(calls[y], calls'[y])
      BY <3>2 DEF Marked, InProgress
    <3> QED
      BY <2>1, <3>1, <3>2
  <2>3. active[calls[y].context][calls[y].actor] = y /\ calls[y].stage \in InProgress
    BY <2>1, <2>2, <1>2, <1>3, NoCallAssumption DEF Current
  <2> QED
    BY <2>1, <2>2, <2>3 DEF IInv, SupersededIsPast, Current, CurrentAfter, Unused
<1>6. CachedBySuccess'
  <2> SUFFICES ASSUME NEW c \in Contexts, NEW k \in Keys, cache'[c][k] # NoEntry
               PROVE  cache'[c][k] \in Entry /\ SettledSuccess(calls'[cache'[c][k].by])
    BY DEF CachedBySuccess
  <2>1. cache'[c][k] \in Entry /\ cache'[c][k].by \in Calls
    BY DEF CacheStep, Entry
  <2>2. CASE cache[c][k] # NoEntry /\ cache'[c][k].by = cache[c][k].by
    <3>1. SettledSuccess(calls[cache'[c][k].by])
      BY <2>2 DEF IInv, CachedBySuccess
    <3>2. calls[cache'[c][k].by].stage \notin InProgress
          /\ calls[cache'[c][k].by].stage # "unused"
      BY <3>1 DEF SettledSuccess, InProgress
    <3> QED
      BY SMTT(40), <2>1, <3>1, <3>2 DEF Marked, Unused
  <2> QED
    BY <2>1, <2>2 DEF CacheStep
<1> QED
  BY <1>1, <1>4, <1>5, <1>6 DEF IInv

(* get (cache.ts) removes an expired entry, or changes no entry.           *)
LEMMA GetStep ==
  ASSUME IInv, NEW c \in Contexts, NEW k \in Keys, Get(c, k)
  PROVE  CacheStep
<1>1. DOMAIN cache = Contexts /\ \A d \in Contexts : DOMAIN cache[d] = Keys
  BY DEF IInv, Types
<1>2. cache[c][k].stage \in {"none", "collected", "expired", "held"}
  BY DEF IInv, CachedBySuccess, NoEntry, Entry
<1>3. CASE UNCHANGED cache
  BY <1>3, SameCache
<1>4. CASE cache' = [cache EXCEPT ![c][k] = NoEntry]
  <2>1. DOMAIN cache' = Contexts /\ \A d \in Contexts : DOMAIN cache'[d] = Keys
    BY <1>1, <1>4
  <2>2. \A d \in Contexts, j \in Keys : cache'[d][j] \in {NoEntry, cache[d][j]}
    BY <1>1, <1>4
  <2> QED
    BY <2>1, <2>2 DEF CacheStep, IInv, CachedBySuccess
<1> QED
  BY <1>2, <1>3, <1>4 DEF Get, Held

LEMMA AgeInvariant ==
  ASSUME IInv, NEW c \in Contexts, NEW k \in Keys, Age(c, k) PROVE IInv'
<1>1. PICK stage \in {"collected", "expired"} : cache' = [cache EXCEPT ![c][k].stage = stage]
  BY DEF Age
<1>2. UNCHANGED <<server, recent, active, subscribed, heard, calls>>
      /\ cache[c][k].stage \in {"held", "collected"}
  BY DEF Age
<1>3. DOMAIN cache = Contexts /\ \A d \in Contexts : DOMAIN cache[d] = Keys
  BY DEF IInv, Types
<1>4. cache[c][k] \in Entry
  BY <1>2 DEF IInv, CachedBySuccess, NoEntry
<1> DEFINE aged == [cache[c][k] EXCEPT !.stage = stage]
<1>5. aged \in Entry /\ aged.by = cache[c][k].by
  BY <1>4 DEF Entry
<1>6. DOMAIN cache' = Contexts /\ \A d \in Contexts : DOMAIN cache'[d] = Keys
  BY <1>1, <1>3
<1>7. \A d \in Contexts, j \in Keys :
        cache'[d][j] = IF d = c /\ j = k THEN aged ELSE cache[d][j]
  BY <1>1, <1>3
<1> HIDE DEF aged
<1>8. CachedBySuccess'
  <2> SUFFICES ASSUME NEW d \in Contexts, NEW j \in Keys, cache'[d][j] # NoEntry
               PROVE  cache'[d][j] \in Entry /\ SettledSuccess(calls'[cache'[d][j].by])
    BY DEF CachedBySuccess
  <2>1. cache[d][j] # NoEntry /\ cache'[d][j] \in Entry /\ cache'[d][j].by = cache[d][j].by
    <3>1. CASE d = c /\ j = k
      BY <1>2, <1>4, <1>5, <1>7, <3>1 DEF NoEntry
    <3>2. CASE ~(d = c /\ j = k)
      BY <1>7, <3>2 DEF IInv, CachedBySuccess
    <3> QED
      BY <3>1, <3>2
  <2> QED
    BY <1>2, <2>1 DEF IInv, CachedBySuccess
<1> QED
  BY <1>2, <1>6, <1>8 DEF IInv, Types, CurrentOrAborted, SupersededIsPast, Current

(* A request answered from the cache, or offline, is settled at once.      *)
LEMMA AnswerAtOnceInvariant ==
  ASSUME IInv, NEW x \in Calls, calls[x] = Unused,
         NEW call \in CallShape, call.lease = "none", call.superseded = FALSE,
         NEW outcome \in {"cached", "failed"},
         AnswerAtOnce(x, call, outcome), CacheStep,
         UNCHANGED <<server, subscribed, heard>>
  PROVE  IInv'
<1> DEFINE r == Settle(call, outcome)
           a == call.actor
           c == call.context
<1>1. r \in CallShape /\ r.stage = "settled" /\ r.lease = "none" /\ r.outcome = outcome
      /\ r.superseded = FALSE
  BY Settled DEF Outcomes, SameRequest
<1>2. WellFormed(r)
  BY <1>1 DEF WellFormed, InProgress
<1>3. DOMAIN calls' = Calls /\ calls'[x] = r
      /\ \A y \in Calls \ {x} : calls'[y] = calls[y]
  BY DEF AnswerAtOnce, IInv, Types
<1> HIDE DEF r, a, c
<1>5. \A y \in Calls \ {x} :
        \/ calls'[y] = calls[y]
        \/ Marked(calls[y], calls'[y]) /\ calls'[y].superseded = calls[y].superseded
  BY <1>3
<1>6. active' = active
  BY DEF AnswerAtOnce
<1>7. r.stage \notin InProgress
  BY <1>1 DEF InProgress
<1>8. \A y \in Calls \ {x} : CurrentAfter(y) <=> Current(y)
  BY <1>5, <1>6 DEF Marked, CurrentAfter, Current
<1>9. active' \in [Contexts -> [Actors -> Calls \cup {NoCall}]]
      /\ subscribed' \in [Contexts -> BOOLEAN]
  BY <1>6 DEF IInv, Types
<1>10. NewCallsStep({x})
  <2>1. \A y \in {x} :
          /\ calls[y] = Unused
          /\ calls'[y] \in CallShape /\ WellFormed(calls'[y])
          /\ calls'[y].superseded = FALSE
          /\ calls'[y].stage \in InProgress => CurrentAfter(y)
    BY <1>1, <1>2, <1>3, <1>7
  <2>2. ASSUME NEW y \in Calls \ {x}
        PROVE  /\ calls'[y] = calls[y] \/ Marked(calls[y], calls'[y])
               /\ calls'[y].superseded = calls[y].superseded
               /\ CurrentAfter(y) <=> Current(y)
    BY <1>5, <1>8
  <2> QED
    BY <1>3, <1>6, <1>9, <2>1, <2>2 DEF NewCallsStep
<1> QED
  BY <1>10, NewCallsInvariant

(* The state in which start (coordinator.ts) leaves a request: at its      *)
(* handler, or at its optimistic change.                                   *)
LEMMA StartedCall ==
  ASSUME NEW call \in CallShape, call.lease = "none", call.outcome = "none",
         call.superseded = FALSE, NEW h \in Nat, NEW r,
         r = IF call.kind = "query" THEN Attempt(call, h)
             ELSE [call EXCEPT !.stage = "applying"]
  PROVE  /\ r \in CallShape /\ WellFormed(r) /\ r.superseded = FALSE
         /\ r.stage \in InProgress
         /\ r.context = call.context /\ r.actor = call.actor
<1>1. CASE call.kind = "query"
  <2>1. /\ r \in CallShape /\ r.stage \in {"invoking", "executed"}
        /\ SameRequest(call, r) /\ r.lease = "none" /\ r.outcome = "none"
    BY <1>1, Attempted
  <2>2. r.superseded = FALSE /\ r.context = call.context /\ r.actor = call.actor
    BY <2>1 DEF SameRequest
  <2> QED
    BY <2>1, <2>2 DEF WellFormed, InProgress
<1>2. CASE call.kind # "query"
  <2>1. r = [call EXCEPT !.stage = "applying"] /\ call.kind = "mutation"
    BY <1>2 DEF CallShape, Kinds
  <2>2. r \in CallShape
    BY <2>1 DEF CallShape, InProgress
  <2>3. /\ r.stage = "applying" /\ r.lease = "none" /\ r.outcome = "none"
        /\ r.superseded = FALSE /\ r.kind = "mutation"
        /\ r.context = call.context /\ r.actor = call.actor
    BY <2>1 DEF CallShape
  <2> QED
    BY <2>2, <2>3 DEF WellFormed, InProgress
<1> QED
  BY <1>1, <1>2

(* A request that is started takes the place of its actor's current one,   *)
(* which stopActive aborts.                                                *)
LEMMA StartInvariant ==
  ASSUME IInv, NEW x \in Calls, calls[x] = Unused,
         NEW call \in CallShape, call.lease = "none", call.outcome = "none",
         call.superseded = FALSE,
         Start(x, call), CacheStep, UNCHANGED <<server, subscribed, heard>>
  PROVE  IInv'
<1> DEFINE a == call.actor
           c == call.context
           r == IF call.kind = "query" THEN Attempt(call, heard[c][call.key])
                ELSE [call EXCEPT !.stage = "applying"]
           old == active[c][a]
<1>1. c \in Contexts /\ a \in Actors /\ call.key \in Keys
  BY DEF CallShape
<1>2. heard[c][call.key] \in Nat
  BY <1>1 DEF IInv, Types
<1>3. /\ r \in CallShape /\ WellFormed(r) /\ r.superseded = FALSE
      /\ r.stage \in InProgress /\ r.context = c /\ r.actor = a
  BY <1>2, StartedCall
<1>4. calls' = [Stopped({old}, c) EXCEPT ![x] = r] /\ active' = [active EXCEPT ![c][a] = x]
  BY DEF Start
<1> HIDE DEF r, a, c
<1>5. DOMAIN calls' = Calls /\ calls'[x] = r
      /\ \A y \in Calls \ {x} : calls'[y] = Stopped({old}, c)[y]
  BY <1>4 DEF Stopped
<1>6. active \in [Contexts -> [Actors -> Calls \cup {NoCall}]]
  BY DEF IInv, Types
<1>7. active' \in [Contexts -> [Actors -> Calls \cup {NoCall}]]
      /\ active'[c][a] = x
      /\ \A d \in Contexts, b \in Actors :
           ~(d = c /\ b = a) => active'[d][b] = active[d][b]
  BY <1>1, <1>4, <1>6
<1>8. old # NoCall => /\ calls[old].stage \in InProgress
                      /\ calls[old].context = c /\ calls[old].actor = a
  BY <1>1 DEF IInv, CurrentOrAborted
<1>9. ASSUME NEW y \in Calls \ {x}, y = old
      PROVE  Marked(calls[y], calls'[y]) /\ calls'[y].aborted /\ ~CurrentAfter(y)
  <2>1. y # NoCall
    BY NoCallAssumption
  <2>2. calls[y].stage \in InProgress /\ calls[y].context = c /\ calls[y].actor = a
    BY <1>8, <1>9, <2>1
  <2>3. InProgressOf(y, c) /\ Current(y)
    BY <1>9, <2>2 DEF InProgressOf, Current
  <2>4. calls'[y] = [calls[y] EXCEPT !.aborted = TRUE, !.superseded = TRUE]
    BY <1>5, <1>9, <2>3 DEF Stopped
  <2> HIDE DEF old
  <2>5. Marked(calls[y], calls'[y]) /\ calls'[y].aborted
    <3>1. calls[y] \in CallShape /\ WellFormed(calls[y])
      BY <2>2, InProgressCall
    <3> QED
      BY <2>2, <2>4, <3>1, Marks
  <2>6. calls'[y].context = c /\ calls'[y].actor = a
    BY <2>2, <2>5 DEF Marked
  <2> QED
    BY <1>7, <2>5, <2>6 DEF CurrentAfter
<1>10. \A y \in Calls \ {x} : y # old => calls'[y] = calls[y]
  BY <1>5 DEF Stopped
<1>11. ASSUME NEW y \in Calls \ {x}, y # old, calls[y].stage \in InProgress, Current(y)
       PROVE  CurrentAfter(y)
  <2>1. calls[y].context \in Contexts /\ calls[y].actor \in Actors
    BY <1>11, InProgressCall DEF CallShape
  <2>2. ~(calls[y].context = c /\ calls[y].actor = a)
    BY <1>11 DEF Current
  <2> QED
    BY <1>7, <1>10, <1>11, <2>1, <2>2 DEF Current, CurrentAfter
<1> HIDE DEF old
<1>12. NewCallsStep({x})
  <2>1. \A y \in {x} :
          /\ calls[y] = Unused
          /\ calls'[y] \in CallShape /\ WellFormed(calls'[y])
          /\ calls'[y].superseded = FALSE
          /\ calls'[y].stage \in InProgress => CurrentAfter(y)
    BY <1>3, <1>5, <1>7 DEF CurrentAfter
  <2>2. \A y \in Calls \ {x} : calls'[y] = calls[y] \/ Marked(calls[y], calls'[y])
    BY <1>9, <1>10
  <2>3. \A y \in Calls \ {x} : calls[y].stage \in InProgress /\ Current(y) =>
                                 CurrentAfter(y) \/ calls'[y].aborted
    BY <1>9, <1>11
  <2>4. \A y \in Calls \ {x} : calls[y].stage \in InProgress /\ CurrentAfter(y) =>
                                 calls'[y].superseded = calls[y].superseded
    BY <1>9, <1>10
  <2>5. \A d \in Contexts, b \in Actors :
          \/ active'[d][b] \in {active[d][b], NoCall}
          \/ /\ active'[d][b] \in {x} /\ calls'[active'[d][b]].stage \in InProgress
             /\ calls'[active'[d][b]].context = d /\ calls'[active'[d][b]].actor = b
    BY <1>3, <1>5, <1>7
  <2>6. subscribed' \in [Contexts -> BOOLEAN]
    BY DEF IInv, Types
  <2> QED
    BY <1>5, <1>7, <2>1, <2>2, <2>3, <2>4, <2>5, <2>6 DEF NewCallsStep
<1> QED
  BY <1>12, NewCallsInvariant

(* execute of a query (coordinator.ts).                                    *)
LEMMA ExecuteQueryInvariant ==
  ASSUME IInv, NEW x \in Calls, NEW c \in Contexts, NEW a \in Actors, NEW k \in Keys,
         ExecuteQuery(x, c, a, k)
  PROVE  IInv'
<1>1. calls[x] = Unused /\ UNCHANGED <<server, subscribed, heard>> /\ Get(c, k)
  BY DEF ExecuteQuery
<1>2. PICK aborted \in BOOLEAN :
        LET call == NewCall(c, a, "query", k, aborted)
        IN  \/ \E outcome \in {"cached", "failed"} : AnswerAtOnce(x, call, outcome)
            \/ Start(x, call)
  <2>1. PICK fresh \in BOOLEAN, online \in BOOLEAN, lastKnownGood \in BOOLEAN,
             aborted \in BOOLEAN :
          LET call == NewCall(c, a, "query", k, aborted)
          IN  \/ AnswerAtOnce(x, call, "cached")
              \/ AnswerAtOnce(x, call, IF Held(c, k) /\ lastKnownGood THEN "cached" ELSE "failed")
              \/ Start(x, call)
    BY DEF ExecuteQuery
  <2>2. (IF Held(c, k) /\ lastKnownGood THEN "cached" ELSE "failed") \in {"cached", "failed"}
    OBVIOUS
  <2> QED
    BY <2>1, <2>2, Zenon
<1> DEFINE call == NewCall(c, a, "query", k, aborted)
<1>3. call \in CallShape /\ call.lease = "none" /\ call.outcome = "none"
      /\ call.superseded = FALSE
  BY DEF NewCall, CallShape, Kinds, Leases, Results, Outcomes, NoVersion
<1> HIDE DEF call
<1>4. CacheStep
  BY <1>1, GetStep
<1>5. CASE \E outcome \in {"cached", "failed"} : AnswerAtOnce(x, call, outcome)
  BY <1>1, <1>3, <1>4, <1>5, AnswerAtOnceInvariant
<1>6. CASE Start(x, call)
  BY <1>1, <1>3, <1>4, <1>6, StartInvariant
<1> QED
  BY <1>2, <1>5, <1>6 DEF call

(* execute of a mutation (coordinator.ts).                                 *)
LEMMA ExecuteMutationInvariant ==
  ASSUME IInv, NEW x \in Calls, NEW c \in Contexts, NEW a \in Actors, NEW k \in Keys,
         ExecuteMutation(x, c, a, k)
  PROVE  IInv'
<1>1. calls[x] = Unused /\ UNCHANGED <<server, cache, subscribed, heard>>
  BY DEF ExecuteMutation
<1>2. PICK aborted \in BOOLEAN :
        LET call == NewCall(c, a, "mutation", k, aborted)
        IN  AnswerAtOnce(x, call, "failed") \/ Start(x, call)
  BY Zenon DEF ExecuteMutation
<1> DEFINE call == NewCall(c, a, "mutation", k, aborted)
<1>3. call \in CallShape /\ call.lease = "none" /\ call.outcome = "none"
      /\ call.superseded = FALSE
  BY DEF NewCall, CallShape, Kinds, Leases, Results, Outcomes, NoVersion
<1> HIDE DEF call
<1>4. CacheStep
  BY <1>1, SameCache
<1>5. CASE AnswerAtOnce(x, call, "failed")
  BY <1>1, <1>3, <1>4, <1>5, AnswerAtOnceInvariant
<1>6. CASE Start(x, call)
  BY <1>1, <1>3, <1>4, <1>6, StartInvariant
<1> QED
  BY <1>2, <1>5, <1>6 DEF call

(* dispose (coordinator.ts) aborts the requests of its context, and leaves *)
(* none of them current.                                                   *)
LEMMA DisposeInvariant ==
  ASSUME IInv, NEW c \in Contexts, Dispose(c) PROVE IInv'
<1>1. calls' = Stopped(Calls, c) /\ active' = [active EXCEPT ![c] = [a \in Actors |-> NoCall]]
      /\ subscribed' = [subscribed EXCEPT ![c] = FALSE]
      /\ UNCHANGED <<server, cache, recent, heard>>
  BY DEF Dispose
<1>2. active \in [Contexts -> [Actors -> Calls \cup {NoCall}]]
      /\ subscribed' \in [Contexts -> BOOLEAN] /\ DOMAIN calls' = Calls
  BY <1>1 DEF IInv, Types, Stopped
<1>3. /\ active' \in [Contexts -> [Actors -> Calls \cup {NoCall}]]
      /\ \A a \in Actors : active'[c][a] = NoCall
      /\ \A d \in Contexts \ {c}, a \in Actors : active'[d][a] = active[d][a]
  BY <1>1, <1>2
<1>4. ASSUME NEW y \in Calls, InProgressOf(y, c), Current(y)
      PROVE  Marked(calls[y], calls'[y]) /\ calls'[y].aborted /\ ~CurrentAfter(y)
  <2>1. calls'[y] = [calls[y] EXCEPT !.aborted = TRUE, !.superseded = TRUE]
    <3>1. y \in Calls /\ InProgressOf(y, c) /\ Current(y)
      BY <1>4
    <3> QED
      BY ONLY <1>1, <3>1 DEF Stopped
  <2>2. calls[y].stage \in InProgress /\ calls[y].context = c
    BY <1>4 DEF InProgressOf
  <2>3. Marked(calls[y], calls'[y]) /\ calls'[y].aborted /\ calls[y].actor \in Actors
    <3>1. calls[y] \in CallShape /\ WellFormed(calls[y])
      BY <2>2, InProgressCall
    <3>2. calls[y].actor \in Actors
      BY <3>1 DEF CallShape
    <3> QED
      BY <2>1, <2>2, <3>1, <3>2, Marks
  <2>4. calls'[y].context = c /\ calls'[y].actor \in Actors
    BY <2>2, <2>3 DEF Marked
  <2> QED
    BY <1>3, <2>3, <2>4, NoCallAssumption DEF CurrentAfter
<1>5. \A y \in Calls : ~(InProgressOf(y, c) /\ Current(y)) => calls'[y] = calls[y]
  BY <1>1 DEF Stopped
<1>6. ASSUME NEW y \in Calls, ~InProgressOf(y, c), calls[y].stage \in InProgress, Current(y)
      PROVE  CurrentAfter(y)
  <2>1. calls[y].context \in Contexts \ {c} /\ calls[y].actor \in Actors
    BY <1>6, InProgressCall DEF CallShape, InProgressOf
  <2> QED
    BY <1>3, <1>5, <1>6, <2>1 DEF Current, CurrentAfter
<1>7. NewCallsStep({})
  <2>1. \A y \in Calls : calls'[y] = calls[y] \/ Marked(calls[y], calls'[y])
    BY <1>4, <1>5
  <2>2. \A y \in Calls : calls[y].stage \in InProgress /\ Current(y) =>
                           CurrentAfter(y) \/ calls'[y].aborted
    BY <1>4, <1>6
  <2>3. \A y \in Calls : calls[y].stage \in InProgress /\ CurrentAfter(y) =>
                           calls'[y].superseded = calls[y].superseded
    BY <1>4, <1>5
  <2>4. \A d \in Contexts, a \in Actors : active'[d][a] \in {active[d][a], NoCall}
    BY <1>3
  <2> QED
    BY <1>1, <1>2, <1>3, <2>1, <2>2, <2>3, <2>4 DEF NewCallsStep
<1> QED
  BY <1>1, <1>7, SameCache, NewCallsInvariant

-----------------------------------------------------------------------------
(* The theorems.                                                           *)

LEMMA InitInvariant == ASSUME Init PROVE IInv
<1>1. Types
  BY DEF Init, Types, NoVersion
<1>2. CurrentOrAborted
  BY DEF Init, CurrentOrAborted, Unused, InProgress
<1> QED
  BY <1>1, <1>2 DEF Init, IInv, SupersededIsPast, CachedBySuccess

LEMMA NextInvariant == ASSUME IInv, [Next]_vars PROVE IInv'
<1>1. ASSUME NEW c \in Contexts, Dispose(c) PROVE IInv'
  BY <1>1, DisposeInvariant
<1>2. ASSUME NEW c \in Contexts, NEW k \in Keys, Age(c, k) PROVE IInv'
  BY <1>2, AgeInvariant
<1>3. ASSUME NEW x \in Calls, NEW c \in Contexts, NEW a \in Actors, NEW k \in Keys,
             ExecuteQuery(x, c, a, k) \/ ExecuteMutation(x, c, a, k)
      PROVE  IInv'
  BY <1>3, ExecuteQueryInvariant, ExecuteMutationInvariant
<1>4. ASSUME NEW x \in Calls, Abort(x) \/ ApplyOptimistic(x) PROVE IInv'
  BY <1>4, AbortInvariant, ApplyOptimisticInvariant
<1>5. ASSUME NEW x \in Calls,
             ServerReads(x) \/ ServerApplies(x) \/ HandlerAnswers(x) \/ EndWait(x)
      PROVE  IInv'
  BY <1>5, ServerReadsInvariant, ServerAppliesInvariant, HandlerAnswersInvariant,
     EndWaitInvariant
<1>6. ASSUME NEW x \in Calls, Discard(x) \/ Refuse(x) PROVE IInv'
  BY <1>6, DiscardInvariant, RefuseInvariant
<1>7. ASSUME NEW x \in Calls, CommitQuery(x) \/ CommitMutation(x) \/ PublishInvalidation(x)
      PROVE  IInv'
  BY <1>7, CommitQueryInvariant, CommitMutationInvariant, PublishInvalidationInvariant
<1>8. CASE UNCHANGED vars
  BY <1>8 DEF vars, IInv, Types, CurrentOrAborted, SupersededIsPast, CachedBySuccess, Current
<1> QED
  BY <1>1, <1>2, <1>3, <1>4, <1>5, <1>6, <1>7, <1>8 DEF Next

(* The strengthened invariant holds throughout.                            *)
THEOREM Invariance == Spec => []IInv
<1>1. Init => IInv
  BY InitInvariant
<1>2. IInv /\ [Next]_vars => IInv'
  BY NextInvariant
<1> QED
  BY <1>1, <1>2, PTL DEF Spec

(* One current request per actor: start, finish, stopActive and dispose    *)
(* (coordinator.ts) never let a request go on that is neither current nor  *)
(* aborted, and never leave a finished one in the way of the next.         *)
THEOREM OneCurrentRequest == Spec => []CurrentOrAborted
<1>1. IInv => CurrentOrAborted
  BY DEF IInv
<1> QED
  BY <1>1, Invariance, PTL

(* The check that finalize makes (coordinator.ts, the generation of the    *)
(* active request) suffices: what was superseded or disposed of enters no  *)
(* cache and commits no optimistic change.                                 *)
THEOREM SupersededTraceless == Spec => []SupersededLeavesNoTrace
<1>1. ASSUME IInv PROVE SupersededLeavesNoTrace
  <2> SUFFICES ASSUME NEW x \in Calls, calls[x] # Unused, calls[x].superseded
               PROVE  /\ calls[x].outcome # "succeeded"
                      /\ calls[x].lease # "committed"
                      /\ \A k \in Keys : cache[calls[x].context][k] # NoEntry =>
                           cache[calls[x].context][k].by # x
    BY DEF SupersededLeavesNoTrace
  <2>1. calls[x] \in CallShape /\ WellFormed(calls[x])
    BY <1>1 DEF IInv, Types
  <2>2. calls[x].context \in Contexts
    BY <2>1 DEF CallShape
  <2>3. \A k \in Keys : cache[calls[x].context][k] # NoEntry =>
          cache[calls[x].context][k].by # x
    BY <1>1, <2>2 DEF IInv, CachedBySuccess, SettledSuccess
  <2> QED
    BY <2>1, <2>3 DEF WellFormed
<1> QED
  BY <1>1, Invariance, PTL

(* commit and rollback of an optimistic change (optimistic.ts, finalize of *)
(* coordinator.ts) agree with the outcome of its call, on every path.      *)
THEOREM LeasesMatch == Spec => []LeaseMatchesOutcome
<1>1. ASSUME IInv PROVE LeaseMatchesOutcome
  BY <1>1 DEF IInv, Types, LeaseMatchesOutcome, WellFormed, Unused
<1> QED
  BY <1>1, Invariance, PTL

-----------------------------------------------------------------------------
(* Versions and invalidations.  The data of a call is as new as what its   *)
(* context had been told of when its handler was called (Honest), because  *)
(* a context is told only of versions the server has reached               *)
(* (HeardOfServer).                                                        *)

Successful(call) == call.stage = "settled" /\ call.outcome = "succeeded"

(* What the versions of a call say, its key being at version n.            *)
Honest(call, n) ==
  /\ call.version <= n /\ call.floor <= n
  /\ call.kind = "query" /\ call.version # NoVersion => call.floor <= call.version
  /\ call.result = "success" =>
       call.stage \in {"executed", "committing"} /\ call.version # NoVersion
  /\ call.stage = "committing" => call.kind = "mutation" /\ call.version # NoVersion
  /\ call.kind = "mutation" /\ Successful(call) => call.version # NoVersion

HeardOfServer == \A c \in Contexts, k \in Keys : heard[c][k] <= server[k]

CallsHonest == \A x \in Calls : calls[x] # Unused => Honest(calls[x], server[calls[x].key])

VInv ==
  HeardOfServer /\ CallsHonest /\ CacheFollowsInvalidations /\ SuccessInvalidates

(* Versions only grow.                                                     *)
LEMMA HonestLater ==
  ASSUME NEW call \in CallShape, NEW n \in Nat, NEW m \in Nat, n <= m, Honest(call, n)
  PROVE  Honest(call, m)
BY DEF Honest, CallShape

(* An attempt forgets the data of an earlier one, and what the context has *)
(* been told of by then is no newer than the server.                       *)
LEMMA HonestAttempt ==
  ASSUME NEW call \in CallShape, NEW n \in Nat, NEW h \in Nat, h <= n, Honest(call, n),
         call.stage # "committing", call.result # "success"
  PROVE  /\ Honest(Attempt(call, h), n)
         /\ Attempt(call, h).key = call.key
         /\ ~Successful(Attempt(call, h))
<1>1. CASE call.aborted
  <2>1. Attempt(call, h) = [call EXCEPT !.stage = "executed", !.attempts = call.attempts + 1,
                                        !.result = "canceled"]
    BY <1>1 DEF Attempt
  <2> QED
    BY <2>1 DEF Honest, Successful, CallShape
<1>2. CASE ~call.aborted
  <2>1. PICK v \in Nat :
          /\ Attempt(call, h) = [call EXCEPT !.stage = "invoking", !.attempts = call.attempts + 1,
                                             !.invoked = TRUE, !.floor = h, !.version = v]
          /\ v = IF call.kind = "query" THEN NoVersion ELSE call.version
    BY <1>2 DEF Attempt, CallShape, NoVersion
  <2> QED
    BY <2>1 DEF Honest, Successful, CallShape, NoVersion
<1> QED
  BY <1>1, <1>2

(* resolution (coordinator-support.ts) keeps the version of a mutation.    *)
LEMMA HonestSettle ==
  ASSUME NEW call \in CallShape, NEW n \in Nat, Honest(call, n), NEW outcome \in Outcomes,
         outcome = "succeeded" /\ call.kind = "mutation" => call.version # NoVersion
  PROVE  /\ Honest(Settle(call, outcome), n)
         /\ Settle(call, outcome).key = call.key
         /\ Settle(call, outcome).outcome = outcome
         /\ call.kind = "mutation" => Settle(call, outcome).version = call.version
<1>1. PICK v \in Nat, f \in Nat, i \in BOOLEAN :
        /\ Settle(call, outcome) =
             [call EXCEPT !.stage = "settled", !.outcome = outcome, !.result = "none",
                          !.aborted = FALSE, !.attempts = 0, !.deaf = FALSE,
                          !.floor = f, !.version = v, !.invoked = i]
        /\ f \in {call.floor, NoVersion}
        /\ v = IF call.kind = "query" THEN NoVersion ELSE call.version
  BY DEF Settle, CallShape, NoVersion
<1> QED
  BY <1>1 DEF Honest, Successful, CallShape, NoVersion

(* A refused call is no success.                                           *)
LEMMA HonestRefusal ==
  ASSUME NEW call \in CallShape, NEW n \in Nat, Honest(call, n),
         NEW outcome \in {"discarded", "failed"}, NEW refusal \in Refusals(call, outcome)
  PROVE  Honest(refusal, n) /\ refusal.key = call.key /\ ~Successful(refusal)
<1>1. RolledBack(call) \in CallShape /\ Honest(RolledBack(call), n)
      /\ RolledBack(call).key = call.key
  BY DEF RolledBack, CallShape, Leases, Honest, Successful
<1>2. PICK final \in {"discarded", "failed", "rejected"} :
        refusal = Settle(RolledBack(call), final)
  BY DEF Refusals
<1>3. final \in Outcomes /\ final # "succeeded"
  BY DEF Outcomes
<1> QED
  BY <1>1, <1>2, <1>3, HonestSettle DEF Successful

(* What a cached entry is worth to a context that was told of version h,   *)
(* when its request was sent at version floor.                             *)
Follows(entry, h, floor) == entry.heard = h /\ (entry.version >= h \/ floor < h)

\* The entry at a key is what it was, aged perhaps, or is gone.
EntryKept(c, k) ==
  \/ cache'[c][k] = NoEntry
  \/ /\ cache[c][k] # NoEntry
     /\ cache'[c][k].by = cache[c][k].by
     /\ cache'[c][k].version = cache[c][k].version
     /\ cache'[c][k].heard = cache[c][k].heard

\* A call is what it was, or moves on honestly and not from or to a success.
CallMoves(x) ==
  \/ calls'[x] = calls[x]
  \/ /\ Honest(calls'[x], server'[calls'[x].key])
     /\ ~Successful(calls[x])
     /\ ~Successful(calls'[x])

ServerGrows == \A k \in Keys : server[k] <= server'[k]

(* Only CommitQuery and PublishInvalidation do more than this.             *)
QuietStep ==
  /\ ServerGrows
  /\ UNCHANGED heard
  /\ \A c \in Contexts : subscribed'[c] => subscribed[c]
  /\ \A x \in Calls : CallMoves(x)
  /\ \A c \in Contexts, k \in Keys : EntryKept(c, k)

LEMMA CallsHonestAfter ==
  ASSUME IInv, IInv', VInv, ServerGrows,
         \A x \in Calls : \/ calls'[x] = calls[x]
                          \/ Honest(calls'[x], server'[calls'[x].key])
  PROVE  CallsHonest'
<1> SUFFICES ASSUME NEW x \in Calls, calls'[x] # Unused
             PROVE  Honest(calls'[x], server'[calls'[x].key])
  BY DEF CallsHonest
<1>1. CASE calls'[x] = calls[x]
  <2>1. calls[x] \in CallShape /\ calls[x].key \in Keys
    BY <1>1 DEF IInv, Types, CallShape
  <2>2. /\ server[calls[x].key] \in Nat /\ server'[calls[x].key] \in Nat
        /\ server[calls[x].key] <= server'[calls[x].key]
    BY <2>1 DEF IInv, Types, ServerGrows
  <2>3. Honest(calls[x], server[calls[x].key])
    BY <1>1 DEF VInv, CallsHonest
  <2> QED
    BY <1>1, <2>1, <2>2, <2>3, HonestLater
<1> QED
  BY <1>1

(* The entries that stay follow what was not heard of before.              *)
LEMMA QuietInvariant == ASSUME IInv, IInv', VInv, QuietStep PROVE VInv'
<1>1. HeardOfServer'
  <2> SUFFICES ASSUME NEW c \in Contexts, NEW k \in Keys PROVE heard'[c][k] <= server'[k]
    BY DEF HeardOfServer
  <2>1. heard[c][k] <= server[k] /\ server[k] <= server'[k]
    BY DEF VInv, HeardOfServer, QuietStep, ServerGrows
  <2>2. heard[c][k] \in Nat /\ server[k] \in Nat /\ server'[k] \in Nat
    BY DEF IInv, Types
  <2> QED
    BY <2>1, <2>2 DEF QuietStep
<1>2. CallsHonest'
  BY CallsHonestAfter DEF QuietStep, CallMoves
<1>3. CacheFollowsInvalidations'
  <2> SUFFICES ASSUME NEW c \in Contexts, NEW k \in Keys, cache'[c][k] # NoEntry
               PROVE  Follows(cache'[c][k], heard'[c][k], calls'[cache'[c][k].by].floor)
    BY DEF CacheFollowsInvalidations, Follows
  <2>1. EntryKept(c, k) /\ heard' = heard
    BY DEF QuietStep
  <2>2. cache[c][k] # NoEntry /\ Follows(cache[c][k], heard[c][k], calls[cache[c][k].by].floor)
    BY <2>1 DEF EntryKept, VInv, CacheFollowsInvalidations, Follows
  <2>3. cache[c][k].by \in Calls /\ Successful(calls[cache[c][k].by])
    <3>1. cache[c][k] \in Entry /\ SettledSuccess(calls[cache[c][k].by])
      BY <2>2 DEF IInv, CachedBySuccess
    <3>2. cache[c][k].by \in Calls
      BY <3>1 DEF Entry
    <3> QED
      BY <3>1, <3>2 DEF SettledSuccess, Successful
  <2>4. calls'[cache[c][k].by] = calls[cache[c][k].by]
    BY <2>3 DEF QuietStep, CallMoves
  <2> QED
    BY <2>1, <2>2, <2>4 DEF EntryKept, Follows
<1>4. SuccessInvalidates'
  <2> SUFFICES ASSUME NEW x \in Calls, calls'[x].stage = "settled",
                      calls'[x].kind = "mutation", calls'[x].outcome = "succeeded",
                      NEW c \in Contexts,
                      c = calls'[x].context \/ (calls'[x].announced /\ subscribed'[c])
               PROVE  heard'[c][calls'[x].key] >= calls'[x].version
    BY DEF SuccessInvalidates
  <2>1. calls'[x] = calls[x] /\ heard' = heard /\ (subscribed'[c] => subscribed[c])
    BY DEF QuietStep, CallMoves, Successful
  <2> QED
    BY <2>1 DEF VInv, SuccessInvalidates
<1> QED
  BY <1>1, <1>2, <1>3, <1>4 DEF VInv

(* What is known of a call that is not unused, and of its key.             *)
LEMMA HonestCall ==
  ASSUME IInv, VInv, NEW x \in Calls, calls[x].stage # "unused"
  PROVE  /\ calls[x] \in CallShape
         /\ Honest(calls[x], server[calls[x].key])
         /\ server[calls[x].key] \in Nat
         /\ heard[calls[x].context][calls[x].key] \in Nat
         /\ heard[calls[x].context][calls[x].key] <= server[calls[x].key]
<1>1. calls[x] \in CallShape /\ calls[x] # Unused
  BY UsedCall DEF IInv, Unused
<1>2. calls[x].context \in Contexts /\ calls[x].key \in Keys
  BY <1>1 DEF CallShape
<1> QED
  BY <1>1, <1>2 DEF IInv, Types, VInv, HeardOfServer, CallsHonest

(* A quiet step of one call, which leaves the caches alone.                *)
LEMMA QuietCall ==
  ASSUME IInv, IInv', VInv, NEW x \in Calls, calls[x].stage # "unused",
         ~Successful(calls[x]), NEW r, calls' = [calls EXCEPT ![x] = r],
         r.key = calls[x].key, Honest(r, server'[calls[x].key]), ~Successful(r),
         ServerGrows, UNCHANGED <<cache, subscribed, heard>>
  PROVE  VInv'
<1>1. DOMAIN calls = Calls
  BY DEF IInv, Types
<1>2. calls'[x] = r /\ \A y \in Calls \ {x} : calls'[y] = calls[y]
  BY <1>1
<1>3. \A y \in Calls : CallMoves(y)
  BY <1>2 DEF CallMoves
<1>4. \A c \in Contexts, k \in Keys : EntryKept(c, k)
  BY DEF EntryKept
<1>5. QuietStep
  BY <1>3, <1>4 DEF QuietStep
<1> QED
  BY <1>5, QuietInvariant

LEMMA SameServer == ASSUME IInv, UNCHANGED server PROVE ServerGrows
BY DEF IInv, Types, ServerGrows

LEMMA InProgressUnsuccessful ==
  ASSUME NEW x \in Calls, calls[x].stage \in InProgress
  PROVE  calls[x].stage \notin {"unused", "committing"} /\ ~Successful(calls[x])
BY DEF InProgress, Successful

LEMMA AbortFollows == ASSUME IInv, IInv', VInv, NEW x \in Calls, Abort(x) PROVE VInv'
<1> DEFINE r == [calls[x] EXCEPT !.aborted = TRUE]
<1>1. calls[x].stage \in InProgress /\ calls' = [calls EXCEPT ![x] = r]
      /\ UNCHANGED <<server, cache, subscribed, heard>>
  BY DEF Abort
<1>2. calls[x].stage # "unused" /\ ~Successful(calls[x])
  BY <1>1, InProgressUnsuccessful
<1>3. r.key = calls[x].key /\ Honest(r, server[calls[x].key]) /\ ~Successful(r)
  BY <1>2, HonestCall DEF CallShape, Honest, Successful
<1> HIDE DEF r
<1> QED
  BY <1>1, <1>2, <1>3, SameServer, QuietCall

LEMMA ApplyOptimisticFollows ==
  ASSUME IInv, IInv', VInv, NEW x \in Calls, ApplyOptimistic(x) PROVE VInv'
<1> DEFINE applied == [calls[x] EXCEPT !.lease = IF Optimistic THEN "applied" ELSE "none"]
           n == server[calls[x].key]
           h == heard[calls[x].context][calls[x].key]
<1>1. calls[x].stage = "applying" /\ calls[x].stage \in InProgress
      /\ UNCHANGED <<server, cache, subscribed, heard>>
  BY DEF ApplyOptimistic, InProgress
<1>2. calls[x].stage # "unused" /\ ~Successful(calls[x])
  BY <1>1, InProgressUnsuccessful
<1>3. calls[x] \in CallShape /\ Honest(calls[x], n) /\ n \in Nat /\ h \in Nat /\ h <= n
  BY <1>2, HonestCall
<1>4. applied \in CallShape /\ Honest(applied, n) /\ applied.key = calls[x].key
      /\ applied.stage # "committing" /\ applied.result # "success"
      /\ applied.context = calls[x].context
  <2>1. PICK l \in {"applied", "none"} : applied = [calls[x] EXCEPT !.lease = l]
    OBVIOUS
  <2>2. calls[x].result # "success"
    BY <1>1, <1>3 DEF Honest
  <2> QED
    BY <1>1, <1>3, <2>1, <2>2 DEF CallShape, Leases, Honest, Successful
<1>5. PICK r : /\ calls' = [calls EXCEPT ![x] = r]
               /\ \/ r = Settle(calls[x], "failed")
                  \/ r \in Refusals(applied, "discarded")
                  \/ r = Attempt(applied, h)
  <2> HIDE DEF applied
  <2> QED
    BY DEF ApplyOptimistic, applied
<1>6. CASE r = Settle(calls[x], "failed")
  <2>1. r.key = calls[x].key /\ Honest(r, n) /\ ~Successful(r)
    BY <1>3, <1>6, HonestSettle DEF Outcomes, Successful
  <2> QED
    BY <1>1, <1>2, <1>5, <2>1, SameServer, QuietCall
<1> HIDE DEF applied, n, h
<1>7. CASE r \in Refusals(applied, "discarded")
  <2>1. r.key = calls[x].key /\ Honest(r, n) /\ ~Successful(r)
    BY <1>3, <1>4, <1>7, HonestRefusal
  <2> QED
    BY <1>1, <1>2, <1>5, <2>1, SameServer, QuietCall DEF n
<1>8. CASE r = Attempt(applied, h)
  <2>1. r.key = calls[x].key /\ Honest(r, n) /\ ~Successful(r)
    BY <1>3, <1>4, <1>8, HonestAttempt
  <2> QED
    BY <1>1, <1>2, <1>5, <2>1, SameServer, QuietCall DEF n
<1> QED
  BY <1>5, <1>6, <1>7, <1>8

(* The server has what the context was told of when the handler was called.*)
LEMMA ServerReadsFollows ==
  ASSUME IInv, IInv', VInv, NEW x \in Calls, ServerReads(x) PROVE VInv'
<1> DEFINE n == server[calls[x].key]
           r == [calls[x] EXCEPT !.version = n]
<1>1. calls[x].stage = "invoking" /\ calls[x].stage \in InProgress /\ calls[x].kind = "query"
      /\ calls' = [calls EXCEPT ![x] = r]
      /\ UNCHANGED <<server, cache, subscribed, heard>>
  BY DEF ServerReads, InProgress
<1>2. calls[x].stage # "unused" /\ ~Successful(calls[x])
  BY <1>1, InProgressUnsuccessful
<1>3. calls[x] \in CallShape /\ Honest(calls[x], n) /\ n \in Nat
  BY <1>2, HonestCall
<1>4. r.key = calls[x].key /\ Honest(r, n) /\ ~Successful(r)
  <2> HIDE DEF n
  <2> QED
    BY <1>1, <1>3 DEF CallShape, Honest, Successful
<1> HIDE DEF r
<1> QED
  BY <1>1, <1>2, <1>4, SameServer, QuietCall

(* A mutation that has its effect late has not been reported as a success. *)
LEMMA ServerAppliesFollows ==
  ASSUME IInv, IInv', VInv, NEW x \in Calls, ServerApplies(x) PROVE VInv'
<1> DEFINE n == server[calls[x].key]
           v == n + 1
           r == [calls[x] EXCEPT !.version = v]
<1>1. /\ calls[x].stage # "unused" /\ calls[x].kind = "mutation"
      /\ calls[x].version = NoVersion
      /\ calls' = [calls EXCEPT ![x] = r]
      /\ server' = [server EXCEPT ![calls[x].key] = v]
      /\ UNCHANGED <<cache, subscribed, heard>>
  BY UsedCall DEF ServerApplies, IInv, Types, CallShape, InProgress
<1>2. calls[x] \in CallShape /\ Honest(calls[x], n) /\ n \in Nat /\ calls[x].key \in Keys
  BY <1>1, HonestCall DEF CallShape
<1>3. server \in [Keys -> Nat] /\ server'[calls[x].key] = v /\ v \in Nat /\ v # NoVersion
      /\ n <= v
  BY <1>1, <1>2 DEF IInv, Types, NoVersion
<1>4. ServerGrows
  BY <1>1, <1>2, <1>3 DEF ServerGrows
<1>5. r.key = calls[x].key /\ Honest(r, v) /\ ~Successful(r) /\ ~Successful(calls[x])
  <2>1. ~Successful(calls[x])
    BY <1>1, <1>2 DEF Honest
  <2>2. Honest(calls[x], v)
    BY <1>2, <1>3, HonestLater
  <2> HIDE DEF v
  <2> QED
    BY <1>1, <1>2, <1>3, <2>1, <2>2 DEF CallShape, Honest, Successful
<1> HIDE DEF r, v
<1> QED
  BY <1>1, <1>3, <1>4, <1>5, QuietCall

LEMMA HandlerAnswersFollows ==
  ASSUME IInv, IInv', VInv, NEW x \in Calls, HandlerAnswers(x) PROVE VInv'
<1> DEFINE n == server[calls[x].key]
           h == heard[calls[x].context][calls[x].key]
<1>1. calls[x].stage = "invoking" /\ calls[x].stage \in InProgress
      /\ UNCHANGED <<server, cache, subscribed, heard>>
  BY DEF HandlerAnswers, InProgress
<1>2. calls[x].stage # "unused" /\ ~Successful(calls[x])
  BY <1>1, InProgressUnsuccessful
<1>3. calls[x] \in CallShape /\ Honest(calls[x], n) /\ n \in Nat /\ h \in Nat /\ h <= n
  BY <1>2, HonestCall
<1>4. PICK result \in Answers(calls[x]), delayed \in BOOLEAN :
        LET call == [calls[x] EXCEPT !.result = result]
        IN  calls' = [calls EXCEPT ![x] =
              IF ShouldRetry(call, result) /\ delayed
              THEN [call EXCEPT !.stage = "waiting", !.deaf = call.aborted]
              ELSE IF ShouldRetry(call, result) /\ ~call.aborted
              THEN Attempt(call, heard[call.context][call.key])
              ELSE [call EXCEPT !.stage = "executed"]]
  BY DEF HandlerAnswers
<1> DEFINE call == [calls[x] EXCEPT !.result = result]
           waiting == [call EXCEPT !.stage = "waiting", !.deaf = call.aborted]
           again == Attempt(call, heard[call.context][call.key])
           executed == [call EXCEPT !.stage = "executed"]
<1>5. result \in Results /\ (result = "success" => calls[x].version # NoVersion)
  BY DEF Answers, Results
<1>6. call \in CallShape /\ call.key = calls[x].key /\ call.context = calls[x].context
      /\ call.result = result /\ call.stage = "invoking" /\ call.version = calls[x].version
      /\ call.floor = calls[x].floor /\ call.kind = calls[x].kind
  BY <1>1, <1>3, <1>5 DEF CallShape
<1> HIDE DEF call
<1>7. executed.key = calls[x].key /\ Honest(executed, n) /\ ~Successful(executed)
  <2> HIDE DEF n
  <2>1. executed.stage = "executed" /\ executed.key = call.key /\ executed.version = call.version
        /\ executed.floor = call.floor /\ executed.kind = call.kind
        /\ executed.result = call.result
    BY <1>6 DEF CallShape
  <2> HIDE DEF executed
  <2> QED
    BY <1>3, <1>5, <1>6, <2>1 DEF Honest, Successful
<1>8. ASSUME result # "success"
      PROVE  \A r \in {waiting, again} : r.key = calls[x].key /\ Honest(r, n) /\ ~Successful(r)
  <2>1. Honest(call, n)
    BY <1>3, <1>6, <1>8 DEF Honest, Successful
  <2>2. Honest(again, n) /\ again.key = call.key /\ ~Successful(again)
    BY <1>3, <1>6, <1>8, <2>1, HonestAttempt
  <2>3. waiting.stage = "waiting" /\ waiting.key = call.key /\ waiting.version = call.version
        /\ waiting.floor = call.floor /\ waiting.kind = call.kind
        /\ waiting.result = call.result
    BY <1>6 DEF CallShape
  <2> HIDE DEF waiting, again, n
  <2>4. Honest(waiting, n) /\ ~Successful(waiting)
    BY <1>6, <1>8, <2>1, <2>3 DEF Honest, Successful
  <2> QED
    BY <1>6, <2>2, <2>3, <2>4
<1>9. PICK r : /\ calls' = [calls EXCEPT ![x] = r]
               /\ r = executed \/ (result # "success" /\ r \in {waiting, again})
  <2>1. ShouldRetry(call, result) => result # "success"
    BY DEF ShouldRetry
  <2>2. CASE ShouldRetry(call, result) /\ delayed
    BY <1>4, <2>1, <2>2 DEF call
  <2>3. CASE ~(ShouldRetry(call, result) /\ delayed) /\ ShouldRetry(call, result) /\ ~call.aborted
    BY <1>4, <2>1, <2>3 DEF call
  <2>4. CASE ~(ShouldRetry(call, result) /\ delayed)
             /\ ~(ShouldRetry(call, result) /\ ~call.aborted)
    BY <1>4, <2>4 DEF call
  <2> QED
    BY <2>2, <2>3, <2>4
<1> HIDE DEF executed, waiting, again
<1>10. r.key = calls[x].key /\ Honest(r, n) /\ ~Successful(r)
  BY <1>7, <1>8, <1>9
<1> QED
  BY <1>1, <1>2, <1>9, <1>10, SameServer, QuietCall

LEMMA EndWaitFollows == ASSUME IInv, IInv', VInv, NEW x \in Calls, EndWait(x) PROVE VInv'
<1> DEFINE n == server[calls[x].key]
           h == heard[calls[x].context][calls[x].key]
           executed == [calls[x] EXCEPT !.stage = "executed"]
           again == Attempt(calls[x], h)
<1>1. calls[x].stage = "waiting" /\ calls[x].stage \in InProgress
      /\ UNCHANGED <<server, cache, subscribed, heard>>
  BY DEF EndWait, InProgress
<1>2. calls[x].stage # "unused" /\ ~Successful(calls[x])
  BY <1>1, InProgressUnsuccessful
<1>3. calls[x] \in CallShape /\ Honest(calls[x], n) /\ n \in Nat /\ h \in Nat /\ h <= n
  BY <1>2, HonestCall
<1>4. calls[x].result # "success"
  BY <1>1, <1>3 DEF Honest
<1>5. PICK r \in {executed, again} : calls' = [calls EXCEPT ![x] = r]
  <2>1. CASE calls[x].aborted /\ ~calls[x].deaf
    BY <2>1 DEF EndWait
  <2>2. CASE ~(calls[x].aborted /\ ~calls[x].deaf)
    BY <2>2 DEF EndWait
  <2> QED
    BY <2>1, <2>2
<1>6. executed.key = calls[x].key /\ Honest(executed, n) /\ ~Successful(executed)
  <2> HIDE DEF n
  <2> QED
    BY <1>1, <1>3, <1>4 DEF CallShape, Honest, Successful
<1>7. again.key = calls[x].key /\ Honest(again, n) /\ ~Successful(again)
  BY <1>1, <1>3, <1>4, HonestAttempt
<1> HIDE DEF executed, again
<1>8. r.key = calls[x].key /\ Honest(r, n) /\ ~Successful(r)
  BY <1>5, <1>6, <1>7
<1> QED
  BY <1>1, <1>2, <1>5, <1>8, SameServer, QuietCall

LEMMA RefusalFollows ==
  ASSUME IInv, IInv', VInv, NEW x \in Calls, Discard(x) \/ Refuse(x) PROVE VInv'
<1> DEFINE n == server[calls[x].key]
<1>1. calls[x].stage = "executed" /\ calls[x].stage \in InProgress
      /\ UNCHANGED <<server, cache, subscribed, heard>>
  BY DEF Discard, Refuse, InProgress
<1>2. PICK outcome \in {"discarded", "failed"} :
        \E r \in Refusals(calls[x], outcome) : calls' = [calls EXCEPT ![x] = r]
  BY DEF Discard, Refuse
<1>3. PICK r \in Refusals(calls[x], outcome) : calls' = [calls EXCEPT ![x] = r]
  BY <1>2
<1>4. calls[x].stage # "unused" /\ ~Successful(calls[x])
  BY <1>1, InProgressUnsuccessful
<1>5. r.key = calls[x].key /\ Honest(r, n) /\ ~Successful(r)
  BY <1>4, HonestCall, HonestRefusal
<1> QED
  BY <1>1, <1>3, <1>4, <1>5, SameServer, QuietCall

(* Only what the server has made a version of is committed.                *)
LEMMA CommitMutationFollows ==
  ASSUME IInv, IInv', VInv, NEW x \in Calls, CommitMutation(x) PROVE VInv'
<1> DEFINE n == server[calls[x].key]
           r == [calls[x] EXCEPT !.stage = "committing",
                                 !.lease = IF calls[x].lease = "applied" THEN "committed"
                                           ELSE calls[x].lease]
<1>1. calls[x].stage = "executed" /\ calls[x].stage \in InProgress
      /\ calls[x].kind = "mutation" /\ calls[x].result = "success"
      /\ calls' = [calls EXCEPT ![x] = r] /\ UNCHANGED <<server, cache, subscribed, heard>>
  BY DEF CommitMutation, Succeeded, InProgress
<1>2. calls[x].stage # "unused" /\ ~Successful(calls[x])
  BY <1>1, InProgressUnsuccessful
<1>3. calls[x] \in CallShape /\ Honest(calls[x], n)
  BY <1>2, HonestCall
<1>4. r.stage = "committing" /\ r.key = calls[x].key /\ r.version = calls[x].version
      /\ r.floor = calls[x].floor /\ r.kind = calls[x].kind /\ r.result = calls[x].result
  BY <1>3 DEF CallShape
<1> HIDE DEF r
<1>5. Honest(r, n) /\ ~Successful(r)
  BY <1>1, <1>3, <1>4 DEF Honest, Successful
<1> QED
  BY <1>1, <1>2, <1>4, <1>5, SameServer, QuietCall

(* stopActive changes no version.                                          *)
LEMMA StoppedMoves ==
  ASSUME IInv, VInv, NEW S, NEW c \in Contexts, NEW y \in Calls
  PROVE  \/ Stopped(S, c)[y] = calls[y]
         \/ /\ Honest(Stopped(S, c)[y], server[Stopped(S, c)[y].key])
            /\ ~Successful(calls[y])
            /\ ~Successful(Stopped(S, c)[y])
<1>1. CASE y \in S /\ InProgressOf(y, c) /\ Current(y)
  <2> DEFINE n == server[calls[y].key]
             r == [calls[y] EXCEPT !.aborted = TRUE, !.superseded = TRUE]
  <2>1. Stopped(S, c)[y] = r /\ calls[y].stage \in InProgress
    BY <1>1 DEF Stopped, InProgressOf
  <2>2. calls[y] \in CallShape /\ Honest(calls[y], n) /\ ~Successful(calls[y])
    BY <2>1, InProgressUnsuccessful, HonestCall
  <2>3. Honest(r, n) /\ r.key = calls[y].key /\ ~Successful(r)
    BY <2>2 DEF Honest, Successful, CallShape
  <2> QED
    BY <2>1, <2>2, <2>3
<1>2. CASE ~(y \in S /\ InProgressOf(y, c) /\ Current(y))
  BY <1>2 DEF Stopped
<1> QED
  BY <1>1, <1>2

LEMMA DisposeFollows == ASSUME IInv, IInv', VInv, NEW c \in Contexts, Dispose(c) PROVE VInv'
<1>1. calls' = Stopped(Calls, c) /\ subscribed' = [subscribed EXCEPT ![c] = FALSE]
      /\ UNCHANGED <<server, cache, heard>>
  BY DEF Dispose
<1>2. \A x \in Calls : CallMoves(x)
  <2> TAKE x \in Calls
  <2> QED
    BY <1>1, StoppedMoves DEF CallMoves
<1>3. \A d \in Contexts : subscribed'[d] => subscribed[d]
  BY <1>1 DEF IInv, Types
<1>4. \A d \in Contexts, k \in Keys : EntryKept(d, k)
  BY <1>1 DEF EntryKept
<1>5. QuietStep
  BY <1>1, <1>2, <1>3, <1>4, SameServer DEF QuietStep
<1> QED
  BY <1>5, QuietInvariant

LEMMA AgeFollows ==
  ASSUME IInv, IInv', VInv, NEW c \in Contexts, NEW k \in Keys, Age(c, k) PROVE VInv'
<1>1. PICK stage \in {"collected", "expired"} : cache' = [cache EXCEPT ![c][k].stage = stage]
  BY DEF Age
<1>2. cache[c][k] \in Entry /\ cache[c][k] # NoEntry
      /\ UNCHANGED <<server, calls, subscribed, heard>>
  BY DEF Age, IInv, CachedBySuccess, NoEntry
<1> DEFINE aged == [cache[c][k] EXCEPT !.stage = stage]
<1>3. aged.by = cache[c][k].by /\ aged.version = cache[c][k].version
      /\ aged.heard = cache[c][k].heard
  BY <1>2 DEF Entry
<1>4. \A d \in Contexts, j \in Keys :
        cache'[d][j] = IF d = c /\ j = k THEN aged ELSE cache[d][j]
  BY <1>1 DEF IInv, Types
<1> HIDE DEF aged
<1>5. \A d \in Contexts, j \in Keys : EntryKept(d, j)
  BY <1>2, <1>3, <1>4 DEF EntryKept
<1>6. \A x \in Calls : CallMoves(x)
  BY <1>2 DEF CallMoves
<1>7. QuietStep
  BY <1>2, <1>5, <1>6, SameServer DEF QuietStep
<1> QED
  BY <1>7, QuietInvariant

LEMMA GetKeeps ==
  ASSUME IInv, NEW c \in Contexts, NEW k \in Keys, Get(c, k)
  PROVE  \A d \in Contexts, j \in Keys : EntryKept(d, j)
<1>1. cache[c][k].stage \in {"none", "collected", "expired", "held"}
  BY DEF IInv, CachedBySuccess, NoEntry, Entry
<1>2. UNCHANGED cache \/ cache' = [cache EXCEPT ![c][k] = NoEntry]
  BY <1>1 DEF Get, Held
<1>3. \A d \in Contexts, j \in Keys : cache'[d][j] \in {NoEntry, cache[d][j]}
  BY SMTT(40), <1>2 DEF IInv, Types
<1> QED
  BY <1>3 DEF EntryKept

(* A new request has no data yet.                                          *)
LEMMA NewCallHonest ==
  ASSUME NEW c \in Contexts, NEW a \in Actors, NEW kind \in Kinds, NEW k \in Keys,
         NEW aborted \in BOOLEAN, NEW n \in Nat
  PROVE  /\ NewCall(c, a, kind, k, aborted) \in CallShape
         /\ Honest(NewCall(c, a, kind, k, aborted), n)
         /\ NewCall(c, a, kind, k, aborted).stage = "new"
         /\ NewCall(c, a, kind, k, aborted).result = "none"
         /\ NewCall(c, a, kind, k, aborted).kind = kind
         /\ NewCall(c, a, kind, k, aborted).key = k
         /\ NewCall(c, a, kind, k, aborted).context = c
BY DEF NewCall, CallShape, Kinds, Leases, Results, Outcomes, NoVersion, Honest, Successful

LEMMA ExecuteFollows ==
  ASSUME IInv, IInv', VInv, NEW x \in Calls, NEW c \in Contexts, NEW a \in Actors,
         NEW k \in Keys, ExecuteQuery(x, c, a, k) \/ ExecuteMutation(x, c, a, k)
  PROVE  VInv'
<1> DEFINE n == server[k]
           h == heard[c][k]
<1>1. calls[x] = Unused /\ UNCHANGED <<server, subscribed, heard>>
      /\ \A d \in Contexts, j \in Keys : EntryKept(d, j)
  <2>1. CASE ExecuteQuery(x, c, a, k)
    BY <2>1, GetKeeps DEF ExecuteQuery
  <2>2. CASE ExecuteMutation(x, c, a, k)
    BY <2>2 DEF ExecuteMutation, EntryKept
  <2> QED
    BY <2>1, <2>2
<1>2. PICK kind \in Kinds, aborted \in BOOLEAN :
        \/ \E outcome \in {"cached", "failed"} :
             AnswerAtOnce(x, NewCall(c, a, kind, k, aborted), outcome)
        \/ Start(x, NewCall(c, a, kind, k, aborted))
  <2>1. CASE ExecuteQuery(x, c, a, k)
    <3>1. PICK fresh \in BOOLEAN, online \in BOOLEAN, lastKnownGood \in BOOLEAN,
               aborted \in BOOLEAN :
            LET call == NewCall(c, a, "query", k, aborted)
            IN  \/ AnswerAtOnce(x, call, "cached")
                \/ AnswerAtOnce(x, call, IF Held(c, k) /\ lastKnownGood THEN "cached" ELSE "failed")
                \/ Start(x, call)
      BY <2>1 DEF ExecuteQuery
    <3>2. (IF Held(c, k) /\ lastKnownGood THEN "cached" ELSE "failed") \in {"cached", "failed"}
      OBVIOUS
    <3>3. "query" \in Kinds
      BY DEF Kinds
    <3> QED
      BY <3>1, <3>2, <3>3, Zenon
  <2>2. CASE ExecuteMutation(x, c, a, k)
    <3>1. "mutation" \in Kinds
      BY DEF Kinds
    <3> QED
      BY <2>2, <3>1, Zenon DEF ExecuteMutation
  <2> QED
    BY <2>1, <2>2
<1> DEFINE call == NewCall(c, a, kind, k, aborted)
<1>3. n \in Nat /\ h \in Nat /\ h <= n
  BY DEF IInv, Types, VInv, HeardOfServer
<1>4. call \in CallShape /\ Honest(call, n) /\ call.stage = "new" /\ call.result = "none"
      /\ call.kind = kind /\ call.key = k /\ call.context = c
  <2> HIDE DEF n
  <2> QED
    BY <1>3, NewCallHonest
<1> HIDE DEF call
<1>5. DOMAIN calls = Calls /\ ~Successful(calls[x])
  BY <1>1 DEF IInv, Types, Successful, Unused
<1>6. ASSUME \E outcome \in {"cached", "failed"} : AnswerAtOnce(x, call, outcome)
      PROVE  \A y \in Calls : CallMoves(y)
  <2>1. PICK outcome \in {"cached", "failed"} : calls' = [calls EXCEPT ![x] = Settle(call, outcome)]
    BY <1>6 DEF AnswerAtOnce
  <2> DEFINE r == Settle(call, outcome)
  <2>2. outcome \in Outcomes /\ outcome # "succeeded"
    BY DEF Outcomes
  <2>3. Honest(r, n) /\ r.key = k /\ ~Successful(r)
    BY <1>3, <1>4, <2>2, HonestSettle DEF Successful
  <2>4. calls'[x] = r /\ \A y \in Calls \ {x} : calls'[y] = calls[y]
    BY <1>5, <2>1
  <2> HIDE DEF r
  <2> QED
    BY <1>1, <1>5, <2>3, <2>4 DEF CallMoves
<1>7. ASSUME Start(x, call) PROVE \A y \in Calls : CallMoves(y)
  <2>1. PICK r : /\ calls' = [Stopped({active[call.context][call.actor]}, c) EXCEPT ![x] = r]
                 /\ r \in {Attempt(call, h), [call EXCEPT !.stage = "applying"]}
    BY <1>4, <1>7 DEF Start
  <2>2. Honest(r, n) /\ r.key = k /\ ~Successful(r)
    <3>1. CASE r = Attempt(call, h)
      BY <1>3, <1>4, <3>1, HonestAttempt
    <3>2. CASE r = [call EXCEPT !.stage = "applying"]
      BY <1>4, <3>2 DEF Honest, Successful, CallShape
    <3> QED
      BY <2>1, <3>1, <3>2
  <2>3. calls'[x] = r
        /\ \A y \in Calls \ {x} : calls'[y] = Stopped({active[call.context][call.actor]}, c)[y]
    BY <2>1 DEF Stopped
  <2>4. CallMoves(x)
    BY <1>1, <1>5, <2>2, <2>3 DEF CallMoves
  <2>5. ASSUME NEW y \in Calls \ {x} PROVE CallMoves(y)
    BY <1>1, <2>3, StoppedMoves DEF CallMoves
  <2> QED
    BY <2>4, <2>5
<1>8. \A y \in Calls : CallMoves(y)
  BY <1>2, <1>6, <1>7 DEF call
<1>9. QuietStep
  BY <1>1, <1>8, SameServer DEF QuietStep
<1> QED
  BY <1>9, QuietInvariant

(* An entry that is stored is at least as new as what its context had been *)
(* told of when the request was sent.                                      *)
LEMMA CommitQueryFollows ==
  ASSUME IInv, IInv', VInv, NEW x \in Calls, CommitQuery(x) PROVE VInv'
<1> DEFINE r == Settle(calls[x], "succeeded")
           c == calls[x].context
           k == calls[x].key
           entry == [stage |-> "held", by |-> x, version |-> calls[x].version,
                     heard |-> heard[c][k]]
<1>1. calls[x].stage = "executed" /\ calls[x].stage \in InProgress /\ calls[x].kind = "query"
      /\ calls[x].result = "success"
      /\ calls' = [calls EXCEPT ![x] = r] /\ Put(c, k, entry)
      /\ UNCHANGED <<server, subscribed, heard>>
  BY DEF CommitQuery, Succeeded, InProgress
<1>2. calls[x].stage # "unused" /\ ~Successful(calls[x])
  BY <1>1, InProgressUnsuccessful
<1>3. calls[x] \in CallShape /\ Honest(calls[x], server[k]) /\ server[k] \in Nat
      /\ heard[c][k] \in Nat
  BY <1>2, HonestCall
<1>4. Honest(r, server[k]) /\ r.key = k /\ r.kind = "query" /\ r.floor = calls[x].floor
  <2>1. Honest(r, server[k]) /\ r.key = k /\ SameRequest(calls[x], r)
    <3> HIDE DEF k
    <3> QED
      BY <1>1, <1>3, HonestSettle, Settled DEF Outcomes, k
  <2>2. r.floor = calls[x].floor
    BY <1>1, <1>3 DEF Settle, CallShape
  <2> QED
    BY <1>1, <2>1, <2>2 DEF SameRequest
<1>5. DOMAIN calls = Calls /\ c \in Contexts /\ k \in Keys
  BY <1>3 DEF IInv, Types, CallShape
<1>6. Follows(entry, heard[c][k], r.floor)
  BY <1>1, <1>3, <1>4 DEF Honest, Follows, CallShape
<1>7. entry.by = x
  OBVIOUS
<1>8. \A d \in Contexts, j \in Keys :
        cache'[d][j] \in {NoEntry, cache[d][j]} \/ (d = c /\ j = k /\ cache'[d][j] = entry)
  BY <1>1, <1>5 DEF Put, IInv, Types
<1> HIDE DEF r, c, k, entry
<1>9. calls'[x] = r /\ \A y \in Calls \ {x} : calls'[y] = calls[y]
  BY <1>1, <1>5
<1>10. HeardOfServer'
  BY <1>1 DEF VInv, HeardOfServer
<1>11. CallsHonest'
  BY <1>1, <1>4, <1>9, SameServer, CallsHonestAfter
<1>12. CacheFollowsInvalidations'
  <2> SUFFICES ASSUME NEW d \in Contexts, NEW j \in Keys, cache'[d][j] # NoEntry
               PROVE  Follows(cache'[d][j], heard'[d][j], calls'[cache'[d][j].by].floor)
    BY DEF CacheFollowsInvalidations, Follows
  <2>1. CASE d = c /\ j = k /\ cache'[d][j] = entry
    BY <1>1, <1>6, <1>7, <1>9, <2>1
  <2>2. CASE cache'[d][j] = cache[d][j]
    <3>1. Follows(cache[d][j], heard[d][j], calls[cache[d][j].by].floor)
      BY <2>2 DEF VInv, CacheFollowsInvalidations, Follows
    <3>2. cache[d][j].by \in Calls /\ Successful(calls[cache[d][j].by])
      BY <2>2 DEF IInv, CachedBySuccess, SettledSuccess, Successful, Entry
    <3>3. calls'[cache[d][j].by] = calls[cache[d][j].by]
      BY <1>2, <1>9, <3>2
    <3> QED
      BY <1>1, <2>2, <3>1, <3>3
  <2> QED
    BY <1>8, <2>1, <2>2
<1>13. SuccessInvalidates'
  BY <1>1, <1>4, <1>9 DEF VInv, SuccessInvalidates
<1> QED
  BY <1>10, <1>11, <1>12, <1>13 DEF VInv

(* What a context is told of leaves its cache.                             *)
LEMMA PublishInvalidationFollows ==
  ASSUME IInv, IInv', VInv, NEW x \in Calls, PublishInvalidation(x) PROVE VInv'
<1>0. PICK announced \in BOOLEAN : Published(x, announced)
  BY DEF PublishInvalidation, Published
<1> DEFINE s == Settle(calls[x], "succeeded")
           r == [s EXCEPT !.announced = announced]
           c == calls[x].context
           k == calls[x].key
           v == calls[x].version
           told == Informed(c, announced)
<1>1. calls[x].stage = "committing" /\ calls' = [calls EXCEPT ![x] = r]
      /\ InvalidateTags(told, k)
      /\ heard' = [d \in Contexts |->
                     IF d \in told /\ heard[d][k] < v
                     THEN [heard[d] EXCEPT ![k] = v] ELSE heard[d]]
      /\ UNCHANGED <<server, subscribed>>
  BY <1>0 DEF Published
<1>2. calls[x] \in CallShape /\ Honest(calls[x], server[k]) /\ server[k] \in Nat
      /\ c \in Contexts /\ k \in Keys /\ v \in Nat
  BY <1>1, HonestCall DEF CallShape
<1>3. calls[x].kind = "mutation" /\ v # NoVersion /\ v <= server[k]
  BY <1>1, <1>2 DEF Honest
<1>4. Honest(r, server[k]) /\ r.key = k /\ r.kind = "mutation" /\ r.version = v
      /\ r.context = c /\ r.announced = announced
  <2>1. Honest(s, server[k]) /\ s.key = k /\ SameRequest(calls[x], s) /\ s.version = v
        /\ s \in CallShape
    <3> HIDE DEF k
    <3> QED
      BY <1>2, <1>3, HonestSettle, Settled DEF Outcomes, k
  <2> HIDE DEF s, k, v, c
  <2>2. r.key = s.key /\ r.kind = s.kind /\ r.version = s.version /\ r.context = s.context
        /\ r.announced = announced
    BY <2>1 DEF CallShape
  <2>3. Honest(r, server[k])
    BY <2>1 DEF Honest, Successful, CallShape
  <2> QED
    BY <1>3, <2>1, <2>2, <2>3 DEF SameRequest, c
<1>5. DOMAIN calls = Calls
      /\ heard \in [Contexts -> [Keys -> Nat]]
      /\ DOMAIN cache = Contexts /\ \A d \in Contexts : DOMAIN cache[d] = Keys
  BY DEF IInv, Types
<1> HIDE DEF r, c, k, v, told
<1>6. calls'[x] = r /\ \A y \in Calls \ {x} : calls'[y] = calls[y]
  BY <1>1, <1>5
<1>7. \A d \in Contexts, j \in Keys :
        /\ heard'[d][j] \in {heard[d][j], v} /\ heard[d][j] <= heard'[d][j]
        /\ j # k \/ d \notin told => heard'[d][j] = heard[d][j]
        /\ j = k /\ d \in told => heard'[d][j] >= v
  BY <1>1, <1>2, <1>5
<1>8. \A d \in Contexts, j \in Keys :
        cache'[d][j] = IF d \in told /\ j = k THEN NoEntry ELSE cache[d][j]
  BY <1>1, <1>2, <1>5 DEF InvalidateTags
<1>9. HeardOfServer'
  BY <1>1, <1>3, <1>7 DEF VInv, HeardOfServer
<1>10. CallsHonest'
  BY <1>1, <1>4, <1>6, SameServer, CallsHonestAfter
<1>11. CacheFollowsInvalidations'
  <2> SUFFICES ASSUME NEW d \in Contexts, NEW j \in Keys, cache'[d][j] # NoEntry
               PROVE  Follows(cache'[d][j], heard'[d][j], calls'[cache'[d][j].by].floor)
    BY DEF CacheFollowsInvalidations, Follows
  <2>1. cache'[d][j] = cache[d][j] /\ heard'[d][j] = heard[d][j]
    BY <1>7, <1>8
  <2>2. Follows(cache[d][j], heard[d][j], calls[cache[d][j].by].floor)
    BY <2>1 DEF VInv, CacheFollowsInvalidations, Follows
  <2>3. cache[d][j].by \in Calls /\ calls[cache[d][j].by].stage = "settled"
    BY <2>1 DEF IInv, CachedBySuccess, SettledSuccess, Entry
  <2>4. calls'[cache[d][j].by] = calls[cache[d][j].by]
    BY <1>1, <1>6, <2>3
  <2> QED
    BY <2>1, <2>2, <2>4
<1>12. SuccessInvalidates'
  <2> SUFFICES ASSUME NEW y \in Calls, calls'[y].stage = "settled",
                      calls'[y].kind = "mutation", calls'[y].outcome = "succeeded",
                      NEW d \in Contexts,
                      d = calls'[y].context \/ (calls'[y].announced /\ subscribed'[d])
               PROVE  heard'[d][calls'[y].key] >= calls'[y].version
    BY DEF SuccessInvalidates
  <2>1. CASE y = x
    <3>1. d \in told
      BY <1>1, <1>4, <1>6, <2>1 DEF Informed, told
    <3> QED
      BY <1>2, <1>4, <1>6, <1>7, <2>1, <3>1
  <2>2. CASE y # x
    <3>1. calls'[y] = calls[y]
      BY <1>6, <2>2
    <3>2. heard[d][calls[y].key] >= calls[y].version
      BY <1>1, <3>1 DEF VInv, SuccessInvalidates
    <3>3. calls[y].key \in Keys /\ calls[y].version \in Nat
      BY <3>1, UsedCall DEF IInv, CallShape
    <3>4. heard[d][calls[y].key] <= heard'[d][calls[y].key]
          /\ heard[d][calls[y].key] \in Nat /\ heard'[d][calls[y].key] \in Nat
      BY <1>2, <1>5, <1>7, <3>3
    <3> QED
      BY <3>1, <3>2, <3>3, <3>4
  <2> QED
    BY <2>1, <2>2
<1> QED
  BY <1>9, <1>10, <1>11, <1>12 DEF VInv

LEMMA InitVersions == ASSUME Init PROVE VInv
BY DEF Init, VInv, HeardOfServer, CallsHonest, CacheFollowsInvalidations, SuccessInvalidates,
       NoVersion, Unused

LEMMA NextVersions == ASSUME IInv, IInv', VInv, [Next]_vars PROVE VInv'
<1>1. ASSUME NEW c \in Contexts, Dispose(c) PROVE VInv'
  BY <1>1, DisposeFollows
<1>2. ASSUME NEW c \in Contexts, NEW k \in Keys, Age(c, k) PROVE VInv'
  BY <1>2, AgeFollows
<1>3. ASSUME NEW x \in Calls, NEW c \in Contexts, NEW a \in Actors, NEW k \in Keys,
             ExecuteQuery(x, c, a, k) \/ ExecuteMutation(x, c, a, k)
      PROVE  VInv'
  BY <1>3, ExecuteFollows
<1>4. ASSUME NEW x \in Calls, Abort(x) \/ ApplyOptimistic(x) PROVE VInv'
  BY <1>4, AbortFollows, ApplyOptimisticFollows
<1>5. ASSUME NEW x \in Calls,
             ServerReads(x) \/ ServerApplies(x) \/ HandlerAnswers(x) \/ EndWait(x)
      PROVE  VInv'
  BY <1>5, ServerReadsFollows, ServerAppliesFollows, HandlerAnswersFollows, EndWaitFollows
<1>6. ASSUME NEW x \in Calls, Discard(x) \/ Refuse(x) PROVE VInv'
  BY <1>6, RefusalFollows
<1>7. ASSUME NEW x \in Calls, CommitQuery(x) \/ CommitMutation(x) \/ PublishInvalidation(x)
      PROVE  VInv'
  BY <1>7, CommitQueryFollows, CommitMutationFollows, PublishInvalidationFollows
<1>8. CASE UNCHANGED vars
  <2>1. UNCHANGED <<server, cache, subscribed, heard, calls>>
    BY <1>8 DEF vars
  <2>2. QuietStep
    BY <2>1, SameServer DEF QuietStep, CallMoves, EntryKept
  <2> QED
    BY <2>2, QuietInvariant
<1> QED
  BY <1>1, <1>2, <1>3, <1>4, <1>5, <1>6, <1>7, <1>8 DEF Next

THEOREM VersionsInvariance == Spec => []VInv
<1>1. Init => VInv
  BY InitVersions
<1>2. IInv /\ IInv' /\ VInv /\ [Next]_vars => VInv'
  BY NextVersions
<1> QED
  BY <1>1, <1>2, Invariance, PTL DEF Spec

(* A cached entry (set and invalidateTags of cache.ts) has survived every  *)
(* invalidation its context was told of since it was stored, and is older  *)
(* than an earlier one only if its request was already on its way then.    *)
THEOREM EntriesFollow == Spec => []CacheFollowsInvalidations
<1>1. VInv => CacheFollowsInvalidations
  BY DEF VInv
<1> QED
  BY <1>1, VersionsInvariance, PTL

(* commitSuccess (coordinator.ts) has told its own context and every one   *)
(* that listens of the version of a mutation, before it is a success.      *)
THEOREM SuccessesInvalidate == Spec => []SuccessInvalidates
<1>1. VInv => SuccessInvalidates
  BY DEF VInv
<1> QED
  BY <1>1, VersionsInvariance, PTL

-----------------------------------------------------------------------------
(* Aborted requests.                                                       *)

\* A call that goes from a to b does not reach its handler again once aborted.
Obeys(a, b) ==
  a # Unused /\ a.aborted /\ b.stage = "invoking" =>
    a.stage = "invoking" /\ b.attempts = a.attempts

LEMMA OneCallObeys ==
  ASSUME IInv, NEW x \in Calls, NEW r, calls' = [calls EXCEPT ![x] = r], Obeys(calls[x], r)
  PROVE  \A y \in Calls : Obeys(calls[y], calls'[y])
<1>1. DOMAIN calls = Calls
  BY DEF IInv, Types
<1> QED
  BY <1>1 DEF Obeys

LEMMA StoppedObeys ==
  ASSUME IInv, NEW S, NEW c \in Contexts, NEW y \in Calls
  PROVE  Obeys(calls[y], Stopped(S, c)[y])
<1>1. CASE y \in S /\ InProgressOf(y, c) /\ Current(y)
  <2>1. /\ Stopped(S, c)[y] = [calls[y] EXCEPT !.aborted = TRUE, !.superseded = TRUE]
        /\ calls[y] \in CallShape
    BY <1>1, InProgressCall DEF Stopped, InProgressOf
  <2> QED
    BY <2>1 DEF Obeys, CallShape
<1>2. CASE ~(y \in S /\ InProgressOf(y, c) /\ Current(y))
  BY <1>2 DEF Stopped, Obeys
<1> QED
  BY <1>1, <1>2

(* The checks of the signal before each attempt (invokeDataSource) and in  *)
(* the retry loop (invocation.ts, retry.ts) see every abort.               *)
LEMMA AttemptObeys ==
  ASSUME NEW a, NEW call \in CallShape, NEW h \in Nat, a # Unused => call.aborted = a.aborted
  PROVE  Obeys(a, Attempt(call, h))
BY Attempted DEF Obeys

LEMMA StepObeys ==
  ASSUME IInv, [Next]_vars
  PROVE  \A x \in Calls : Obeys(calls[x], calls'[x])
<1>1. ASSUME NEW c \in Contexts, Dispose(c)
      PROVE  \A x \in Calls : Obeys(calls[x], calls'[x])
  BY <1>1, StoppedObeys DEF Dispose
<1>2. ASSUME UNCHANGED calls PROVE \A x \in Calls : Obeys(calls[x], calls'[x])
  BY <1>2 DEF Obeys
<1>3. ASSUME NEW x \in Calls, calls[x] = Unused,
             \/ \E r : calls' = [calls EXCEPT ![x] = r]
             \/ \E r, S : \E c \in Contexts : calls' = [Stopped(S, c) EXCEPT ![x] = r]
      PROVE  \A y \in Calls : Obeys(calls[y], calls'[y])
  <2>1. CASE \E r : calls' = [calls EXCEPT ![x] = r]
    BY <1>3, <2>1, OneCallObeys DEF Obeys
  <2>2. CASE \E r, S : \E c \in Contexts : calls' = [Stopped(S, c) EXCEPT ![x] = r]
    <3>1. PICK r, S : \E c \in Contexts : calls' = [Stopped(S, c) EXCEPT ![x] = r]
      BY <2>2
    <3>2. PICK c \in Contexts : calls' = [Stopped(S, c) EXCEPT ![x] = r]
      BY <3>1
    <3>3. \A y \in Calls \ {x} : calls'[y] = Stopped(S, c)[y]
      BY <3>2 DEF Stopped
    <3> QED
      BY <1>3, <3>3, StoppedObeys DEF Obeys
  <2> QED
    BY <1>3, <2>1, <2>2
<1>4. ASSUME NEW x \in Calls, NEW c \in Contexts, NEW a \in Actors, NEW k \in Keys,
             ExecuteQuery(x, c, a, k) \/ ExecuteMutation(x, c, a, k)
      PROVE  \A y \in Calls : Obeys(calls[y], calls'[y])
  <2>1. calls[x] = Unused
    BY <1>4 DEF ExecuteQuery, ExecuteMutation
  <2>2. PICK call : /\ call.context = c
                    /\ \/ \E outcome : AnswerAtOnce(x, call, outcome)
                       \/ Start(x, call)
    <3>1. \A kind, aborted : NewCall(c, a, kind, k, aborted).context = c
      BY DEF NewCall
    <3> QED
      BY <1>4, <3>1, Zenon DEF ExecuteQuery, ExecuteMutation
  <2> QED
    BY <1>3, <2>1, <2>2, Zenon DEF AnswerAtOnce, Start
<1>5. ASSUME NEW x \in Calls, Abort(x) \/ ServerReads(x) \/ ServerApplies(x)
      PROVE  \A y \in Calls : Obeys(calls[y], calls'[y])
  <2>1. calls[x] \in CallShape
    BY <1>5, InProgressCall DEF Abort, ServerReads, ServerApplies, InProgress, IInv, Types
  <2>2. PICK aborted, v :
          calls' = [calls EXCEPT ![x] = [calls[x] EXCEPT !.aborted = aborted, !.version = v]]
    <3>1. CASE Abort(x)
      <4>1. [calls[x] EXCEPT !.aborted = TRUE] =
              [calls[x] EXCEPT !.aborted = TRUE, !.version = calls[x].version]
        BY <2>1 DEF CallShape
      <4> QED
        BY <3>1, <4>1 DEF Abort
    <3>2. CASE ServerReads(x) \/ ServerApplies(x)
      <4>1. PICK v : calls' = [calls EXCEPT ![x] = [calls[x] EXCEPT !.version = v]]
        BY <3>2 DEF ServerReads, ServerApplies
      <4>2. [calls[x] EXCEPT !.version = v] =
              [calls[x] EXCEPT !.aborted = calls[x].aborted, !.version = v]
        BY <2>1 DEF CallShape
      <4> QED
        BY <4>1, <4>2
    <3> QED
      BY <1>5, <3>1, <3>2
  <2> DEFINE r == [calls[x] EXCEPT !.aborted = aborted, !.version = v]
  <2>3. Obeys(calls[x], r)
    BY <2>1 DEF Obeys, CallShape
  <2> HIDE DEF r
  <2> QED
    BY <2>2, <2>3, OneCallObeys DEF r
<1>6. ASSUME NEW x \in Calls, ApplyOptimistic(x) \/ HandlerAnswers(x) \/ EndWait(x)
      PROVE  \A y \in Calls : Obeys(calls[y], calls'[y])
  <2>1. calls[x].stage \in InProgress /\ calls[x] \in CallShape
    BY <1>6, InProgressCall DEF ApplyOptimistic, HandlerAnswers, EndWait, InProgress
  <2>2. PICK r : /\ calls' = [calls EXCEPT ![x] = r]
                 /\ \/ r.stage \in {"settled", "waiting", "executed"}
                    \/ \E call \in CallShape, h \in Nat :
                         call.aborted = calls[x].aborted /\ r = Attempt(call, h)
    <3>1. CASE ApplyOptimistic(x)
      <4> DEFINE applied == [calls[x] EXCEPT !.lease = IF Optimistic THEN "applied" ELSE "none"]
      <4>1. applied \in CallShape /\ applied.aborted = calls[x].aborted
        BY <2>1 DEF CallShape, Leases
      <4>2. PICK r : /\ calls' = [calls EXCEPT ![x] = r]
                     /\ \/ r = Settle(calls[x], "failed")
                        \/ r \in Refusals(applied, "discarded")
                        \/ r = Attempt(applied, heard[applied.context][applied.key])
        <5>1. applied.context = calls[x].context /\ applied.key = calls[x].key
          BY <2>1 DEF CallShape
        <5> HIDE DEF applied
        <5> QED
          BY <3>1, <5>1 DEF ApplyOptimistic, applied
      <4> HIDE DEF applied
      <4>3. \A call \in CallShape : \A outcome : Settle(call, outcome).stage = "settled"
        BY DEF Settle, CallShape
      <4>4. RolledBack(applied) \in CallShape
        BY <4>1 DEF RolledBack, CallShape, Leases
      <4>5. r \in Refusals(applied, "discarded") => r.stage = "settled"
        BY <4>3, <4>4 DEF Refusals
      <4>6. heard[applied.context][applied.key] \in Nat
        BY <4>1 DEF CallShape, IInv, Types
      <4> QED
        BY <2>1, <4>1, <4>2, <4>3, <4>5, <4>6
    <3>2. CASE HandlerAnswers(x)
      <4>1. PICK result \in Answers(calls[x]), delayed \in BOOLEAN :
              LET call == [calls[x] EXCEPT !.result = result]
              IN  calls' = [calls EXCEPT ![x] =
                    IF ShouldRetry(call, result) /\ delayed
                    THEN [call EXCEPT !.stage = "waiting", !.deaf = call.aborted]
                    ELSE IF ShouldRetry(call, result) /\ ~call.aborted
                    THEN Attempt(call, heard[call.context][call.key])
                    ELSE [call EXCEPT !.stage = "executed"]]
        BY <3>2 DEF HandlerAnswers
      <4> DEFINE call == [calls[x] EXCEPT !.result = result]
      <4>2. result \in Results
        BY DEF Answers, Results
      <4>3. call \in CallShape /\ call.aborted = calls[x].aborted
        BY <2>1, <4>2 DEF CallShape
      <4> HIDE DEF call
      <4>4. [call EXCEPT !.stage = "waiting", !.deaf = call.aborted].stage = "waiting"
            /\ [call EXCEPT !.stage = "executed"].stage = "executed"
        BY <4>3 DEF CallShape
      <4>5. PICK r : /\ calls' = [calls EXCEPT ![x] = r]
                     /\ \/ r.stage \in {"waiting", "executed"}
                        \/ r = Attempt(call, heard[call.context][call.key])
        BY <4>1, <4>4 DEF call
      <4>6. heard[call.context][call.key] \in Nat
        BY <4>3 DEF CallShape, IInv, Types
      <4> QED
        BY <4>3, <4>5, <4>6
    <3>3. CASE EndWait(x)
      <4>1. [calls[x] EXCEPT !.stage = "executed"].stage = "executed"
            /\ heard[calls[x].context][calls[x].key] \in Nat
        BY <2>1 DEF CallShape, IInv, Types
      <4>2. PICK r : /\ calls' = [calls EXCEPT ![x] = r]
                     /\ \/ r.stage = "executed"
                        \/ r = Attempt(calls[x], heard[calls[x].context][calls[x].key])
        BY <3>3, <4>1 DEF EndWait
      <4> QED
        BY <2>1, <4>1, <4>2
    <3> QED
      BY <1>6, <3>1, <3>2, <3>3
  <2>3. Obeys(calls[x], r)
    <3>1. CASE r.stage \in {"settled", "waiting", "executed"}
      BY <3>1 DEF Obeys
    <3>2. ASSUME NEW call \in CallShape, NEW h \in Nat, call.aborted = calls[x].aborted,
                 r = Attempt(call, h)
          PROVE  Obeys(calls[x], r)
      BY <3>2, AttemptObeys
    <3> QED
      BY <2>2, <3>1, <3>2
  <2> QED
    BY <2>2, <2>3, OneCallObeys
<1>7. ASSUME NEW x \in Calls,
             \/ Discard(x) \/ Refuse(x) \/ CommitQuery(x) \/ CommitMutation(x)
             \/ PublishInvalidation(x)
      PROVE  \A y \in Calls : Obeys(calls[y], calls'[y])
  <2>1. calls[x] \in CallShape
    BY <1>7, UsedCall
       DEF Discard, Refuse, CommitQuery, CommitMutation, PublishInvalidation, IInv
  <2>2. \A call \in CallShape : \A outcome : Settle(call, outcome).stage = "settled"
    BY DEF Settle, CallShape
  <2>3. \A outcome : \A r \in Refusals(calls[x], outcome) : r.stage = "settled"
    <3>1. RolledBack(calls[x]) \in CallShape
      BY <2>1 DEF RolledBack, CallShape, Leases
    <3> QED
      BY <2>2, <3>1 DEF Refusals
  <2>4. PICK r : calls' = [calls EXCEPT ![x] = r] /\ r.stage \in {"settled", "committing"}
    <3>1. CASE Discard(x) \/ Refuse(x)
      BY <2>3, <3>1 DEF Discard, Refuse
    <3>2. CASE CommitQuery(x)
      BY <2>1, <2>2, <3>2 DEF CommitQuery
    <3>3. CASE PublishInvalidation(x)
      <4>1. PICK announced \in BOOLEAN : Published(x, announced)
        BY <3>3 DEF PublishInvalidation, Published
      <4> DEFINE s == Settle(calls[x], "succeeded")
                 r == [s EXCEPT !.announced = announced]
      <4>2. calls' = [calls EXCEPT ![x] = r]
        BY <4>1 DEF Published
      <4>3. s \in CallShape /\ s.stage = "settled"
        BY <2>1, Settled DEF Outcomes
      <4> HIDE DEF s
      <4>4. r.stage = "settled"
        BY <4>3 DEF CallShape
      <4> HIDE DEF r
      <4> QED
        BY <4>2, <4>4
    <3>4. CASE CommitMutation(x)
      <4> DEFINE r == [calls[x] EXCEPT !.stage = "committing",
                                       !.lease = IF calls[x].lease = "applied" THEN "committed"
                                                 ELSE calls[x].lease]
      <4>1. r.stage = "committing" /\ calls' = [calls EXCEPT ![x] = r]
        BY <2>1, <3>4 DEF CommitMutation, CallShape
      <4> HIDE DEF r
      <4> QED
        BY <4>1
    <3> QED
      BY <1>7, <3>1, <3>2, <3>3, <3>4
  <2>5. Obeys(calls[x], r)
    BY <2>4 DEF Obeys
  <2> QED
    BY <2>4, <2>5, OneCallObeys
<1>8. ASSUME NEW c \in Contexts, NEW k \in Keys, Age(c, k) PROVE UNCHANGED calls
  BY <1>8 DEF Age
<1> QED
  BY <1>1, <1>2, <1>4, <1>5, <1>6, <1>7, <1>8 DEF Next, vars

(* An aborted request (cancel, dispose, a newer request or the external    *)
(* signal) does not call its handler again: invokeDataSource looks at the  *)
(* signal before every attempt (invocation.ts).                            *)
THEOREM AbortsObeyed == Spec => AbortStopsHandler
<1>1. IInv /\ [Next]_vars =>
        [\A x \in Calls :
           calls[x] # Unused /\ calls[x].aborted /\ calls'[x].stage = "invoking" =>
             calls[x].stage = "invoking" /\ calls'[x].attempts = calls[x].attempts]_vars
  BY StepObeys DEF Obeys
<1> QED
  BY <1>1, Invariance, PTL DEF Spec, AbortStopsHandler
=============================================================================
