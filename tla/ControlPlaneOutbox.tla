------------------------- MODULE ControlPlaneOutbox -------------------------
(***************************************************************************)
(* The durable outbox of one tenant (ControlPlaneOutboxPort) and the       *)
(* workers that drain it to a broker: leases with an expiry, attempts,     *)
(* acknowledgement, release, crash and takeover.  It EXTENDS the retained  *)
(* log because one publication writes both (reference-outbox.ts publish,   *)
(* publishSqliteOutbox).                                                   *)
(*                                                                         *)
(* A worker is external code: one sequential process per identity that     *)
(* remembers what it has leased, hands each message to the broker, and     *)
(* then acknowledges or releases it, at any time, even too late.  Its      *)
(* commands carry an instant it read from its clock up to ClockLag ago and *)
(* never an instant of the future.                                         *)
(***************************************************************************)
EXTENDS ControlPlaneLog

CONSTANTS
  Workers,       \* worker identities
  NoWorker,      \* no lease owner
  LeaseTerm,     \* leaseUntil - leasedAt of every lease
  ClockLag,      \* how old the instant of a command may be on arrival
  RetryDelay,    \* how far ahead a release may schedule the retry
  CommandLimit,  \* sequences of one command (100 in the code)
  MaxTime,       \* bound: the last instant of a behaviour
  MaxAttempts    \* bound: a message is released below this attempt count only

\* requireOutboxLeaseCommand: a lease ends after it starts.
ASSUME LeaseTermAssumption == LeaseTerm \in Nat \ {0}
ASSUME ClockAssumption == ClockLag \in Nat /\ RetryDelay \in Nat /\ MaxTime \in Nat
ASSUME CommandAssumption == CommandLimit \in Nat \ {0} /\ MaxAttempts \in Nat
ASSUME NoWorkerAssumption == NoWorker \notin Workers

VARIABLES
  now,         \* the true time
  deliveries,  \* sequence -> delivery row, for the rows not yet acknowledged
  holding      \* worker -> the sequences it believes it has leased, by which
               \* attempt, until when, and whether the broker has them

vars == <<nextSequence, messages, realtimeRows, now, deliveries, holding>>

\* Instants are naturals; an absent leaseUntil is NoInstant.
NoInstant == -1

\* The instants a command that arrives now may carry.
CommandInstants == {t \in 0..now : t >= now - ClockLag}

Init ==
  /\ LogInit
  /\ now = 0
  /\ deliveries = << >>
  /\ holding = [w \in Workers |-> << >>]

-----------------------------------------------------------------------------
(* Mutations of the definitions below (see PROJECT.json, "mutants").       *)

CanLeaseEarly(row, leasedAt) ==
  row.availableAt <= leasedAt /\ row.leaseUntil <= leasedAt + 1

CanLeaseOnce(row, leasedAt) ==
  row.availableAt <= leasedAt /\ row.leaseUntil = NoInstant

AcquireSameAttempt(row, w, leasedAt) ==
  [row EXCEPT !.leaseOwner = w, !.leaseUntil = leasedAt + LeaseTerm]

-----------------------------------------------------------------------------
(* The rows.                                                               *)

NewRow(occurredAt) ==
  [attempts |-> 0, availableAt |-> occurredAt,
   leaseOwner |-> NoWorker, leaseUntil |-> NoInstant]

CanLease(row, leasedAt) ==
  /\ row.availableAt <= leasedAt
  /\ row.leaseUntil = NoInstant \/ row.leaseUntil <= leasedAt

\* ORDER BY sequence LIMIT limit
FirstAvailable(available, limit) ==
  {s \in available : Cardinality({r \in available : r < s}) < limit}

Acquire(row, w, leasedAt) ==
  [row EXCEPT !.attempts = @ + 1,
              !.leaseOwner = w,
              !.leaseUntil = leasedAt + LeaseTerm]

OwnsCurrentLease(row, w, acknowledgedAt) ==
  /\ row.leaseUntil # NoInstant
  /\ row.leaseOwner = w
  /\ acknowledgedAt <= row.leaseUntil

ReleaseRow(row, availableAt) ==
  [row EXCEPT !.availableAt = availableAt,
              !.leaseOwner = NoWorker,
              !.leaseUntil = NoInstant]

-----------------------------------------------------------------------------
(* The operations.                                                         *)

Publish ==
  /\ AppendMessage
  /\ \E occurredAt \in CommandInstants :
       deliveries' = [s \in DOMAIN deliveries \cup {nextSequence} |->
                        IF s = nextSequence THEN NewRow(occurredAt) ELSE deliveries[s]]
  /\ UNCHANGED <<now, holding>>

LeaseRows(w, leasedAt, reserved) ==
  /\ deliveries' = [s \in DOMAIN deliveries |->
                      IF s \in reserved
                      THEN Acquire(deliveries[s], w, leasedAt)
                      ELSE deliveries[s]]
  /\ holding' = [holding EXCEPT ![w] =
                   [s \in DOMAIN @ \cup reserved |->
                      IF s \in reserved
                      THEN [attempts |-> deliveries'[s].attempts,
                            leaseUntil |-> deliveries'[s].leaseUntil,
                            handled |-> FALSE]
                      ELSE @[s]]]

\* A lease that answers no entry changes nothing and is not a step.
Lease(w) ==
  /\ \E leasedAt \in CommandInstants, limit \in 1..CommandLimit :
       LET available == {s \in DOMAIN deliveries : CanLease(deliveries[s], leasedAt)}
           reserved  == FirstAvailable(available, limit)
       IN  /\ reserved # {}
           /\ LeaseRows(w, leasedAt, reserved)
  /\ UNCHANGED <<logVars, now>>

\* External: the worker gives a message to its broker.
Handle(w) ==
  /\ \E s \in DOMAIN holding[w] :
       /\ ~holding[w][s].handled
       /\ holding' = [holding EXCEPT ![w][s].handled = TRUE]
  /\ UNCHANGED <<logVars, now, deliveries>>

\* The sequences of one command: unique, at least one, at most CommandLimit.
Commands(available) ==
  {S \in SUBSET available : S # {} /\ Cardinality(S) <= CommandLimit}

Forget(w, S) ==
  holding' = [holding EXCEPT ![w] = Restrict(@, DOMAIN @ \ S)]

Acknowledge(w) ==
  /\ \E acknowledgedAt \in CommandInstants :
     \E S \in Commands({s \in DOMAIN holding[w] : holding[w][s].handled}) :
       LET deleted == {s \in S \cap DOMAIN deliveries :
                         OwnsCurrentLease(deliveries[s], w, acknowledgedAt)}
       IN  /\ deliveries' = Restrict(deliveries, DOMAIN deliveries \ deleted)
           /\ Forget(w, S)
  /\ UNCHANGED <<logVars, now>>

Release(w) ==
  /\ \E availableAt \in {t \in now..(now + RetryDelay) : t <= MaxTime} :
     \E S \in Commands({s \in DOMAIN holding[w] : holding[w][s].attempts < MaxAttempts}) :
       /\ deliveries' = [s \in DOMAIN deliveries |->
                           IF s \in S /\ deliveries[s].leaseOwner = w
                           THEN ReleaseRow(deliveries[s], availableAt)
                           ELSE deliveries[s]]
       /\ Forget(w, S)
  /\ UNCHANGED <<logVars, now>>

\* External: a worker restarts under its identity and has forgotten its leases.
\* It crashes only while time is left for those leases to expire.
Crash(w) ==
  /\ DOMAIN holding[w] # {}
  /\ \A s \in DOMAIN holding[w] : holding[w][s].leaseUntil <= MaxTime
  /\ Forget(w, DOMAIN holding[w])
  /\ UNCHANGED <<logVars, now, deliveries>>

Tick ==
  /\ now < MaxTime
  /\ now' = now + 1
  /\ UNCHANGED <<logVars, deliveries, holding>>

Next ==
  \/ Publish
  \/ Tick
  \/ \E w \in Workers : Lease(w) \/ Handle(w) \/ Acknowledge(w) \/ Release(w) \/ Crash(w)

Spec == Init /\ [][Next]_vars

(* Time passes, and a worker keeps leasing, handling and acknowledging.    *)
(* Nothing makes it release, and a crash is not fair.                      *)
FairSpec ==
  /\ Spec
  /\ WF_vars(Tick)
  /\ \A w \in Workers : WF_vars(Lease(w)) /\ WF_vars(Handle(w)) /\ WF_vars(Acknowledge(w))

-----------------------------------------------------------------------------
(* Shapes: both lease fields of a row are present or both are absent.      *)
Row == [attempts : Nat, availableAt : Nat,
        leaseOwner : Workers \cup {NoWorker}, leaseUntil : Nat \cup {NoInstant}]

TypeOK ==
  /\ nextSequence \in 1..(MaxSequence + 1)
  /\ now \in 0..MaxTime
  /\ DOMAIN deliveries \subseteq 1..latestSequence
  /\ \A s \in DOMAIN deliveries :
       /\ deliveries[s] \in Row
       /\ deliveries[s].leaseOwner = NoWorker <=> deliveries[s].leaseUntil = NoInstant
  /\ DOMAIN holding = Workers
  /\ \A w \in Workers :
       /\ DOMAIN holding[w] \subseteq 1..latestSequence
       /\ \A s \in DOMAIN holding[w] :
            holding[w][s] \in [attempts : Nat \ {0}, leaseUntil : Nat, handled : BOOLEAN]

(* A lease is exclusive until it expires: as long as a worker is within    *)
(* the lease it was given, the row still exists and is still reserved for  *)
(* it by the same attempt, so no second worker has reserved it and its     *)
(* acknowledgement will succeed ("A second worker cannot reserve a live    *)
(* lease", packages/control-plane/README.md).                              *)
Live(w, s) == s \in DOMAIN holding[w] /\ now < holding[w][s].leaseUntil

LeaseExclusive ==
  \A w \in Workers : \A s \in DOMAIN holding[w] :
    Live(w, s) =>
      /\ s \in DOMAIN deliveries
      /\ deliveries[s].leaseOwner = w
      /\ deliveries[s].leaseUntil = holding[w][s].leaseUntil
      /\ deliveries[s].attempts = holding[w][s].attempts

(* The attempt count tells reservations apart: two workers that both       *)
(* believe they hold a message, one of them late, hold it under different  *)
(* attempts, and the row is never behind ("every new reservation           *)
(* increments the attempt count", docs/control-plane.md).                  *)
AttemptsFence ==
  \A w \in Workers : \A s \in DOMAIN holding[w] :
    /\ s \in DOMAIN deliveries => holding[w][s].attempts <= deliveries[s].attempts
    /\ \A v \in Workers \ {w} :
         s \in DOMAIN holding[v] => holding[v][s].attempts # holding[w][s].attempts

(* What a worker holds, against the row, at any time: the row is reserved  *)
(* for that worker exactly if the worker's attempt is the latest one.      *)
HeldRows ==
  \A w \in Workers : \A s \in DOMAIN holding[w] \cap DOMAIN deliveries :
    /\ holding[w][s].attempts <= deliveries[s].attempts
    /\ holding[w][s].attempts = deliveries[s].attempts <=> deliveries[s].leaseOwner = w
    /\ deliveries[s].leaseOwner = w => deliveries[s].leaseUntil = holding[w][s].leaseUntil

(* A row leaves the outbox only when the worker of the attempt that then   *)
(* reserves it has given the message to the broker: a stale owner removes  *)
(* nothing after a takeover, and no message is lost.                       *)
RemovedByCurrentAttempt ==
  [][\A s \in DOMAIN deliveries :
       s \notin DOMAIN deliveries' =>
         \E w \in Workers :
           /\ s \in DOMAIN holding[w]
           /\ holding[w][s].attempts = deliveries[s].attempts
           /\ holding[w][s].handled]_vars

(* Every publication reaches the broker and is acknowledged, through late  *)
(* acknowledgements, releases and crashes: an expired lease is taken over. *)
EventuallyDelivered ==
  \A s \in 1..MaxSequence : s < nextSequence ~> s < nextSequence /\ s \notin DOMAIN deliveries
=============================================================================
