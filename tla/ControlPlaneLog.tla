--------------------------- MODULE ControlPlaneLog ---------------------------
(***************************************************************************)
(* The retained realtime history of one tenant of the control plane, as    *)
(* its two adapters keep it: the array of ReferenceControlPlaneOutbox      *)
(* (packages/control-plane/src/reference-outbox.ts) and the rows of the    *)
(* table unifold_control_plane_realtime (sqlite-outbox.ts).  Both are      *)
(* driven by the same publications, so one behaviour compares them.        *)
(*                                                                         *)
(* A message is its tenant sequence number: no property of this module     *)
(* reads a payload.  An answer lists its messages in sequence order, so it *)
(* is the set of their numbers.                                            *)
(***************************************************************************)
EXTENDS Integers, Sequences, FiniteSetsExt, Functions

CONSTANTS
  Retention,    \* realtimeRetention: how many messages a tenant retains
  MaxSequence   \* bound: publications of a behaviour

\* The stores accept every limit, 0 included (configuredLimit).
ASSUME RetentionAssumption == Retention \in Nat
ASSUME SequenceBoundAssumption == MaxSequence \in Nat

VARIABLES
  nextSequence,  \* the next sequence number of the tenant
  messages,      \* reference adapter: the retained messages, oldest first
  realtimeRows   \* SQLite adapter: the sequence numbers of the retained rows

logVars == <<nextSequence, messages, realtimeRows>>

LogInit ==
  /\ nextSequence = 1
  /\ messages = << >>
  /\ realtimeRows = {}

latestSequence == nextSequence - 1

-----------------------------------------------------------------------------
(* Mutations of the definitions below (see PROJECT.json, "mutants").       *)

GapFromOldest(count, after, oldest) == count > 0 /\ after < oldest - 2

-----------------------------------------------------------------------------
(* Publication: push then shift the array, insert the row then delete      *)
(* every row at or below the threshold.                                    *)

PushAndShift(log, sequence) ==
  LET pushed == Append(log, sequence)
  IN  IF Len(pushed) > Retention THEN Tail(pushed) ELSE pushed

InsertAndTrim(rows, sequence) ==
  {s \in rows \cup {sequence} : s > sequence - Retention}

AppendMessage ==
  /\ nextSequence <= MaxSequence
  /\ nextSequence' = nextSequence + 1
  /\ messages' = PushAndShift(messages, nextSequence)
  /\ realtimeRows' = InsertAndTrim(realtimeRows, nextSequence)

-----------------------------------------------------------------------------
(* Resume: a gap, or everything retained after the cursor.  The reference  *)
(* adapter looks for the oldest message in the whole array, the SQLite     *)
(* adapter in the rows after the cursor only.                              *)

RealtimeGap(count, after, oldest) == count > 0 /\ after < oldest - 1

Gap == [status |-> "gap", latest |-> 0, messages |-> {}, oldest |-> 0]

Batch(after, retained, oldest) ==
  [status |-> "succeeded", latest |-> latestSequence,
   messages |-> {s \in retained : s > after}, oldest |-> oldest]

ResumeReference(after) ==
  LET oldest == IF messages = << >> THEN nextSequence ELSE messages[1]
  IN  IF RealtimeGap(Len(messages), after, oldest)
      THEN Gap
      ELSE Batch(after, Range(messages), oldest)

ResumeSqlite(after) ==
  LET rows   == {s \in realtimeRows : s > after}
      oldest == IF rows = {} THEN nextSequence ELSE Min(rows)
  IN  IF RealtimeGap(Cardinality(rows), after, oldest)
      THEN Gap
      ELSE Batch(after, rows, oldest)

-----------------------------------------------------------------------------
(* Every retained message of both adapters is one of the last Retention    *)
(* publications, whatever happened to the deliveries of the same messages: *)
(* docs/control-plane.md, "Delivery rows are independent from retained     *)
(* realtime rows so broker completion does not erase reconnect evidence".  *)
RetainedWindow ==
  LET count == Min({Retention, latestSequence})
  IN  /\ Len(messages) = count
      /\ \A i \in 1..count : messages[i] = latestSequence - count + i
      /\ realtimeRows = (latestSequence - count + 1)..latestSequence

(* No silent loss: a resume either answers every message published after   *)
(* the cursor or reports the gap ("If retention has removed an earlier     *)
(* message, the result is ... Gap", docs/control-plane.md).                *)
Complete(answer, after) ==
  answer.status = "gap" <=> answer.messages # (after + 1)..latestSequence

ResumeComplete ==
  \A after \in 0..latestSequence :
    /\ Complete(ResumeReference(after), after)
    /\ Complete(ResumeSqlite(after), after)

(* The two adapters are interchangeable behind the port: for every cursor, *)
(* a cursor from the future included, they agree on the gap, the messages  *)
(* and the latest sequence.                                                *)
AdaptersAgree ==
  \A after \in 0..(MaxSequence + 1) :
    LET reference == ResumeReference(after)
        sqlite    == ResumeSqlite(after)
    IN  /\ reference.status = sqlite.status
        /\ reference.messages = sqlite.messages
        /\ reference.latest = sqlite.latest
=============================================================================
