---------------------------- MODULE RealtimeCursor ----------------------------
(***************************************************************************)
(* One client cursor over the realtime stream of a tenant                  *)
(* (packages/control-plane/src/realtime-transport.ts).  poll reads the     *)
(* cursor, awaits the service, and checks the answer against the cursor as *)
(* it is when the answer arrives.  The host may poll again before an       *)
(* answer arrives, so polls overlap each other, publications, and a        *)
(* recovery that resets the cursor.                                        *)
(***************************************************************************)
EXTENDS ControlPlaneLog

CONSTANTS
  Adapter,          \* which store serves the polls: "reference" or "sqlite"
  Polls,            \* the host's concurrent poll calls
  MaximumMessages,  \* maximumMessages of the cursor
  FaithfulService   \* FALSE: the service may leave out messages of an answer

ASSUME AdapterAssumption == Adapter \in {"reference", "sqlite"}
\* configuredMaximum
ASSUME MaximumAssumption == MaximumMessages \in Nat \ {0}
ASSUME ServiceAssumption == FaithfulService \in BOOLEAN

VARIABLES
  cursor,     \* #cursor
  polls,      \* poll call -> idle, requested after a cursor, or answered
  recovery,   \* host: none, needed after a gap, or a reread resuming at a sequence
  accounted   \* host: messages it was handed, or that a reread stands for

clientVars == <<cursor, polls, recovery, accounted>>
cursorVars == <<nextSequence, messages, realtimeRows, cursor, polls, recovery, accounted>>

Idle == [stage |-> "idle"]
Requested(after) == [stage |-> "requested", after |-> after]
Answered(answer) == [stage |-> "answered", answer |-> answer]

Calm == [stage |-> "none"]
Needed == [stage |-> "needed"]
Rereading(sequence) == [stage |-> "rereading", sequence |-> sequence]

CursorInit ==
  /\ LogInit
  /\ cursor = 0
  /\ polls = [p \in Polls |-> Idle]
  /\ recovery = Calm
  /\ accounted = {}

-----------------------------------------------------------------------------
(* Mutations of the definitions below (see PROJECT.json, "mutants").       *)

BelowMessageLimit(answer) == Cardinality(answer.messages) < MaximumMessages

-----------------------------------------------------------------------------
(* requireBatch: the answer against the cursor on arrival.                 *)

WithinMessageLimit(answer) == Cardinality(answer.messages) <= MaximumMessages

ValidMessageSequence(answer, position) ==
  /\ answer.messages = (position + 1)..(position + Cardinality(answer.messages))
  /\ Max(answer.messages) = answer.latest

EmptyBatchAlwaysValid(answer, position) ==
  IF answer.messages = {} THEN TRUE ELSE ValidMessageSequence(answer, position)

ValidBatchSequence(answer, position) ==
  /\ answer.latest >= position
  /\ answer.oldest \in 1..(position + 1)
  /\ IF answer.messages = {}
     THEN answer.latest = position
     ELSE ValidMessageSequence(answer, position)

RequireBatch(answer, position) ==
  WithinMessageLimit(answer) /\ ValidBatchSequence(answer, position)

-----------------------------------------------------------------------------
CursorPublish == AppendMessage /\ UNCHANGED clientVars

StartPoll(p) ==
  /\ polls[p] = Idle
  /\ polls' = [polls EXCEPT ![p] = Requested(cursor)]
  /\ UNCHANGED <<logVars, cursor, recovery, accounted>>

Resume(after) ==
  IF Adapter = "reference" THEN ResumeReference(after) ELSE ResumeSqlite(after)

\* The service answers: resumeRealtime of the store, some time after the call.
Serve(p) ==
  /\ polls[p].stage = "requested"
  /\ polls' = [polls EXCEPT ![p] = Answered(Resume(polls[p].after))]
  /\ UNCHANGED <<logVars, cursor, recovery, accounted>>

\* External: another service behind the same interface answers with messages
\* missing (realtime-transport.test.ts gives the cursor such a service).
ServeIncomplete(p) ==
  /\ ~FaithfulService
  /\ polls[p].stage = "requested"
  /\ \E left \in SUBSET Resume(polls[p].after).messages :
       polls' = [polls EXCEPT ![p] =
                   Answered([Resume(polls[p].after) EXCEPT !.messages = left])]
  /\ UNCHANGED <<logVars, cursor, recovery, accounted>>

\* The request or its answer is lost, or the answer is another failure.
Fail(p) ==
  /\ polls[p] # Idle
  /\ polls' = [polls EXCEPT ![p] = Idle]
  /\ UNCHANGED <<logVars, cursor, recovery, accounted>>

\* A gap leaves the cursor alone and obliges the host to reread.
DeliverGap(p) ==
  /\ polls[p].stage = "answered"
  /\ polls[p].answer.status = "gap"
  /\ polls' = [polls EXCEPT ![p] = Idle]
  /\ recovery' = IF recovery = Calm THEN Needed ELSE recovery
  /\ UNCHANGED <<logVars, cursor, accounted>>

\* poll throws MessageLimitExceeded or InvalidBatch without moving the cursor.
RejectBatch(p) ==
  /\ polls[p].stage = "answered"
  /\ polls[p].answer.status = "succeeded"
  /\ ~RequireBatch(polls[p].answer, cursor)
  /\ polls' = [polls EXCEPT ![p] = Idle]
  /\ UNCHANGED <<logVars, cursor, recovery, accounted>>

AcceptBatch(p) ==
  /\ polls[p].stage = "answered"
  /\ polls[p].answer.status = "succeeded"
  /\ RequireBatch(polls[p].answer, cursor)
  /\ cursor' = polls[p].answer.latest
  /\ accounted' = accounted \cup polls[p].answer.messages
  /\ polls' = [polls EXCEPT ![p] = Idle]
  /\ UNCHANGED <<logVars, recovery>>

\* External: the host takes the sequence to resume from, then rereads the
\* objects, which reflect at least the messages up to that sequence.
StartReread ==
  /\ recovery = Needed
  /\ recovery' = Rereading(latestSequence)
  /\ UNCHANGED <<logVars, cursor, polls, accounted>>

ResetAfterAuthoritativeRead ==
  /\ recovery.stage = "rereading"
  /\ cursor' = recovery.sequence
  /\ accounted' = accounted \cup 1..recovery.sequence
  /\ recovery' = Calm
  /\ UNCHANGED <<logVars, polls>>

CursorNext ==
  \/ CursorPublish
  \/ StartReread
  \/ ResetAfterAuthoritativeRead
  \/ \E p \in Polls :
       \/ StartPoll(p) \/ Serve(p) \/ ServeIncomplete(p) \/ Fail(p)
       \/ DeliverGap(p) \/ RejectBatch(p) \/ AcceptBatch(p)

CursorSpec == CursorInit /\ [][CursorNext]_cursorVars

(* The host keeps polling and recovers from a gap; a request, a gap and a  *)
(* complete answer are each lost only finitely often in a row, however     *)
(* many incomplete answers come in between.                                *)
CursorFairSpec ==
  /\ CursorSpec
  /\ WF_cursorVars(StartReread) /\ WF_cursorVars(ResetAfterAuthoritativeRead)
  /\ \A p \in Polls :
       /\ WF_cursorVars(StartPoll(p)) /\ SF_cursorVars(Serve(p))
       /\ SF_cursorVars(DeliverGap(p)) /\ SF_cursorVars(RejectBatch(p)) /\ SF_cursorVars(AcceptBatch(p))

-----------------------------------------------------------------------------
Answers ==
  [status : {"gap", "succeeded"}, latest : 0..latestSequence,
   messages : SUBSET (1..latestSequence), oldest : 0..nextSequence]

CursorTypeOK ==
  /\ nextSequence \in 1..(MaxSequence + 1)
  /\ cursor \in 0..latestSequence
  /\ DOMAIN polls = Polls
  /\ \A p \in Polls :
       \/ polls[p] = Idle
       \/ \E after \in 0..latestSequence : polls[p] = Requested(after)
       \/ polls[p].stage = "answered" /\ polls[p].answer \in Answers
  /\ recovery \in {Calm, Needed} \cup {Rereading(s) : s \in 0..latestSequence}
  /\ accounted \subseteq 1..latestSequence

(* However polls, answers, publications and resets interleave, the host    *)
(* has been handed, or has reread past, every message up to the cursor     *)
(* ("Malformed, backward, discontinuous ... batches throw a stable         *)
(* protocol error without moving the cursor", docs/control-plane.md).      *)
NoSkippedMessage == 1..cursor \subseteq accounted

(* The cursor is a gapless reader: it advances only by handing over the    *)
(* messages in between, and goes back only after an authoritative reread.  *)
Reader == INSTANCE GaplessReader
            WITH published <- latestSequence, position <- cursor, covered <- accounted,
                 snapshot <- IF recovery.stage = "rereading" THEN recovery.sequence ELSE -1

ReaderSpec == Reader!Spec

(* A polling host catches up with every publication, through gaps, lost    *)
(* requests and answers its own other polls have made stale.  It needs     *)
(* MaximumMessages >= Retention, which the defaults (1000 and 1000) give:  *)
(* a longer answer is rejected whole, and the next one is no shorter.      *)
EventuallyCurrent ==
  \A s \in 1..MaxSequence : s <= latestSequence ~> s \in accounted
=============================================================================
